--------------------------- MODULE ApprovalsProofs ---------------------------
(***************************************************************************)
(* Proofs about Approvals.  What a request has been through is kept in its *)
(* review thread, hence nothing is applied but what enough checkers        *)
(* approved; and what the sessions of each queue have committed stays in   *)
(* step with the ledger, the users, the batches' rows and the schedules,   *)
(* whatever the sessions of the others do.                                 *)
(***************************************************************************)
EXTENDS Approvals, TLAPS, FiniteSetTheorems, SequenceTheorems

-----------------------------------------------------------------------------
(* The review thread                                                       *)

\* The positions and the elements of a sequence.
LEMMA SeqElements ==
    ASSUME NEW S, NEW seq \in Seq(S)
    PROVE  /\ Len(seq) \in Nat /\ DOMAIN seq = 1..Len(seq) /\ DOMAIN seq \subseteq Nat
           /\ \A i \in DOMAIN seq : seq[i] \in S
OBVIOUS

\* An approval joins the approvers of the round it was given in.
LEMMA ApprovalJoins ==
    ASSUME NEW S, NEW rs \in Seq(S), NEW r \in S, r.action = "approved"
    PROVE  /\ CurrentRound(Append(rs, r)) = CurrentRound(rs) \cup {r}
           /\ Approvers(Append(rs, r)) = Approvers(rs) \cup {r.by}
<1> DEFINE new == Append(rs, r)
           n == Len(rs)
<1>1. /\ n \in Nat /\ DOMAIN rs = 1..n /\ DOMAIN new = 1..(n + 1)
      /\ \A i \in 1..n : new[i] = rs[i]
      /\ new[n + 1] = r
  OBVIOUS
<1>2. ASSUME NEW j \in 1..n
      PROVE  (\A k \in DOMAIN new : new[k].action = "resubmitted" => k < j)
                <=> (\A k \in DOMAIN rs : rs[k].action = "resubmitted" => k < j)
  BY <1>1
<1>3. \A k \in DOMAIN new : new[k].action = "resubmitted" => k < n + 1
  BY <1>1
<1>4. CurrentRound(new) = CurrentRound(rs) \cup {r}
  <2> HIDE DEF new, n
  <2> QED BY <1>1, <1>2, <1>3 DEF CurrentRound
<1>5. Approvers(new) = Approvers(rs) \cup {r.by}
  BY <1>4 DEF Approvers
<1> QED
  BY <1>4, <1>5

\* A resubmission starts a round without approvals.
LEMMA ResubmissionClears ==
    ASSUME NEW S, NEW rs \in Seq(S), NEW r \in S, r.action = "resubmitted"
    PROVE  /\ CurrentRound(Append(rs, r)) = {}
           /\ Approvers(Append(rs, r)) = {}
<1> DEFINE new == Append(rs, r)
<1>1. /\ Len(rs) \in Nat /\ DOMAIN new = 1..(Len(rs) + 1)
      /\ new[Len(rs) + 1] = r
  OBVIOUS
<1>2. CurrentRound(new) = {}
  <2> HIDE DEF new
  <2>1. \A j \in DOMAIN new : \E k \in DOMAIN new : new[k].action = "resubmitted" /\ ~(k < j)
    BY <1>1
  <2> QED BY <2>1 DEF CurrentRound
<1> QED
  BY <1>2 DEF Approvers

\* An empty thread has no approvers.
LEMMA NoReviews == CurrentRound(<<>>) = {} /\ Approvers(<<>>) = {}
BY DEF CurrentRound, Approvers

\* The checkers who approved the payload pl in writing, in any round.
ApprovedFor(reviews, pl) ==
    {reviews[i].by : i \in {j \in DOMAIN reviews :
        reviews[j].action = "approved" /\ reviews[j].about = pl}}

\* A thread has finitely many of them.
LEMMA ApprovedForFinite ==
    ASSUME NEW S, NEW rs \in Seq(S), NEW pl
    PROVE  IsFiniteSet(ApprovedFor(rs, pl))
<1> DEFINE I == {j \in DOMAIN rs : rs[j].action = "approved" /\ rs[j].about = pl}
           f == [i \in I |-> rs[i].by]
<1>1. IsFiniteSet(1..Len(rs))
  BY FS_Interval
<1>2. IsFiniteSet(I)
  <2>1. I \in SUBSET (1..Len(rs))
    OBVIOUS
  <2> QED BY <1>1, <2>1, FS_Subset
<1>3. f \in Surjection(I, ApprovedFor(rs, pl))
  BY DEF Surjection, ApprovedFor
<1> QED
  BY <1>2, <1>3, FS_Surjection

-----------------------------------------------------------------------------
(* Rows of the queues                                                      *)

\* The queues whose requests are locked for every transition.
Locked == {"money", "user", "config"}
Kinds == Locked \cup {"batch"}

\* What a request of each queue asks for, and its row.
OffersOf(kind) ==
    CASE kind = "money"  -> MoneyOffers
      [] kind = "user"   -> UserOffers
      [] kind = "config" -> ConfigOffers

ReviewOf(kind) ==
    CASE kind = "money"  -> MoneyOperationReview
      [] kind = "user"   -> UserOperationReview
      [] kind = "config" -> ConfigChangeReview

TargetOf(kind) ==
    IF kind = "config"
    THEN {None} \cup [scope: Scopes, from: Nat, fee: Nat, by: Proposals \cup {None}]
    ELSE {None}

RequestOf(kind) ==
    CASE kind = "money"  -> MoneyOperationRequest
      [] kind = "user"   -> UserOperationRequest
      [] kind = "config" -> ConfigChangeRequest
      [] kind = "batch"  -> CommissionBatch

\* A row is what its queue says, and is not the absence of one.
LEMMA RowShape ==
    ASSUME NEW kind \in Locked, NEW row \in RequestOf(kind)
    PROVE  /\ row # None /\ row.kind = kind
           /\ row.maker \in Admins /\ row.payload \in OffersOf(kind)
           /\ row.status \in Open \cup {"APPLIED", "WITHDRAWN"}
           /\ row.required \in {1, 2}
           /\ row.reviews \in Seq(ReviewOf(kind))
           /\ DOMAIN row = {"kind", "maker", "payload", "target", "status", "required",
                            "reviews", "linked", "rows"}
BY ApprovalsAssumption
   DEF Locked, RequestOf, OffersOf, ReviewOf, MoneyOperationRequest, UserOperationRequest,
       ConfigChangeRequest

\* The edits of a transition leave a row of its queue.
LEMMA RowEdits ==
    ASSUME NEW kind \in Locked, NEW row \in RequestOf(kind)
    PROVE  /\ \A st \in Open \cup {"APPLIED", "WITHDRAWN"} :
                 [row EXCEPT !.status = st] \in RequestOf(kind)
           /\ \A pl \in OffersOf(kind) : [row EXCEPT !.payload = pl] \in RequestOf(kind)
           /\ \A v \in ReviewOf(kind) :
                 [row EXCEPT !.reviews = Append(@, v)] \in RequestOf(kind)
           /\ kind # "config" => [row EXCEPT !.linked = TRUE] \in RequestOf(kind)
<1>1. CASE kind = "money"
  <2> USE <1>1 DEF RequestOf, MoneyOperationRequest
  <2>1. \A st \in Open \cup {"APPLIED", "WITHDRAWN"} : [row EXCEPT !.status = st] \in RequestOf(kind)
    OBVIOUS
  <2>2. \A pl \in OffersOf(kind) : [row EXCEPT !.payload = pl] \in RequestOf(kind)
    BY DEF OffersOf
  <2>3. ASSUME NEW v \in ReviewOf(kind) PROVE [row EXCEPT !.reviews = Append(@, v)] \in RequestOf(kind)
    <3>1. Append(row.reviews, v) \in Seq(ReviewOf(kind))
      BY DEF ReviewOf
    <3> QED BY <3>1 DEF ReviewOf
  <2>4. [row EXCEPT !.linked = TRUE] \in RequestOf(kind)
    OBVIOUS
  <2> QED BY <2>1, <2>2, <2>3, <2>4
<1>2. CASE kind = "user"
  <2> USE <1>2 DEF RequestOf, UserOperationRequest
  <2>1. \A st \in Open \cup {"APPLIED", "WITHDRAWN"} : [row EXCEPT !.status = st] \in RequestOf(kind)
    OBVIOUS
  <2>2. \A pl \in OffersOf(kind) : [row EXCEPT !.payload = pl] \in RequestOf(kind)
    BY DEF OffersOf
  <2>3. ASSUME NEW v \in ReviewOf(kind) PROVE [row EXCEPT !.reviews = Append(@, v)] \in RequestOf(kind)
    <3>1. Append(row.reviews, v) \in Seq(ReviewOf(kind))
      BY DEF ReviewOf
    <3> QED BY <3>1 DEF ReviewOf
  <2>4. [row EXCEPT !.linked = TRUE] \in RequestOf(kind)
    OBVIOUS
  <2> QED BY <2>1, <2>2, <2>3, <2>4
<1>3. CASE kind = "config"
  <2> USE <1>3 DEF RequestOf, ConfigChangeRequest
  <2>1. \A st \in Open \cup {"APPLIED", "WITHDRAWN"} : [row EXCEPT !.status = st] \in RequestOf(kind)
    OBVIOUS
  <2>2. \A pl \in OffersOf(kind) : [row EXCEPT !.payload = pl] \in RequestOf(kind)
    BY DEF OffersOf
  <2>3. ASSUME NEW v \in ReviewOf(kind) PROVE [row EXCEPT !.reviews = Append(@, v)] \in RequestOf(kind)
    <3>1. Append(row.reviews, v) \in Seq(ReviewOf(kind))
      BY DEF ReviewOf
    <3> QED BY <3>1 DEF ReviewOf
  <2> QED BY <2>1, <2>2, <2>3
<1> QED
  BY <1>1, <1>2, <1>3 DEF Locked

\* A policy asks for one approval or two.
LEMMA RequiredType == \A op : Required(op) \in {1, 2}
<1>1. PICK ops \in SUBSET (Operations \cup {"any"}) :
          "any" \in ops /\ Policy \in [ops -> {None, 1, 2}]
  BY MakerCheckerAssumption DEF ApprovalPolicy
<1> QED
  BY <1>1 DEF Required

\* A request is filed as a row of its queue, waiting, with an empty thread.
LEMMA FiledRow ==
    ASSUME NEW kind \in Locked, NEW a \in Admins, NEW pl \in OffersOf(kind),
           NEW target \in TargetOf(kind), NEW n \in {1, 2}, kind # "money" => n = 1
    PROVE  /\ Filed(kind, a, pl, target, n) \in RequestOf(kind)
           /\ Filed(kind, a, pl, target, n).status = "PENDING"
           /\ Filed(kind, a, pl, target, n).reviews = <<>>
           /\ Filed(kind, a, pl, target, n).required = n
<1> DEFINE row == Filed(kind, a, pl, target, n)
<1>1. row.status = "PENDING" /\ row.reviews = <<>> /\ row.required = n
  BY DEF Filed
<1>2. CASE kind = "money"
  <2>1. <<>> \in Seq(MoneyOperationReview)
    OBVIOUS
  <2> QED BY <1>1, <1>2, <2>1 DEF Filed, RequestOf, OffersOf, TargetOf, MoneyOperationRequest, Open
<1>3. CASE kind = "user"
  <2>1. <<>> \in Seq(UserOperationReview)
    OBVIOUS
  <2> QED BY <1>1, <1>3, <2>1 DEF Filed, RequestOf, OffersOf, TargetOf, UserOperationRequest, Open
<1>4. CASE kind = "config"
  <2>1. <<>> \in Seq(ConfigChangeReview)
    OBVIOUS
  <2> QED BY <1>1, <1>4, <2>1 DEF Filed, RequestOf, OffersOf, TargetOf, ConfigChangeRequest, Open
<1> QED
  BY <1>2, <1>3, <1>4 DEF Locked

-----------------------------------------------------------------------------
(* The invariant                                                           *)

Marks == UNION {[I -> {"posted", "failed"}] : I \in SUBSET Nat}

BatchJob ==
    [p: Proposals, admin: Admins, approvers: SUBSET Admins, todo: SUBSET Nat,
     row: Nat \cup {None}, staged: Marks, fresh: BOOLEAN]

\* The labels of the sessions that work on a filed request.
OnRequest == {"link", "post", "withdraw", "bands", "replace", "decide", "row", "pay", "reject"}
OnBatch == {"decide", "row", "pay"}

Tables ==
    /\ DOMAIN request = Proposals /\ DOMAIN pc = Sessions /\ DOMAIN job = Sessions
    /\ live \subseteq ConfigRows

RowsTyped ==
    \A p \in Proposals :
        request[p] # None => request[p].kind \in Kinds /\ request[p] \in RequestOf(request[p].kind)

\* What the program of session s says of its locals.
JobTyped(s) ==
    /\ pc[s] \in OnRequest => job[s].p \in Proposals /\ request[job[s].p] # None
    /\ pc[s] \in {"withdraw", "replace", "user", "config", "reject"} => job[s].admin \in Admins
    /\ pc[s] = "user" => job[s].payload \in UserOffers
    /\ pc[s] = "config" =>
          job[s].payload \in ConfigOffers /\ job[s].target \in TargetOf("config")
    /\ pc[s] \in OnBatch => job[s] \in BatchJob
    /\ pc[s] \in OnBatch \cup {"reject"} => request[job[s].p].kind = "batch"
    /\ pc[s] \in {"link", "post"} =>
          request[job[s].p].kind \in {"money", "user"} /\ request[job[s].p].status = "APPLIED"
    /\ pc[s] = "bands" =>
          /\ request[job[s].p].kind = "config" /\ request[job[s].p].status = "APPLIED"
          /\ job[s].next \in 1..Len(request[job[s].p].payload.bands)
    /\ pc[s] = "replace" => job[s].old \subseteq ConfigRows
    /\ pc[s] = "pay" => job[s].row \in Nat

JobsTyped == \A s \in Sessions : JobTyped(s)

Typed == Tables /\ RowsTyped /\ JobsTyped

\* Session s holds the row of request p across a step.
Holds(s, p) == pc[s] \in {"withdraw", "replace"} /\ job[s].p = p

\* Checker a may give request p the last approval it needs.
ReadyToApply(a, p, kind) ==
    /\ request[p] # None /\ request[p].kind = kind /\ request[p].status = "PENDING"
    /\ a \in Admins \ ({request[p].maker} \cup Approvers(request[p].reviews))
    /\ Quorum(a, p)

\* A session that holds a row found the request ready, and it still is; no two
\* hold the same row.
HeldReady ==
    \A s \in Sessions :
        /\ pc[s] = "withdraw" => ReadyToApply(job[s].admin, job[s].p, "money")
        /\ pc[s] = "replace" => ReadyToApply(job[s].admin, job[s].p, "config")
        /\ \A t \in Sessions \ {s} : \A p \in Proposals : ~(Holds(s, p) /\ Holds(t, p))

-----------------------------------------------------------------------------
(* What a step makes of a request                                          *)

\* No session holds the row of p, or the step lets it go.
Free(p) == \A s \in Sessions : Holds(s, p) => pc'[s] \notin {"withdraw", "replace"}

Approving(p) ==
    \E a \in Admins \ ({request[p].maker} \cup Approvers(request[p].reviews)) :
        /\ request[p].status = "PENDING"
        /\ request'[p] = IF Quorum(a, p)
                         THEN [Reviewed(a, "approved", p) EXCEPT !.status = "APPLIED"]
                         ELSE Reviewed(a, "approved", p)

Leaving(p) ==
    \E st \in {"CHANGES_REQUESTED", "WITHDRAWN"} :
        request[p].status \in Open /\ request'[p] = [request[p] EXCEPT !.status = st]

Revising(p) ==
    \E pl \in OffersOf(request[p].kind) :
        /\ request[p].status = "CHANGES_REQUESTED"
        /\ request'[p] = [request[p] EXCEPT !.payload = pl]

Resubmitting(p) ==
    /\ request[p].status = "CHANGES_REQUESTED"
    /\ request'[p] = [Reviewed(request[p].maker, "resubmitted", p) EXCEPT !.status = "PENDING"]

Linking(p) ==
    /\ request[p].kind # "config" /\ request[p].status = "APPLIED"
    /\ request'[p] = [request[p] EXCEPT !.linked = TRUE]

Filing(p) ==
    /\ request[p] = None
    /\ \E kind \in Locked : request'[p] \in RequestOf(kind)
    /\ request'[p].status = "PENDING" /\ request'[p].reviews = <<>>

Transition(p) ==
    /\ request[p] # None /\ request[p].kind \in Locked
    /\ \/ Free(p) /\ (Approving(p) \/ Leaving(p) \/ Revising(p) \/ Resubmitting(p))
       \/ Linking(p)

OfBatch(p) ==
    /\ request[p] = None \/ request[p].kind = "batch"
    /\ request'[p] \in CommissionBatch

RowStep(p) == request'[p] = request[p] \/ Filing(p) \/ Transition(p) \/ OfBatch(p)

Others(p) == \A q \in Proposals \ {p} : request'[q] = request[q]

\* The row of a typed request is what its queue says.
LEMMA RowTyped ==
    ASSUME Typed, NEW p \in Proposals, request[p] # None, request[p].kind \in Locked
    PROVE  /\ request[p] \in RequestOf(request[p].kind)
           /\ request[p].maker \in Admins
           /\ request[p].payload \in OffersOf(request[p].kind)
           /\ request[p].reviews \in Seq(ReviewOf(request[p].kind))
BY RowShape DEF Typed, RowsTyped

\* A review by an admin is one the thread may hold.
LEMMA ReviewTyped ==
    ASSUME Typed, NEW p \in Proposals, request[p] # None, request[p].kind \in Locked,
           NEW a \in Admins, NEW action \in {"approved", "resubmitted"}
    PROVE  Review(a, action, p) \in ReviewOf(request[p].kind)
BY RowTyped DEF Review, ReviewOf, OffersOf, Locked, MoneyOperationReview, UserOperationReview,
                ConfigChangeReview

\* A transition writes the row of its request, and no other.
LEMMA OneRow ==
    ASSUME Typed, NEW p \in Proposals, NEW row, request' = [request EXCEPT ![p] = row]
    PROVE  DOMAIN request' = Proposals /\ request'[p] = row /\ Others(p)
BY DEF Typed, Tables, Others

-----------------------------------------------------------------------------
(* The transitions that the queues share                                   *)

LEMMA IsFree ==
    ASSUME NEW p \in Proposals, NEW kind \in Locked, NEW sts, Is(p, kind, sts)
    PROVE  /\ request[p] # None /\ request[p].kind = kind /\ request[p].status \in sts
           /\ Free(p)
BY DEF Is, Unlocked, Free, Holds

LEMMA ProgressRow ==
    ASSUME Typed, NEW a \in Admins, NEW p \in Proposals, NEW kind \in Locked,
           Progress(a, p, kind)
    PROVE  Transition(p) /\ Others(p) /\ DOMAIN request' = Proposals
<1>1. /\ Is(p, kind, {"PENDING"})
      /\ a \in Admins \ ({request[p].maker} \cup Approvers(request[p].reviews))
      /\ ~Quorum(a, p)
      /\ request' = [request EXCEPT ![p] = Reviewed(a, "approved", p)]
  BY DEF Progress, MayApprove
<1>2. request[p] # None /\ request[p].kind = kind /\ request[p].status = "PENDING"
  BY <1>1 DEF Is, Open
<1>3. Free(p)
  BY <1>1, IsFree
<1> QED
  BY <1>1, <1>2, <1>3, OneRow DEF Transition, Approving

LEMMA AppliedRow ==
    ASSUME Typed, NEW a, NEW p \in Proposals, NEW kind \in Locked,
           ReadyToApply(a, p, kind), Free(p), Applied(a, p)
    PROVE  Transition(p) /\ Others(p) /\ DOMAIN request' = Proposals
BY OneRow DEF Transition, Approving, ReadyToApply, Applied

LEMMA DecidesReady ==
    ASSUME NEW a \in Admins, NEW p \in Proposals, NEW kind \in Locked, Decides(a, p, kind)
    PROVE  ReadyToApply(a, p, kind) /\ Free(p)
BY IsFree DEF Decides, MayApprove, ReadyToApply

LEMMA SendBackRow ==
    ASSUME Typed, NEW a \in Admins, NEW p \in Proposals, NEW kind \in Locked,
           SendBack(a, p, kind)
    PROVE  Transition(p) /\ Others(p) /\ DOMAIN request' = Proposals
<1>1. /\ Is(p, kind, {"PENDING"})
      /\ request' = [request EXCEPT ![p] = [request[p] EXCEPT !.status = "CHANGES_REQUESTED"]]
  BY DEF SendBack
<1>2. request[p] # None /\ request[p].kind = kind /\ request[p].status \in Open
  BY <1>1 DEF Is, Open
<1>3. Free(p)
  BY <1>1, IsFree
<1> QED
  BY <1>1, <1>2, <1>3, OneRow DEF Transition, Leaving

LEMMA WithdrawRow ==
    ASSUME Typed, NEW p \in Proposals, NEW kind \in Locked, Withdraw(p, kind)
    PROVE  Transition(p) /\ Others(p) /\ DOMAIN request' = Proposals
<1>1. /\ Is(p, kind, Open)
      /\ request' = [request EXCEPT ![p] = [request[p] EXCEPT !.status = "WITHDRAWN"]]
  BY DEF Withdraw
<1>2. request[p] # None /\ request[p].kind = kind /\ request[p].status \in Open
  BY <1>1 DEF Is, Open
<1>3. Free(p)
  BY <1>1, IsFree
<1> QED
  BY <1>1, <1>2, <1>3, OneRow DEF Transition, Leaving

LEMMA ReviseRow ==
    ASSUME Typed, NEW p \in Proposals, NEW kind \in Locked, NEW pl \in OffersOf(kind),
           Revise(p, kind, pl)
    PROVE  Transition(p) /\ Others(p) /\ DOMAIN request' = Proposals
<1>1. /\ Is(p, kind, {"CHANGES_REQUESTED"})
      /\ request' = [request EXCEPT ![p] = [request[p] EXCEPT !.payload = pl]]
  BY DEF Revise
<1>2. request[p] # None /\ request[p].kind = kind /\ request[p].status = "CHANGES_REQUESTED"
  BY <1>1 DEF Is, Open
<1>3. Free(p)
  BY <1>1, IsFree
<1> QED
  BY <1>1, <1>2, <1>3, OneRow DEF Transition, Revising

LEMMA ResubmitRow ==
    ASSUME Typed, NEW p \in Proposals, NEW kind \in Locked, Resubmit(p, kind)
    PROVE  Transition(p) /\ Others(p) /\ DOMAIN request' = Proposals
<1>1. /\ Is(p, kind, {"CHANGES_REQUESTED"})
      /\ request' = [request EXCEPT ![p] =
             [Reviewed(request[p].maker, "resubmitted", p) EXCEPT !.status = "PENDING"]]
  BY DEF Resubmit
<1>2. request[p] # None /\ request[p].kind = kind /\ request[p].status = "CHANGES_REQUESTED"
  BY <1>1 DEF Is, Open
<1>3. Free(p)
  BY <1>1, IsFree
<1> QED
  BY <1>1, <1>2, <1>3, OneRow DEF Transition, Resubmitting

LEMMA LinkRow ==
    ASSUME Typed, NEW s \in Sessions, NEW kind \in {"money", "user"}, Link(s, kind)
    PROVE  /\ job[s].p \in Proposals
           /\ Transition(job[s].p) /\ Others(job[s].p) /\ DOMAIN request' = Proposals
<1> DEFINE p == job[s].p
<1>1. pc[s] = "link" /\ request[p].kind = kind
      /\ request' = [request EXCEPT ![p] = [request[p] EXCEPT !.linked = TRUE]]
  BY DEF Link
<1>2. p \in Proposals /\ request[p] # None /\ request[p].status = "APPLIED"
  BY <1>1 DEF Typed, JobsTyped, JobTyped, OnRequest
<1> QED
  BY <1>1, <1>2, OneRow DEF Transition, Linking, Locked

LEMMA FileRow ==
    ASSUME Typed, NEW p \in Proposals, NEW kind \in Locked, NEW a \in Admins,
           NEW pl \in OffersOf(kind), NEW target \in TargetOf(kind), NEW n \in {1, 2},
           kind # "money" => n = 1, File(p, Filed(kind, a, pl, target, n))
    PROVE  Filing(p) /\ Others(p) /\ DOMAIN request' = Proposals
<1> DEFINE row == Filed(kind, a, pl, target, n)
<1>1. row \in RequestOf(kind) /\ row.status = "PENDING" /\ row.reviews = <<>>
  BY FiledRow
<1>2. request[p] = None /\ request' = [request EXCEPT ![p] = row]
  BY DEF File
<1> QED
  BY <1>1, <1>2, OneRow DEF Filing

RowsStep == DOMAIN request' = Proposals /\ \A p \in Proposals : RowStep(p)

LEMMA OneStep ==
    ASSUME NEW p \in Proposals, DOMAIN request' = Proposals, Others(p),
           Filing(p) \/ Transition(p) \/ OfBatch(p)
    PROVE  RowsStep
BY DEF Others, RowsStep, RowStep

LEMMA NoRow == ASSUME Typed, request' = request PROVE RowsStep
BY DEF Typed, Tables, RowsStep, RowStep

-----------------------------------------------------------------------------
(* The four queues, step by step                                           *)

LEMMA MoneyRows == ASSUME Typed, HeldReady, MoneyNext PROVE RowsStep
<1>1. ASSUME NEW a \in Admins, NEW p \in Proposals, NEW op, Runs(a, p, op), Applied(a, p)
      PROVE  RowsStep
  <2>1. Decides(a, p, "money")
    BY <1>1 DEF Runs
  <2>2. ReadyToApply(a, p, "money") /\ Free(p)
    BY <2>1, DecidesReady DEF Locked
  <2> QED
    BY <1>1, <2>2, AppliedRow, OneStep DEF Locked
<1>2. ASSUME NEW a \in Admins, NEW p \in Proposals,
             \/ \E s \in Sessions : \/ ApplyFund(s, a, p) \/ ApplyFirstFund(s, a, p)
                                   \/ ApplyAdjustment(s, a, p)
             \/ CreateBankMirror(a, p)
      PROVE  RowsStep
  <2>1. \E op : Runs(a, p, op) /\ Applied(a, p)
    BY <1>2 DEF ApplyFund, ApplyFirstFund, ApplyAdjustment, CreateBankMirror
  <2> QED
    BY <1>1, <2>1
<1>3. ASSUME NEW s \in Sessions, PostWithdrawal(s)
      PROVE  RowsStep
  <2> DEFINE p == job[s].p
  <2>1. /\ pc[s] = "withdraw" /\ pc' = [pc EXCEPT ![s] = "link"]
        /\ Applied(job[s].admin, p)
    BY <1>3 DEF PostWithdrawal, Goto
  <2>2. p \in Proposals
    BY <2>1 DEF Typed, JobsTyped, JobTyped, OnRequest
  <2>3. ReadyToApply(job[s].admin, p, "money")
    BY <2>1 DEF HeldReady
  <2>4. Free(p)
    BY <2>1, <2>2 DEF Free, HeldReady, Holds, Typed, Tables
  <2> QED
    BY <2>1, <2>2, <2>3, <2>4, AppliedRow, OneStep DEF Locked
<1>4. ASSUME NEW a \in Admins, NEW p \in Proposals, ProposeMoney(a, p)
      PROVE  RowsStep
  <2>1. PICK pl \in MoneyOffers : File(p, Filed("money", a, pl, None, Required(pl.op)))
    BY <1>4 DEF ProposeMoney
  <2>2. /\ "money" \in Locked /\ pl \in OffersOf("money") /\ None \in TargetOf("money")
        /\ Required(pl.op) \in {1, 2}
    BY RequiredType DEF Locked, OffersOf, TargetOf
  <2>3. Filing(p) /\ Others(p) /\ DOMAIN request' = Proposals
    BY <2>1, <2>2, FileRow
  <2> QED
    BY <2>3, OneStep
<1>5. ASSUME NEW a \in Admins, NEW p \in Proposals,
             \/ ApproveMoney(a, p) \/ RequestMoneyChanges(a, p)
      PROVE  RowsStep
  BY <1>5, ProgressRow, SendBackRow, OneStep DEF ApproveMoney, RequestMoneyChanges, Locked
<1>6. ASSUME NEW p \in Proposals, ReviseMoney(p)
      PROVE  RowsStep
  BY <1>6, ReviseRow, OneStep DEF ReviseMoney, Locked, OffersOf
<1>7. ASSUME NEW p \in Proposals, ResubmitMoney(p) \/ WithdrawMoney(p)
      PROVE  RowsStep
  BY <1>7, ResubmitRow, WithdrawRow, OneStep DEF ResubmitMoney, WithdrawMoney, Locked
<1>8. ASSUME NEW s \in Sessions, LinkMoney(s)
      PROVE  RowsStep
  BY <1>8, LinkRow, OneStep DEF LinkMoney
<1>9. ASSUME NEW s \in Sessions, PostFirstFund(s) \/ RefuseFirstFund(s) \/ RefuseWithdrawal(s)
      PROVE  RowsStep
  BY <1>9, NoRow DEF PostFirstFund, RefuseFirstFund, RefuseWithdrawal
<1>10. ASSUME NEW s \in Sessions, NEW a \in Admins, NEW p \in Proposals, ReadWithdrawal(s, a, p)
       PROVE  RowsStep
  BY <1>10, NoRow DEF ReadWithdrawal
<1>11. CASE RenameBankMirror
  BY <1>11, NoRow DEF RenameBankMirror, threads
<1> QED
  BY <1>2, <1>3, <1>4, <1>5, <1>6, <1>7, <1>8, <1>9, <1>10, <1>11 DEF MoneyNext

LEMMA UserRows == ASSUME Typed, UserNext PROVE RowsStep
<1>1. ASSUME NEW s \in Sessions, NEW a \in Admins, NEW p \in Proposals,
             ApplyCreate(s, a, p) \/ ApplyUpdate(s, a, p)
      PROVE  RowsStep
  <2>1. Decides(a, p, "user") /\ Applied(a, p)
    BY <1>1 DEF ApplyCreate, ApplyUpdate
  <2>2. ReadyToApply(a, p, "user") /\ Free(p)
    BY <2>1, DecidesReady DEF Locked
  <2> QED
    BY <2>1, <2>2, AppliedRow, OneStep DEF Locked
<1>2. ASSUME NEW s \in Sessions, NEW p \in Proposals, ProposeUser(s, p)
      PROVE  RowsStep
  <2>1. /\ pc[s] = "user"
        /\ File(p, Filed("user", job[s].admin, job[s].payload, None, 1))
    BY <1>2 DEF ProposeUser
  <2>2. /\ "user" \in Locked /\ job[s].admin \in Admins /\ job[s].payload \in OffersOf("user")
        /\ None \in TargetOf("user")
    BY <2>1 DEF Typed, JobsTyped, JobTyped, Locked, OffersOf, TargetOf
  <2>3. Filing(p) /\ Others(p) /\ DOMAIN request' = Proposals
    BY <2>1, <2>2, FileRow
  <2> QED
    BY <2>3, OneStep
<1>3. ASSUME NEW a \in Admins, NEW p \in Proposals, RequestUserChanges(a, p)
      PROVE  RowsStep
  BY <1>3, SendBackRow, OneStep DEF RequestUserChanges, Locked
<1>4. ASSUME NEW p \in Proposals, ReviseUser(p)
      PROVE  RowsStep
  BY <1>4, ReviseRow, OneStep DEF ReviseUser, Locked, OffersOf
<1>5. ASSUME NEW p \in Proposals, ResubmitUser(p) \/ WithdrawUser(p)
      PROVE  RowsStep
  BY <1>5, ResubmitRow, WithdrawRow, OneStep DEF ResubmitUser, WithdrawUser, Locked
<1>6. ASSUME NEW s \in Sessions, LinkUser(s)
      PROVE  RowsStep
  BY <1>6, LinkRow, OneStep DEF LinkUser
<1>7. ASSUME NEW s \in Sessions,
             \/ \E a \in Admins : CheckUser(s, a)
             \/ \E k \in PartnerKeys, i \in ApiKeys : ReceivePartner(s, k, i)
             \/ CreatePartnerUser(s) \/ RefusePartner(s) \/ RecordKey(s)
      PROVE  RowsStep
  BY <1>7, NoRow DEF CheckUser, ReceivePartner, CreatePartnerUser, RefusePartner, RecordKey
<1>8. ASSUME \/ \E i \in ApiKeys : CreateApiKey(i) \/ RevokeApiKey(i)
             \/ CreateDirectly
             \/ \E u \in users : \E i : AddIdentifier(u, i) \/ VerifyIdentifier(u, i)
      PROVE  RowsStep
  BY <1>8, NoRow
     DEF CreateApiKey, RevokeApiKey, CreateDirectly, AddIdentifier, VerifyIdentifier, threads
<1> QED
  BY <1>1, <1>2, <1>3, <1>4, <1>5, <1>6, <1>7, <1>8 DEF UserNext

LEMMA ConfigRowsStep == ASSUME Typed, HeldReady, ConfigNext PROVE RowsStep
<1>1. ASSUME NEW s \in Sessions, NEW a \in Admins, NEW p \in Proposals, ApplyFirstBand(s, a, p)
      PROVE  RowsStep
  <2>1. Decides(a, p, "config") /\ Applied(a, p)
    BY <1>1 DEF ApplyFirstBand
  <2>2. ReadyToApply(a, p, "config") /\ Free(p)
    BY <2>1, DecidesReady DEF Locked
  <2> QED
    BY <2>1, <2>2, AppliedRow, OneStep DEF Locked
<1>2. ASSUME NEW s \in Sessions, ReplaceScope(s)
      PROVE  RowsStep
  <2> DEFINE p == job[s].p
  <2>1. /\ pc[s] = "replace" /\ pc' = [pc EXCEPT ![s] = "idle"]
        /\ Applied(job[s].admin, p)
    BY <1>2 DEF ReplaceScope, End, Goto
  <2>2. p \in Proposals
    BY <2>1 DEF Typed, JobsTyped, JobTyped, OnRequest
  <2>3. ReadyToApply(job[s].admin, p, "config")
    BY <2>1 DEF HeldReady
  <2>4. Free(p)
    BY <2>1, <2>2 DEF Free, HeldReady, Holds, Typed, Tables
  <2> QED
    BY <2>1, <2>2, <2>3, <2>4, AppliedRow, OneStep DEF Locked
<1>3. ASSUME NEW s \in Sessions, NEW p \in Proposals, ProposeConfig(s, p)
      PROVE  RowsStep
  <2>1. /\ pc[s] = "config"
        /\ File(p, Filed("config", job[s].admin, job[s].payload, job[s].target, 1))
    BY <1>3 DEF ProposeConfig
  <2>2. /\ "config" \in Locked /\ job[s].admin \in Admins
        /\ job[s].payload \in OffersOf("config") /\ job[s].target \in TargetOf("config")
    BY <2>1 DEF Typed, JobsTyped, JobTyped, Locked, OffersOf
  <2>3. Filing(p) /\ Others(p) /\ DOMAIN request' = Proposals
    BY <2>1, <2>2, FileRow
  <2> QED
    BY <2>3, OneStep
<1>4. ASSUME NEW a \in Admins, NEW p \in Proposals, RequestConfigChanges(a, p)
      PROVE  RowsStep
  BY <1>4, SendBackRow, OneStep DEF RequestConfigChanges, Locked
<1>5. ASSUME NEW p \in Proposals, ReviseConfig(p)
      PROVE  RowsStep
  BY <1>5, ReviseRow, OneStep DEF ReviseConfig, Locked, OffersOf
<1>6. ASSUME NEW p \in Proposals, ResubmitConfig(p) \/ WithdrawConfig(p)
      PROVE  RowsStep
  BY <1>6, ResubmitRow, WithdrawRow, OneStep DEF ResubmitConfig, WithdrawConfig, Locked
<1>7. ASSUME request' = request PROVE RowsStep
  BY <1>7, NoRow
<1> QED
  BY <1>1, <1>2, <1>3, <1>4, <1>5, <1>6, <1>7
     DEF ConfigNext, CheckConfig, ReadScope, ApplyNextBand, BandCollides

\* A batch with one more review, or another status, is a batch.
LEMMA BatchEdits ==
    ASSUME NEW row \in CommissionBatch
    PROVE  /\ row # None /\ row.kind = "batch" /\ row.maker \in Admins
           /\ row.payload \in BatchOffers /\ row.required \in {1, 2}
           /\ row.reviews \in Seq(CommissionBatchReview) /\ row.rows \in Seq(CommissionBatchRow)
           /\ \A v \in CommissionBatchReview :
                 [row EXCEPT !.reviews = Append(@, v)] \in CommissionBatch
           /\ \A st \in {"APPLIED", "APPLIED_PARTIAL", "REJECTED"} :
                 [row EXCEPT !.status = st] \in CommissionBatch
           /\ \A rows \in Seq(CommissionBatchRow) :
                 [row EXCEPT !.rows = rows] \in CommissionBatch
<1> USE DEF CommissionBatch
<1>1. /\ row # None /\ row.kind = "batch" /\ row.maker \in Admins
      /\ row.payload \in BatchOffers /\ row.required \in {1, 2}
      /\ row.reviews \in Seq(CommissionBatchReview) /\ row.rows \in Seq(CommissionBatchRow)
  BY ApprovalsAssumption
<1>2. ASSUME NEW v \in CommissionBatchReview
      PROVE  [row EXCEPT !.reviews = Append(@, v)] \in CommissionBatch
  <2>1. Append(row.reviews, v) \in Seq(CommissionBatchReview)
    BY <1>1
  <2> QED BY <2>1
<1>3. \A st \in {"APPLIED", "APPLIED_PARTIAL", "REJECTED"} :
          [row EXCEPT !.status = st] \in CommissionBatch
  OBVIOUS
<1>4. \A rows \in Seq(CommissionBatchRow) : [row EXCEPT !.rows = rows] \in CommissionBatch
  OBVIOUS
<1> QED
  BY <1>1, <1>2, <1>3, <1>4

\* A session at work on a batch, and its batch.
LEMMA BatchSession ==
    ASSUME Typed, NEW s \in Sessions, BatchAt(s)
    PROVE  /\ job[s].p \in Proposals /\ job[s].admin \in Admins
           /\ request[job[s].p] \in CommissionBatch
           /\ pc[s] # "reject" => job[s] \in BatchJob
<1> DEFINE p == job[s].p
<1>1. /\ p \in Proposals /\ request[p] # None
      /\ request[p].kind = "batch"
      /\ pc[s] # "reject" => job[s] \in BatchJob
      /\ pc[s] = "reject" => job[s].admin \in Admins
  BY DEF BatchAt, Typed, JobsTyped, JobTyped, OnRequest, OnBatch
<1>2. request[p] \in CommissionBatch
  BY <1>1 DEF Typed, RowsTyped, RequestOf
<1> QED
  BY <1>1, <1>2 DEF BatchJob

LEMMA BatchReview ==
    ASSUME Typed, NEW s \in Sessions, BatchAt(s), NEW action \in {"approved", "rejected"}
    PROVE  /\ Review(job[s].admin, action, job[s].p) \in CommissionBatchReview
           /\ Reviewed(job[s].admin, action, job[s].p) \in CommissionBatch
<1> DEFINE p == job[s].p
<1>1. p \in Proposals /\ job[s].admin \in Admins /\ request[p] \in CommissionBatch
  BY BatchSession
<1>2. Review(job[s].admin, action, p) \in CommissionBatchReview
  BY <1>1, BatchEdits DEF Review, CommissionBatchReview
<1> QED
  BY <1>1, <1>2, BatchEdits DEF Reviewed

LEMMA CommittedRow ==
    ASSUME Typed, NEW s \in Sessions, pc[s] \in OnBatch, NEW staged \in Marks
    PROVE  Committed(s, staged) \in CommissionBatch
<1> DEFINE row == IF job[s].fresh THEN Reviewed(job[s].admin, "approved", job[s].p)
                  ELSE request[job[s].p]
           rows == [i \in DOMAIN row.rows |-> IF i \in DOMAIN staged THEN staged[i]
                                              ELSE row.rows[i]]
<1>1. row \in CommissionBatch
  BY BatchSession, BatchReview DEF BatchAt, OnBatch
<1>2. row.rows \in Seq(CommissionBatchRow)
  BY <1>1, BatchEdits
<1>3. rows \in Seq(CommissionBatchRow)
  <2>1. /\ Len(row.rows) \in Nat /\ DOMAIN row.rows = 1..Len(row.rows)
        /\ \A i \in 1..Len(row.rows) : row.rows[i] \in CommissionBatchRow
    BY <1>2
  <2>2. \A i \in DOMAIN staged : staged[i] \in CommissionBatchRow
    BY DEF Marks, CommissionBatchRow
  <2>3. rows \in [1..Len(row.rows) -> CommissionBatchRow]
    BY <2>1, <2>2
  <2> QED BY <2>1, <2>3
<1>4. [row EXCEPT !.rows = rows] \in CommissionBatch
  BY <1>1, <1>3, BatchEdits
<1>5. Committed(s, staged) = [row EXCEPT !.rows = rows]
  BY DEF Committed
<1> QED
  BY <1>4, <1>5

\* The verdicts of an upload.
LEMMA UploadedRow ==
    ASSUME NEW a \in Admins, NEW b \in BatchOffers, NEW op
    PROVE  [Filed("batch", a, b, None, Required(op)) EXCEPT !.rows = ValidateRows(b.rows)]
               \in CommissionBatch
<1>1. Len(b.rows) \in Nat /\ DOMAIN b.rows = 1..Len(b.rows)
  BY BatchAssumption
<1>2. ValidateRows(b.rows) \in Seq(CommissionBatchRow)
  <2>1. ValidateRows(b.rows) \in [1..Len(b.rows) -> CommissionBatchRow]
    BY <1>1 DEF ValidateRows, CommissionBatchRow
  <2> QED BY <1>1, <2>1
<1>3. Required(op) \in {1, 2}
  BY RequiredType
<1>4. <<>> \in Seq(CommissionBatchReview)
  OBVIOUS
<1> QED
  BY <1>2, <1>3, <1>4 DEF Filed, CommissionBatch

LEMMA BatchRows == ASSUME Typed, BatchNext PROVE RowsStep
<1>1. ASSUME NEW a \in Admins, NEW p \in Proposals, UploadBatch(a, p)
      PROVE  RowsStep
  <2>1. PICK b \in BatchOffers :
            File(p, [Filed("batch", a, b, None, Required(Operation[b.op]))
                         EXCEPT !.rows = ValidateRows(b.rows)])
    BY <1>1 DEF UploadBatch
  <2> DEFINE row == [Filed("batch", a, b, None, Required(Operation[b.op]))
                         EXCEPT !.rows = ValidateRows(b.rows)]
  <2>2. row \in CommissionBatch
    BY UploadedRow
  <2>3. request[p] = None /\ request' = [request EXCEPT ![p] = row]
    BY <2>1 DEF File
  <2> QED
    BY <2>2, <2>3, OneRow, OneStep DEF OfBatch
<1>2. ASSUME NEW s \in Sessions, BatchAt(s), NEW row \in CommissionBatch,
             request' = [request EXCEPT ![job[s].p] = row]
      PROVE  RowsStep
  <2>1. job[s].p \in Proposals /\ request[job[s].p].kind = "batch"
    BY <1>2, BatchSession, BatchEdits
  <2> QED
    BY <1>2, <2>1, OneRow, OneStep DEF OfBatch
<1>3. ASSUME NEW s \in Sessions, RejectBatch(s)
      PROVE  RowsStep
  <2> DEFINE row == Reviewed(job[s].admin, "rejected", job[s].p)
  <2>1. BatchAt(s) /\ request' = [request EXCEPT ![job[s].p] = [row EXCEPT !.status = "REJECTED"]]
    BY <1>3 DEF RejectBatch, BatchAt
  <2>2. row \in CommissionBatch
    BY <2>1, BatchReview
  <2>3. [row EXCEPT !.status = "REJECTED"] \in CommissionBatch
    BY <2>2, BatchEdits
  <2> QED
    BY <1>2, <2>1, <2>3
<1>4. ASSUME NEW s \in Sessions, RecordApproval(s) \/ PayRow(s)
      PROVE  RowsStep
  <2>1. /\ pc[s] \in OnBatch
        /\ request' = [request EXCEPT ![job[s].p] = Committed(s, job[s].staged)]
    BY <1>4 DEF RecordApproval, PayRow, OnBatch
  <2>2. BatchAt(s) /\ job[s].staged \in Marks
    BY <2>1, BatchSession DEF BatchAt, OnBatch, BatchJob
  <2>3. Committed(s, job[s].staged) \in CommissionBatch
    BY <2>1, <2>2, CommittedRow
  <2> QED
    BY <1>2, <2>1, <2>2, <2>3
<1>5. ASSUME NEW s \in Sessions, FinishBatch(s)
      PROVE  RowsStep
  <2> DEFINE st == IF "failed" \in Range(job[s].staged) THEN "APPLIED_PARTIAL" ELSE "APPLIED"
             row == Committed(s, job[s].staged)
  <2>1. /\ pc[s] \in OnBatch
        /\ request' = [request EXCEPT ![job[s].p] = [row EXCEPT !.status = st]]
    BY <1>5 DEF FinishBatch, OnBatch
  <2>2. BatchAt(s) /\ job[s].staged \in Marks
    BY <2>1, BatchSession DEF BatchAt, OnBatch, BatchJob
  <2>3. row \in CommissionBatch
    BY <2>1, <2>2, CommittedRow
  <2>4. [row EXCEPT !.status = st] \in CommissionBatch
    BY <2>3, BatchEdits
  <2> QED
    BY <1>2, <2>1, <2>2, <2>4
<1>6. ASSUME NEW s \in Sessions,
             \/ \E a \in Admins, p \in Proposals : OpenBatch(s, a, p) \/ OpenRejection(s, a, p)
             \/ SecondReview(s) \/ ReadRows(s) \/ LookUpRow(s) \/ PayRowConflict(s) \/ FailRow(s)
      PROVE  RowsStep
  BY <1>6, NoRow DEF OpenBatch, OpenRejection, SecondReview, ReadRows, LookUpRow,
                     PayRowConflict, FailRow
<1> QED
  BY <1>1, <1>3, <1>4, <1>5, <1>6 DEF BatchNext

\* Every step makes of each request what its queue allows.
LEMMA NextRows == ASSUME Typed, HeldReady, [Next]_vars PROVE RowsStep
<1>1. ASSUME NEW s \in Sessions, Cut(s) PROVE RowsStep
  BY <1>1, NoRow DEF Cut
<1>2. CASE UNCHANGED vars
  BY <1>2, NoRow DEF vars, threads
<1> QED
  BY <1>1, <1>2, MoneyRows, UserRows, ConfigRowsStep, BatchRows DEF Next

-----------------------------------------------------------------------------
(* Rows stay rows                                                          *)

\* What a transition does to a row.
LEMMA TransitionTyped ==
    ASSUME Typed, NEW p \in Proposals, Transition(p)
    PROVE  /\ request'[p] \in RequestOf(request[p].kind)
           /\ request'[p].maker = request[p].maker
           /\ request'[p].target = request[p].target
           /\ request'[p].required = request[p].required
           /\ ~Revising(p) => request'[p].payload = request[p].payload
           /\ request[p].status = "APPLIED" => Linking(p) /\ request'[p].status = "APPLIED"
<1> DEFINE row == request[p]
           kind == request[p].kind
<1>1. /\ kind \in Locked /\ row \in RequestOf(kind) /\ row.maker \in Admins
      /\ DOMAIN row = {"kind", "maker", "payload", "target", "status", "required",
                       "reviews", "linked", "rows"}
      /\ "APPLIED" \notin Open
  BY RowTyped, RowShape DEF Transition, Open
<1>2. CASE Approving(p)
  <2>1. PICK a \in Admins :
            /\ row.status = "PENDING"
            /\ request'[p] = IF Quorum(a, p)
                             THEN [Reviewed(a, "approved", p) EXCEPT !.status = "APPLIED"]
                             ELSE Reviewed(a, "approved", p)
    BY <1>2 DEF Approving
  <2>2. Review(a, "approved", p) \in ReviewOf(kind)
    BY ReviewTyped DEF Transition
  <2> DEFINE new == Reviewed(a, "approved", p)
  <2>3. new \in RequestOf(kind)
    BY <1>1, <2>2, RowEdits DEF Reviewed
  <2>4. [new EXCEPT !.status = "APPLIED"] \in RequestOf(kind)
    BY <1>1, <2>3, RowEdits
  <2> QED
    BY <1>1, <2>1, <2>3, <2>4 DEF Reviewed
<1>3. CASE Leaving(p)
  <2>1. PICK st \in {"CHANGES_REQUESTED", "WITHDRAWN"} :
            row.status \in Open /\ request'[p] = [row EXCEPT !.status = st]
    BY <1>3 DEF Leaving
  <2>2. [row EXCEPT !.status = st] \in RequestOf(kind)
    BY <1>1, RowEdits DEF Open
  <2> QED
    BY <1>1, <2>1, <2>2
<1>4. CASE Revising(p)
  <2>1. PICK pl \in OffersOf(kind) :
            /\ row.status = "CHANGES_REQUESTED"
            /\ request'[p] = [row EXCEPT !.payload = pl]
    BY <1>4 DEF Revising
  <2>2. [row EXCEPT !.payload = pl] \in RequestOf(kind)
    BY <1>1, RowEdits
  <2> QED
    BY <1>1, <1>4, <2>1, <2>2
<1>5. CASE Resubmitting(p)
  <2> DEFINE new == Reviewed(row.maker, "resubmitted", p)
  <2>1. Review(row.maker, "resubmitted", p) \in ReviewOf(kind)
    BY <1>1, ReviewTyped DEF Transition
  <2>2. new \in RequestOf(kind)
    BY <1>1, <2>1, RowEdits DEF Reviewed
  <2>3. [new EXCEPT !.status = "PENDING"] \in RequestOf(kind)
    BY <1>1, <2>2, RowEdits DEF Open
  <2> QED
    BY <1>1, <1>5, <2>3 DEF Resubmitting, Reviewed
<1>6. CASE Linking(p)
  BY <1>1, <1>6, RowEdits DEF Linking
<1> QED
  BY <1>2, <1>3, <1>4, <1>5, <1>6 DEF Transition

\* A request stays in its queue, and applied once it is.
LEMMA RequestKept ==
    ASSUME Typed, NEW p \in Proposals, RowStep(p), request[p] # None
    PROVE  /\ request'[p] # None /\ request'[p].kind = request[p].kind
           /\ request[p].kind \in Locked /\ request[p].status = "APPLIED" =>
                 /\ request'[p].status = "APPLIED"
                 /\ request'[p].payload = request[p].payload
<1>1. CASE Transition(p)
  <2>1. request[p].kind \in Locked
    BY <1>1 DEF Transition
  <2>2. request'[p] # None /\ request'[p].kind = request[p].kind
    BY <1>1, <2>1, TransitionTyped, RowShape
  <2>3. request[p].status = "APPLIED" => ~Revising(p)
    BY DEF Revising
  <2> QED
    BY <1>1, <2>2, <2>3, TransitionTyped
<1>2. CASE OfBatch(p)
  BY <1>2, BatchEdits DEF OfBatch, Locked
<1> QED
  BY <1>1, <1>2 DEF RowStep, Filing

LEMMA RowsStayTyped == ASSUME Typed, RowsStep PROVE RowsTyped'
<1> SUFFICES ASSUME NEW p \in Proposals, request'[p] # None
             PROVE  request'[p].kind \in Kinds /\ request'[p] \in RequestOf(request'[p].kind)
  BY DEF RowsTyped
<1>1. RowStep(p)
  BY DEF RowsStep
<1>2. CASE request'[p] = request[p]
  BY <1>2 DEF Typed, RowsTyped
<1>3. CASE Filing(p)
  BY <1>3, RowShape DEF Filing, Kinds
<1>4. CASE Transition(p)
  <2>1. request[p].kind \in Locked
    BY <1>4 DEF Transition
  <2> QED
    BY <1>4, <2>1, TransitionTyped, RowShape DEF Kinds
<1>5. CASE OfBatch(p)
  <2>1. request'[p].kind = "batch"
    BY <1>5, BatchEdits DEF OfBatch
  <2> QED
    BY <1>5, <2>1 DEF OfBatch, RequestOf, Kinds
<1> QED
  BY <1>1, <1>2, <1>3, <1>4, <1>5 DEF RowStep

-----------------------------------------------------------------------------
(* Sessions keep their locals                                              *)

\* A session that does not move still knows what it knew.
LEMMA JobKept ==
    ASSUME Typed, RowsStep, NEW s \in Sessions, pc'[s] = pc[s], job'[s] = job[s]
    PROVE  JobTyped(s)'
<1>1. JobTyped(s)
  BY DEF Typed, JobsTyped
<1>2. CASE pc[s] \in OnRequest
  <2> DEFINE p == job[s].p
  <2>1. p \in Proposals /\ request[p] # None /\ RowStep(p)
    BY <1>1, <1>2 DEF JobTyped, RowsStep
  <2>2. /\ request'[p] # None /\ request'[p].kind = request[p].kind
        /\ request[p].kind \in Locked /\ request[p].status = "APPLIED" =>
              request'[p].status = "APPLIED" /\ request'[p].payload = request[p].payload
    BY <2>1, RequestKept
  <2> QED
    BY <1>1, <1>2, <2>1, <2>2 DEF JobTyped, Locked, OnRequest
<1>3. CASE pc[s] \notin OnRequest
  BY <1>1, <1>3 DEF JobTyped, OnRequest, OnBatch
<1> QED
  BY <1>2, <1>3

\* One session moves.
LEMMA JobMoved ==
    ASSUME Typed, RowsStep, NEW s \in Sessions, NEW label, NEW work,
           pc' = [pc EXCEPT ![s] = label], job' = [job EXCEPT ![s] = work],
           pc'[s] = label /\ job'[s] = work => JobTyped(s)'
    PROVE  JobsTyped' /\ DOMAIN pc' = Sessions /\ DOMAIN job' = Sessions
<1>1. /\ DOMAIN pc' = Sessions /\ DOMAIN job' = Sessions /\ pc'[s] = label /\ job'[s] = work
      /\ \A t \in Sessions \ {s} : pc'[t] = pc[t] /\ job'[t] = job[t]
  BY DEF Typed, Tables
<1>2. \A t \in Sessions \ {s} : JobTyped(t)'
  BY <1>1, JobKept
<1> QED
  BY <1>1, <1>2 DEF JobsTyped

\* One session moves and keeps its locals.
LEMMA JobAdvances ==
    ASSUME Typed, RowsStep, NEW s \in Sessions, NEW label,
           pc' = [pc EXCEPT ![s] = label], job' = job, pc'[s] = label => JobTyped(s)'
    PROVE  JobsTyped' /\ DOMAIN pc' = Sessions /\ DOMAIN job' = Sessions
<1>1. /\ DOMAIN pc' = Sessions /\ DOMAIN job' = Sessions /\ pc'[s] = label
      /\ \A t \in Sessions \ {s} : pc'[t] = pc[t] /\ job'[t] = job[t]
  BY DEF Typed, Tables
<1>2. \A t \in Sessions \ {s} : JobTyped(t)'
  BY <1>1, JobKept
<1> QED
  BY <1>1, <1>2 DEF JobsTyped

SessionsTyped == JobsTyped /\ DOMAIN pc = Sessions /\ DOMAIN job = Sessions

\* One session edits its locals.
LEMMA JobEdited ==
    ASSUME Typed, RowsStep, NEW s \in Sessions, NEW work,
           pc' = pc, job' = [job EXCEPT ![s] = work],
           pc'[s] = pc[s] /\ job'[s] = work => JobTyped(s)'
    PROVE  SessionsTyped'
<1>1. /\ DOMAIN pc' = Sessions /\ DOMAIN job' = Sessions /\ job'[s] = work
      /\ \A t \in Sessions \ {s} : pc'[t] = pc[t] /\ job'[t] = job[t]
  BY DEF Typed, Tables
<1>2. \A t \in Sessions \ {s} : JobTyped(t)'
  BY <1>1, JobKept
<1> QED
  BY <1>1, <1>2 DEF JobsTyped, SessionsTyped

LEMMA JobEnds == ASSUME Typed, RowsStep, NEW s \in Sessions, End(s) PROVE SessionsTyped'
<1>1. pc'[s] = "idle" => JobTyped(s)'
  BY DEF JobTyped, OnRequest, OnBatch
<1> QED
  BY <1>1, JobMoved DEF End, Goto, SessionsTyped

LEMMA NoJob == ASSUME Typed, RowsStep, pc' = pc, job' = job PROVE SessionsTyped'
BY JobKept DEF Typed, Tables, JobsTyped, SessionsTyped

\* A request that has just been applied.
LEMMA AppliedNow ==
    ASSUME Typed, NEW a, NEW p \in Proposals, NEW kind \in Locked, ReadyToApply(a, p, kind),
           Applied(a, p)
    PROVE  /\ request'[p] # None /\ request'[p].kind = kind /\ request'[p].status = "APPLIED"
           /\ request'[p].payload = request[p].payload
<1> DEFINE new == Reviewed(a, "approved", p)
<1>1. request[p] # None /\ request[p].kind = kind /\ a \in Admins
  BY DEF ReadyToApply
<1>2. request'[p] = [new EXCEPT !.status = "APPLIED"]
  BY OneRow DEF Applied
<1>3. request[p] \in RequestOf(kind)
  BY <1>1, RowTyped
<1>4. new \in RequestOf(kind) /\ new.payload = request[p].payload
  <2>1. Review(a, "approved", p) \in ReviewOf(kind)
    BY <1>1, ReviewTyped
  <2>2. new \in RequestOf(kind)
    BY <1>3, <2>1, RowEdits DEF Reviewed
  <2> QED
    BY <1>3, <2>2, RowShape DEF Reviewed
<1>5. request'[p] \in RequestOf(kind)
  <2>1. "APPLIED" \in Open \cup {"APPLIED", "WITHDRAWN"}
    OBVIOUS
  <2>2. [new EXCEPT !.status = "APPLIED"] \in RequestOf(kind)
    BY <1>4, <2>1, RowEdits
  <2> QED
    BY <1>2, <2>2
<1> QED
  BY <1>2, <1>4, <1>5, RowShape

\* The work of a session that has applied a request.
LEMMA LinkStarts ==
    ASSUME Typed, RowsStep, NEW s \in Sessions, NEW p \in Proposals, NEW a,
           NEW kind \in {"money", "user"}, ReadyToApply(a, p, kind), Applied(a, p),
           NEW label \in {"link", "post"}, Start(s, label, [p |-> p])
    PROVE  SessionsTyped'
<1>1. /\ request'[p] # None /\ request'[p].kind = kind /\ request'[p].status = "APPLIED"
  BY AppliedNow DEF Locked
<1>2. pc'[s] = label /\ job'[s] = [p |-> p] => JobTyped(s)'
  BY <1>1 DEF JobTyped, OnRequest, OnBatch
<1> QED
  BY <1>2, JobMoved DEF Start, Goto, SessionsTyped

LEMMA MoneyJobs == ASSUME Typed, HeldReady, RowsStep, MoneyNext PROVE SessionsTyped'
<1>1. ASSUME NEW s \in Sessions, NEW a \in Admins, NEW p \in Proposals,
             ApplyFund(s, a, p) \/ ApplyFirstFund(s, a, p) \/ ApplyAdjustment(s, a, p)
      PROVE  SessionsTyped'
  <2>1. /\ Decides(a, p, "money") /\ Applied(a, p)
        /\ \E label \in {"link", "post"} : Start(s, label, [p |-> p])
    BY <1>1 DEF ApplyFund, ApplyFirstFund, ApplyAdjustment, Runs
  <2>2. ReadyToApply(a, p, "money")
    BY <2>1, DecidesReady DEF Locked
  <2> QED
    BY <2>1, <2>2, LinkStarts
<1>2. ASSUME NEW s \in Sessions, NEW a \in Admins, NEW p \in Proposals, ReadWithdrawal(s, a, p)
      PROVE  SessionsTyped'
  <2>1. PICK n : Start(s, "withdraw", [p |-> p, admin |-> a, amount |-> n])
    BY <1>2 DEF ReadWithdrawal
  <2>2. Decides(a, p, "money") /\ request' = request
    BY <1>2 DEF ReadWithdrawal, Runs
  <2>3. request'[p] # None
    BY <2>2, DecidesReady DEF ReadyToApply, Locked
  <2>4. pc'[s] = "withdraw" /\ job'[s] = [p |-> p, admin |-> a, amount |-> n] => JobTyped(s)'
    BY <2>3 DEF JobTyped, OnRequest, OnBatch
  <2> QED
    BY <2>1, <2>4, JobMoved DEF Start, Goto, SessionsTyped
<1>3. ASSUME NEW s \in Sessions, RefuseFirstFund(s) \/ RefuseWithdrawal(s) \/ LinkMoney(s)
      PROVE  SessionsTyped'
  BY <1>3, JobEnds DEF RefuseFirstFund, RefuseWithdrawal, LinkMoney, Link
<1>4. ASSUME NEW s \in Sessions, PostFirstFund(s)
      PROVE  SessionsTyped'
  <2>1. pc[s] = "post" /\ request' = request /\ pc' = [pc EXCEPT ![s] = "link"] /\ job' = job
    BY <1>4 DEF PostFirstFund, Goto
  <2>2. JobTyped(s)
    BY DEF Typed, JobsTyped
  <2>3. pc'[s] = "link" => JobTyped(s)'
    BY <2>1, <2>2 DEF JobTyped, OnRequest, OnBatch
  <2> QED
    BY <2>1, <2>3, JobAdvances DEF SessionsTyped
<1>5. ASSUME NEW s \in Sessions, PostWithdrawal(s)
      PROVE  SessionsTyped'
  <2> DEFINE p == job[s].p
  <2>1. /\ pc[s] = "withdraw" /\ Applied(job[s].admin, p)
        /\ pc' = [pc EXCEPT ![s] = "link"] /\ job' = job
    BY <1>5 DEF PostWithdrawal, Goto
  <2>2. p \in Proposals /\ ReadyToApply(job[s].admin, p, "money")
    BY <2>1 DEF Typed, JobsTyped, JobTyped, OnRequest, HeldReady
  <2>3. request'[p] # None /\ request'[p].kind = "money" /\ request'[p].status = "APPLIED"
    BY <2>1, <2>2, AppliedNow DEF Locked
  <2>4. pc'[s] = "link" => JobTyped(s)'
    BY <2>1, <2>2, <2>3 DEF JobTyped, OnRequest, OnBatch
  <2> QED
    BY <2>1, <2>4, JobAdvances DEF SessionsTyped
<1>6. ASSUME NEW p \in Proposals,
             \/ \E a \in Admins : \/ ProposeMoney(a, p) \/ ApproveMoney(a, p)
                                  \/ CreateBankMirror(a, p) \/ RequestMoneyChanges(a, p)
             \/ ReviseMoney(p) \/ ResubmitMoney(p) \/ WithdrawMoney(p)
      PROVE  SessionsTyped'
  BY <1>6, NoJob
     DEF ProposeMoney, ApproveMoney, Progress, CreateBankMirror, RequestMoneyChanges, SendBack,
         ReviseMoney, Revise, ResubmitMoney, Resubmit, WithdrawMoney, Withdraw
<1>7. CASE RenameBankMirror
  BY <1>7, NoJob DEF RenameBankMirror, threads
<1> QED
  BY <1>1, <1>2, <1>3, <1>4, <1>5, <1>6, <1>7 DEF MoneyNext

LEMMA UserJobs == ASSUME Typed, RowsStep, UserNext PROVE SessionsTyped'
<1>1. ASSUME NEW s \in Sessions, NEW a \in Admins, NEW p \in Proposals,
             ApplyCreate(s, a, p) \/ ApplyUpdate(s, a, p)
      PROVE  SessionsTyped'
  <2>1. Decides(a, p, "user") /\ Applied(a, p) /\ Start(s, "link", [p |-> p])
    BY <1>1 DEF ApplyCreate, ApplyUpdate
  <2>2. ReadyToApply(a, p, "user")
    BY <2>1, DecidesReady DEF Locked
  <2> QED
    BY <2>1, <2>2, LinkStarts
<1>2. ASSUME NEW s \in Sessions, NEW a \in Admins, CheckUser(s, a)
      PROVE  SessionsTyped'
  <2>1. PICK pl \in UserOffers : Start(s, "user", [admin |-> a, payload |-> pl])
    BY <1>2 DEF CheckUser
  <2>2. pc'[s] = "user" /\ job'[s] = [admin |-> a, payload |-> pl] => JobTyped(s)'
    BY DEF JobTyped, OnRequest, OnBatch
  <2> QED
    BY <2>1, <2>2, JobMoved DEF Start, Goto, SessionsTyped
<1>3. ASSUME NEW s \in Sessions, NEW k \in PartnerKeys, NEW i \in ApiKeys, ReceivePartner(s, k, i)
      PROVE  SessionsTyped'
  <2>1. Start(s, "partner", [key |-> k, with |-> i])
    BY <1>3 DEF ReceivePartner
  <2>2. pc'[s] = "partner" => JobTyped(s)'
    BY DEF JobTyped, OnRequest, OnBatch
  <2> QED
    BY <2>1, <2>2, JobMoved DEF Start, Goto, SessionsTyped
<1>4. ASSUME NEW s \in Sessions, CreatePartnerUser(s)
      PROVE  SessionsTyped'
  <2>1. pc' = [pc EXCEPT ![s] = "record"] /\ job' = job
    BY <1>4 DEF CreatePartnerUser, Goto
  <2>2. pc'[s] = "record" => JobTyped(s)'
    BY DEF JobTyped, OnRequest, OnBatch
  <2> QED
    BY <2>1, <2>2, JobAdvances DEF SessionsTyped
<1>5. ASSUME NEW s \in Sessions,
             \/ \E p \in Proposals : ProposeUser(s, p)
             \/ LinkUser(s) \/ RefusePartner(s) \/ RecordKey(s)
      PROVE  SessionsTyped'
  BY <1>5, JobEnds DEF ProposeUser, LinkUser, Link, RefusePartner, RecordKey
<1>6. ASSUME \/ \E i \in ApiKeys : CreateApiKey(i) \/ RevokeApiKey(i)
             \/ CreateDirectly
             \/ \E u \in users : \E i : AddIdentifier(u, i) \/ VerifyIdentifier(u, i)
      PROVE  SessionsTyped'
  BY <1>6, NoJob
     DEF CreateApiKey, RevokeApiKey, CreateDirectly, AddIdentifier, VerifyIdentifier, threads
<1>7. ASSUME NEW p \in Proposals,
             \/ \E a \in Admins : RequestUserChanges(a, p)
             \/ ReviseUser(p) \/ ResubmitUser(p) \/ WithdrawUser(p)
      PROVE  SessionsTyped'
  BY <1>7, NoJob DEF RequestUserChanges, SendBack, ReviseUser, Revise, ResubmitUser, Resubmit,
                     WithdrawUser, Withdraw
<1> QED
  BY <1>1, <1>2, <1>3, <1>4, <1>5, <1>6, <1>7 DEF UserNext

\* A band of a configuration request is a row of its scope.
LEMMA ConfigRowType ==
    ASSUME Typed, NEW p \in Proposals, request[p] # None, request[p].kind = "config"
    PROVE  /\ request[p].payload \in ConfigOffers
           /\ \A i \in DOMAIN request[p].payload.bands : ConfigRow(p, i) \in ConfigRows
           /\ request[p].payload.op = "create" => 1 \in DOMAIN request[p].payload.bands
           /\ request[p].payload.bands \in Seq([from: Nat, fee: Nat])
<1> DEFINE c == request[p].payload
<1>1. c \in ConfigOffers
  BY RowTyped DEF Locked, OffersOf
<1>2. c.bands \in Seq([from: Nat, fee: Nat]) /\ ((c.bands = <<>>) = (c.op = "delete"))
  BY <1>1, ConfigAssumption
<1>3. c.scope \in Scopes
  BY <1>1 DEF Scopes
<1>4. ASSUME NEW i \in DOMAIN c.bands PROVE ConfigRow(p, i) \in ConfigRows
  <2>1. c.bands[i] \in [from: Nat, fee: Nat]
    BY <1>2, SeqElements
  <2> QED
    BY <1>3, <2>1 DEF ConfigRow, ConfigRows
<1>5. c.op = "create" => 1 \in DOMAIN c.bands
  <2>1. Len(c.bands) \in Nat /\ DOMAIN c.bands = 1..Len(c.bands)
    BY <1>2, LenProperties
  <2>2. Len(c.bands) = 0 => c.bands = <<>>
    BY <1>2, EmptySeq
  <2> QED
    BY <1>2, <2>1, <2>2
<1> QED
  BY <1>1, <1>2, <1>4, <1>5

LEMMA ConfigJobs == ASSUME Typed, HeldReady, RowsStep, ConfigNext PROVE SessionsTyped'
<1>1. ASSUME NEW s \in Sessions, NEW a \in Admins, NEW p \in Proposals, ApplyFirstBand(s, a, p)
      PROVE  SessionsTyped'
  <2>1. /\ Decides(a, p, "config") /\ Applied(a, p)
        /\ IF Len(request[p].payload.bands) > 1
           THEN Start(s, "bands", [p |-> p, next |-> 2])
           ELSE pc' = pc /\ job' = job
    BY <1>1 DEF ApplyFirstBand
  <2>2. ReadyToApply(a, p, "config")
    BY <2>1, DecidesReady DEF Locked
  <2>3. /\ request'[p] # None /\ request'[p].kind = "config" /\ request'[p].status = "APPLIED"
        /\ request'[p].payload = request[p].payload
    BY <2>1, <2>2, AppliedNow DEF Locked
  <2>4. CASE Len(request[p].payload.bands) > 1
    <3>1. Len(request[p].payload.bands) \in Nat
      BY <2>2, ConfigRowType DEF ReadyToApply
    <3>2. 2 \in 1..Len(request'[p].payload.bands)
      BY <2>3, <2>4, <3>1
    <3>3. pc'[s] = "bands" /\ job'[s] = [p |-> p, next |-> 2] => JobTyped(s)'
      BY <2>3, <3>2 DEF JobTyped, OnRequest, OnBatch
    <3> QED
      BY <2>1, <2>4, <3>3, JobMoved DEF Start, Goto, SessionsTyped
  <2> QED
    BY <2>1, <2>4, NoJob
<1>2. ASSUME NEW s \in Sessions, NEW a \in Admins, CheckConfig(s, a)
      PROVE  SessionsTyped'
  <2>1. PICK pl \in ConfigOffers, target \in live \cup {None} :
            Start(s, "config", [admin |-> a, payload |-> pl, target |-> target])
    BY <1>2 DEF CheckConfig
  <2>2. target \in TargetOf("config")
    BY DEF Typed, Tables, ConfigRows, TargetOf
  <2>3. pc'[s] = "config" /\ job'[s] = [admin |-> a, payload |-> pl, target |-> target]
           => JobTyped(s)'
    BY <2>2 DEF JobTyped, OnRequest, OnBatch, TargetOf
  <2> QED
    BY <2>1, <2>3, JobMoved DEF Start, Goto, SessionsTyped
<1>3. ASSUME NEW s \in Sessions, NEW a \in Admins, NEW p \in Proposals, ReadScope(s, a, p)
      PROVE  SessionsTyped'
  <2> DEFINE work == [p |-> p, admin |-> a, old |-> InScope(request[p].payload.scope)]
  <2>1. Decides(a, p, "config") /\ request' = request /\ Start(s, "replace", work)
    BY <1>3 DEF ReadScope
  <2>2. request'[p] # None
    BY <2>1, DecidesReady DEF ReadyToApply, Locked
  <2>3. work.old \subseteq ConfigRows
    BY DEF InScope, Typed, Tables
  <2>4. pc'[s] = "replace" /\ job'[s] = work => JobTyped(s)'
    BY <2>2, <2>3 DEF JobTyped, OnRequest, OnBatch
  <2> QED
    BY <2>1, <2>4, JobMoved DEF Start, Goto, SessionsTyped
<1>4. ASSUME NEW s \in Sessions, ApplyNextBand(s)
      PROVE  SessionsTyped'
  <2> DEFINE p == job[s].p
             work == [job[s] EXCEPT !.next = @ + 1]
  <2>1. /\ pc[s] = "bands" /\ request' = request
        /\ IF job[s].next < Len(request[p].payload.bands)
           THEN job' = [job EXCEPT ![s] = work] /\ pc' = pc
           ELSE End(s)
    BY <1>4 DEF ApplyNextBand
  <2>2. JobTyped(s)
    BY DEF Typed, JobsTyped
  <2>3. CASE job[s].next < Len(request[p].payload.bands)
    <3>1. /\ p \in Proposals /\ request[p] # None /\ request[p].kind = "config"
          /\ request[p].status = "APPLIED" /\ job[s].next \in 1..Len(request[p].payload.bands)
      BY <2>1, <2>2 DEF JobTyped, OnRequest
    <3>2. Len(request[p].payload.bands) \in Nat
      BY <3>1, ConfigRowType
    <3>3. pc'[s] = pc[s] /\ job'[s] = work => JobTyped(s)'
      <4>1. job[s].next + 1 \in 1..Len(request[p].payload.bands)
        BY <2>3, <3>1, <3>2
      <4> QED
        BY <2>1, <3>1, <4>1 DEF JobTyped, OnRequest, OnBatch
    <3> QED
      BY <2>1, <2>3, <3>3, JobEdited
  <2> QED
    BY <2>1, <2>3, JobEnds
<1>5. ASSUME NEW s \in Sessions,
             (\E p \in Proposals : ProposeConfig(s, p)) \/ BandCollides(s) \/ ReplaceScope(s)
      PROVE  SessionsTyped'
  BY <1>5, JobEnds DEF ProposeConfig, BandCollides, ReplaceScope
<1>6. ASSUME NEW p \in Proposals,
             \/ \E a \in Admins : RequestConfigChanges(a, p)
             \/ ReviseConfig(p) \/ ResubmitConfig(p) \/ WithdrawConfig(p)
      PROVE  SessionsTyped'
  BY <1>6, NoJob DEF RequestConfigChanges, SendBack, ReviseConfig, Revise, ResubmitConfig,
                     Resubmit, WithdrawConfig, Withdraw
<1> QED
  BY <1>1, <1>2, <1>3, <1>4, <1>5, <1>6 DEF ConfigNext

\* A batch session stages the outcome of a row.
LEMMA StageTyped ==
    ASSUME Typed, NEW s \in Sessions, pc[s] \in OnBatch, NEW i \in Nat,
           NEW status \in {"posted", "failed"}
    PROVE  Stage(s, i, status) \in BatchJob /\ Stage(s, i, status).p = job[s].p
<1> DEFINE marks == With(job[s].staged, i, status)
<1>1. job[s] \in BatchJob
  BY BatchSession DEF BatchAt, OnBatch
<1>2. PICK I \in SUBSET Nat : job[s].staged \in [I -> {"posted", "failed"}]
  BY <1>1 DEF BatchJob, Marks
<1>3. marks \in [I \cup {i} -> {"posted", "failed"}]
  BY <1>2 DEF With
<1>4. marks \in Marks
  BY <1>3 DEF Marks
<1>5. job[s].todo \ {i} \in SUBSET Nat
  BY <1>1 DEF BatchJob
<1> QED
  BY <1>1, <1>4, <1>5 DEF Stage, BatchJob

\* What a session at work on a batch must know.
LEMMA BatchJobTyped ==
    ASSUME Typed, RowsStep, NEW s \in Sessions, BatchAt(s), pc[s] # "reject",
           pc'[s] \in OnBatch, job'[s] \in BatchJob, job'[s].p = job[s].p,
           pc'[s] = "pay" => job'[s].row \in Nat
    PROVE  JobTyped(s)'
<1> DEFINE p == job[s].p
<1>1. p \in Proposals /\ request[p] # None /\ request[p].kind = "batch" /\ RowStep(p)
  BY BatchSession, BatchEdits DEF RowsStep
<1>2. request'[p] # None /\ request'[p].kind = "batch"
  BY <1>1, RequestKept
<1> QED
  BY <1>1, <1>2 DEF JobTyped, OnRequest, OnBatch

LEMMA BatchJobs == ASSUME Typed, RowsStep, BatchNext PROVE SessionsTyped'
<1>1. ASSUME NEW s \in Sessions, NEW a \in Admins, NEW p \in Proposals, OpenBatch(s, a, p)
      PROVE  SessionsTyped'
  <2> DEFINE work == [p |-> p, admin |-> a, approvers |-> Approvers(request[p].reviews) \cup {a},
                      todo |-> {}, row |-> None, staged |-> <<>>, fresh |-> TRUE]
  <2>1. /\ request[p] # None /\ request[p].kind = "batch" /\ request' = request
        /\ Start(s, "decide", work)
    BY <1>1 DEF OpenBatch, MayApprove, Is
  <2>2. request[p] \in CommissionBatch
    BY <2>1 DEF Typed, RowsTyped, RequestOf
  <2>3. Approvers(request[p].reviews) \subseteq Admins
    <3>1. request[p].reviews \in Seq(CommissionBatchReview)
      BY <2>2, BatchEdits
    <3>2. ASSUME NEW i \in DOMAIN request[p].reviews PROVE request[p].reviews[i].by \in Admins
      <4>1. request[p].reviews[i] \in CommissionBatchReview
        BY <3>1, SeqElements
      <4> QED
        BY <4>1 DEF CommissionBatchReview
    <3> QED
      BY <3>2 DEF Approvers, CurrentRound
  <2>4. work \in BatchJob
    <3>1. <<>> \in [{} -> {"posted", "failed"}]
      OBVIOUS
    <3>2. <<>> \in Marks
      BY <3>1 DEF Marks
    <3> QED
      BY <2>3, <3>2 DEF BatchJob
  <2>5. pc'[s] = "decide" /\ job'[s] = work => JobTyped(s)'
    BY <2>1, <2>4 DEF JobTyped, OnRequest, OnBatch
  <2> QED
    BY <2>1, <2>5, JobMoved DEF Start, Goto, SessionsTyped
<1>2. ASSUME NEW s \in Sessions, NEW a \in Admins, NEW p \in Proposals, OpenRejection(s, a, p)
      PROVE  SessionsTyped'
  <2>1. /\ request[p] # None /\ request[p].kind = "batch" /\ request' = request
        /\ Start(s, "reject", [p |-> p, admin |-> a])
    BY <1>2 DEF OpenRejection, Is
  <2>2. pc'[s] = "reject" /\ job'[s] = [p |-> p, admin |-> a] => JobTyped(s)'
    BY <2>1 DEF JobTyped, OnRequest, OnBatch
  <2> QED
    BY <2>1, <2>2, JobMoved DEF Start, Goto, SessionsTyped
<1>3. ASSUME NEW s \in Sessions,
             \/ SecondReview(s) \/ RejectBatch(s) \/ RecordApproval(s) \/ PayRowConflict(s)
             \/ FinishBatch(s)
      PROVE  SessionsTyped'
  BY <1>3, JobEnds DEF SecondReview, RejectBatch, RecordApproval, PayRowConflict, FinishBatch
<1>4. ASSUME NEW s \in Sessions, pc[s] \in OnBatch, NEW label \in OnBatch, NEW work \in BatchJob,
             work.p = job[s].p, label = "pay" => work.row \in Nat,
             pc' = [pc EXCEPT ![s] = label], job' = [job EXCEPT ![s] = work]
      PROVE  SessionsTyped'
  <2>1. pc'[s] = label /\ job'[s] = work => JobTyped(s)'
    BY <1>4, BatchJobTyped DEF BatchAt, OnBatch
  <2> QED
    BY <1>4, <2>1, JobMoved DEF SessionsTyped
<1>5. ASSUME NEW s \in Sessions, ReadRows(s)
      PROVE  SessionsTyped'
  <2> DEFINE todo == {i \in DOMAIN request[job[s].p].rows : request[job[s].p].rows[i] = "valid"}
             work == [job[s] EXCEPT !.todo = todo]
  <2>1. /\ pc[s] = "decide" /\ pc' = [pc EXCEPT ![s] = "row"]
        /\ job' = [job EXCEPT ![s] = work]
    BY <1>5 DEF ReadRows, Goto
  <2>2. job[s] \in BatchJob /\ request[job[s].p] \in CommissionBatch
    BY <2>1, BatchSession DEF BatchAt
  <2>3. todo \in SUBSET Nat
    BY <2>2, BatchEdits, SeqElements
  <2>4. work \in BatchJob /\ work.p = job[s].p
    BY <2>2, <2>3 DEF BatchJob
  <2> HIDE DEF work
  <2> QED
    BY <1>4, <2>1, <2>4 DEF OnBatch
<1>6. ASSUME NEW s \in Sessions, LookUpRow(s)
      PROVE  SessionsTyped'
  <2>1. pc[s] = "row" /\ job[s] \in BatchJob
    BY <1>6, BatchSession DEF LookUpRow, BatchAt
  <2>2. PICK i \in job[s].todo :
            IF Paid(job[s].p, i)
            THEN job' = [job EXCEPT ![s] = Stage(s, i, "posted")] /\ pc' = pc
            ELSE job' = [job EXCEPT ![s].row = i] /\ pc' = [pc EXCEPT ![s] = "pay"]
    BY <1>6 DEF LookUpRow, Goto
  <2>3. i \in Nat
    BY <2>1 DEF BatchJob
  <2>4. CASE Paid(job[s].p, i)
    <3>1. Stage(s, i, "posted") \in BatchJob /\ Stage(s, i, "posted").p = job[s].p
      BY <2>1, <2>3, StageTyped DEF OnBatch
    <3>2. pc'[s] = pc[s] /\ job'[s] = Stage(s, i, "posted") => JobTyped(s)'
      BY <2>1, <3>1, BatchJobTyped DEF BatchAt, OnBatch
    <3> QED
      BY <2>2, <2>4, <3>2, JobEdited
  <2>5. CASE ~Paid(job[s].p, i)
    <3> DEFINE work == [job[s] EXCEPT !.row = i]
    <3>1. work \in BatchJob /\ work.p = job[s].p /\ work.row = i
      BY <2>1, <2>3 DEF BatchJob
    <3>2. job' = [job EXCEPT ![s] = work]
      BY <2>2, <2>5
    <3> HIDE DEF work
    <3> QED
      BY <1>4, <2>1, <2>2, <2>3, <2>5, <3>1, <3>2 DEF OnBatch
  <2> QED
    BY <2>4, <2>5
<1>7. ASSUME NEW s \in Sessions, PayRow(s) \/ FailRow(s)
      PROVE  SessionsTyped'
  <2>1. pc[s] = "pay" /\ job[s] \in BatchJob
    BY <1>7, BatchSession DEF PayRow, FailRow, BatchAt
  <2>2. job[s].row \in Nat
    BY <2>1 DEF Typed, JobsTyped, JobTyped
  <2>3. CASE PayRow(s)
    <3> DEFINE staged == Stage(s, job[s].row, "posted")
               work == [staged EXCEPT !.fresh = FALSE]
    <3>1. staged \in BatchJob /\ staged.p = job[s].p
      BY <2>1, <2>2, StageTyped DEF OnBatch
    <3>2. work \in BatchJob /\ work.p = job[s].p
      BY <3>1 DEF BatchJob
    <3>3. pc' = [pc EXCEPT ![s] = "row"] /\ job' = [job EXCEPT ![s] = work]
      BY <2>3 DEF PayRow, Goto
    <3> HIDE DEF work
    <3> QED
      BY <1>4, <2>1, <3>2, <3>3 DEF OnBatch
  <2>4. CASE FailRow(s)
    <3> DEFINE work == Stage(s, job[s].row, "failed")
    <3>1. work \in BatchJob /\ work.p = job[s].p
      BY <2>1, <2>2, StageTyped DEF OnBatch
    <3>2. pc' = [pc EXCEPT ![s] = "row"] /\ job' = [job EXCEPT ![s] = work]
      BY <2>4 DEF FailRow, Goto
    <3> HIDE DEF work
    <3> QED
      BY <1>4, <2>1, <3>1, <3>2 DEF OnBatch
  <2> QED
    BY <1>7, <2>3, <2>4
<1>8. ASSUME NEW a \in Admins, NEW p \in Proposals, UploadBatch(a, p)
      PROVE  SessionsTyped'
  BY <1>8, NoJob DEF UploadBatch
<1> QED
  BY <1>1, <1>2, <1>3, <1>5, <1>6, <1>7, <1>8 DEF BatchNext

\* The configuration keeps rows of its scopes.
LEMMA LiveTyped == ASSUME Typed, HeldReady, [Next]_vars PROVE live' \subseteq ConfigRows
<1> USE DEF Typed, Tables
<1>1. ASSUME NEW s \in Sessions, NEW a \in Admins, NEW p \in Proposals, ApplyFirstBand(s, a, p)
      PROVE  live' \subseteq ConfigRows
  <2>1. /\ request[p] # None /\ request[p].kind = "config" /\ request[p].payload.op = "create"
        /\ live' = live \cup {ConfigRow(p, 1)}
    BY <1>1, DecidesReady DEF ApplyFirstBand, ReadyToApply, Locked
  <2> QED
    BY <2>1, ConfigRowType
<1>2. ASSUME NEW s \in Sessions, ApplyNextBand(s)
      PROVE  live' \subseteq ConfigRows
  <2> DEFINE p == job[s].p
             bands == request[p].payload.bands
  <2>1. pc[s] = "bands" /\ live' = live \cup {ConfigRow(p, job[s].next)}
    BY <1>2 DEF ApplyNextBand
  <2>2. /\ p \in Proposals /\ request[p] # None /\ request[p].kind = "config"
        /\ job[s].next \in 1..Len(bands)
    BY <2>1 DEF JobsTyped, JobTyped, OnRequest
  <2>3. bands \in Seq([from: Nat, fee: Nat])
    BY <2>2, ConfigRowType
  <2>4. job[s].next \in DOMAIN bands
    BY <2>2, <2>3, SeqElements
  <2> QED
    BY <2>1, <2>2, <2>4, ConfigRowType
<1>3. ASSUME NEW s \in Sessions, ReplaceScope(s)
      PROVE  live' \subseteq ConfigRows
  <2> DEFINE p == job[s].p
  <2>1. /\ pc[s] = "replace"
        /\ live' = (live \ job[s].old) \cup {ConfigRow(p, i) : i \in DOMAIN request[p].payload.bands}
    BY <1>3 DEF ReplaceScope, Replaced
  <2>2. p \in Proposals /\ request[p] # None /\ request[p].kind = "config"
    BY <2>1, <1>3 DEF JobsTyped, JobTyped, OnRequest, HeldReady, ReadyToApply
  <2> QED
    BY <2>1, <2>2, ConfigRowType
<1>4. CASE live' = live
  BY <1>4
<1>5. ConfigNext => live' \subseteq ConfigRows
  BY <1>1, <1>2, <1>3, <1>4
     DEF ConfigNext, CheckConfig, ReadScope, ProposeConfig, BandCollides, RequestConfigChanges,
         ReviseConfig, ResubmitConfig, WithdrawConfig, configVars
<1> QED
  BY <1>4, <1>5 DEF Next, Cut, vars, configVars

\* Sessions whose program does not hold a row move freely.
HoldersStay ==
    \A s \in Sessions :
        pc'[s] \in {"withdraw", "replace"} => pc'[s] = pc[s] /\ job'[s] = job[s]

\* A session takes a row that is free, and that it found ready.
HolderComes ==
    \E s \in Sessions, a \in Admins, p \in Proposals :
        \E held \in {<<"withdraw", "money">>, <<"replace", "config">>} :
            /\ ReadyToApply(a, p, held[2]) /\ Unlocked(p)
            /\ pc' = [pc EXCEPT ![s] = held[1]] /\ job'[s].p = p /\ job'[s].admin = a
            /\ \A t \in Sessions \ {s} : job'[t] = job[t]
            /\ request' = request

LEMMA OneMoves ==
    ASSUME NEW s \in Sessions, pc'[s] \notin {"withdraw", "replace"},
           \A t \in Sessions \ {s} : pc'[t] = pc[t] /\ job'[t] = job[t]
    PROVE  HoldersStay
BY DEF HoldersStay

\* A session starts or advances.
LEMMA Moves ==
    ASSUME Typed, NEW s \in Sessions, NEW label, label \notin {"withdraw", "replace"},
           \/ \E work : Start(s, label, work)
           \/ Goto(s, label) /\ job' = job
           \/ Goto(s, label) /\ \E work : job' = [job EXCEPT ![s] = work]
           \/ pc[s] = label /\ pc' = pc /\ \E work : job' = [job EXCEPT ![s] = work]
    PROVE  HoldersStay
<1>1. pc'[s] \notin {"withdraw", "replace"}
  BY DEF Start, Goto, Typed, Tables
<1>2. \A t \in Sessions \ {s} : pc'[t] = pc[t] /\ job'[t] = job[t]
  BY DEF Start, Goto, Typed, Tables
<1> QED
  BY <1>1, <1>2, OneMoves

LEMMA NobodyMoves == ASSUME pc' = pc, job' = job PROVE HoldersStay
BY DEF HoldersStay

\* A session reads what it will apply, and holds the row.
LEMMA Reads ==
    ASSUME Typed, NEW s \in Sessions, NEW a \in Admins, NEW p \in Proposals,
           ReadWithdrawal(s, a, p) \/ ReadScope(s, a, p)
    PROVE  HolderComes
<1>1. CASE ReadWithdrawal(s, a, p)
  <2>1. /\ Decides(a, p, "money") /\ request' = request
        /\ \E work : work.p = p /\ work.admin = a /\ Start(s, "withdraw", work)
    BY <1>1 DEF ReadWithdrawal, Runs
  <2>2. ReadyToApply(a, p, "money") /\ Unlocked(p)
    BY <2>1, DecidesReady DEF Locked, Decides, MayApprove, Is
  <2>3. /\ pc' = [pc EXCEPT ![s] = "withdraw"] /\ job'[s].p = p /\ job'[s].admin = a
        /\ \A t \in Sessions \ {s} : job'[t] = job[t]
    BY <2>1 DEF Start, Goto, Typed, Tables
  <2> DEFINE held == <<"withdraw", "money">>
  <2>4. held[1] = "withdraw" /\ held[2] = "money"
    OBVIOUS
  <2> QED
    BY <2>1, <2>2, <2>3, <2>4 DEF HolderComes
<1>2. CASE ReadScope(s, a, p)
  <2>1. /\ Decides(a, p, "config") /\ request' = request
        /\ \E work : work.p = p /\ work.admin = a /\ Start(s, "replace", work)
    BY <1>2 DEF ReadScope
  <2>2. ReadyToApply(a, p, "config") /\ Unlocked(p)
    BY <2>1, DecidesReady DEF Locked, Decides, MayApprove, Is
  <2>3. /\ pc' = [pc EXCEPT ![s] = "replace"] /\ job'[s].p = p /\ job'[s].admin = a
        /\ \A t \in Sessions \ {s} : job'[t] = job[t]
    BY <2>1 DEF Start, Goto, Typed, Tables
  <2> DEFINE held == <<"replace", "config">>
  <2>4. held[1] = "replace" /\ held[2] = "config"
    OBVIOUS
  <2> QED
    BY <2>1, <2>2, <2>3, <2>4 DEF HolderComes
<1> QED
  BY <1>1, <1>2

\* No other step makes a session hold a row.
LEMMA HoldersStep == ASSUME Typed, [Next]_vars PROVE HoldersStay \/ HolderComes
<1>1. ASSUME NEW s \in Sessions, NEW a \in Admins, NEW p \in Proposals,
             \/ ApplyFund(s, a, p) \/ ApplyFirstFund(s, a, p) \/ ApplyAdjustment(s, a, p)
             \/ ApplyCreate(s, a, p) \/ ApplyUpdate(s, a, p)
             \/ ApplyFirstBand(s, a, p)
             \/ OpenBatch(s, a, p) \/ OpenRejection(s, a, p)
      PROVE  HoldersStay
  <2>1. \/ \E work : \E label \in {"link", "post", "bands", "decide", "reject"} : Start(s, label, work)
        \/ pc' = pc /\ job' = job
    BY <1>1 DEF ApplyFund, ApplyFirstFund, ApplyAdjustment, ApplyCreate, ApplyUpdate,
                ApplyFirstBand, OpenBatch, OpenRejection
  <2> QED
    BY <2>1, Moves, NobodyMoves
<1>2. ASSUME NEW s \in Sessions, NEW a \in Admins, CheckUser(s, a) \/ CheckConfig(s, a)
      PROVE  HoldersStay
  <2>1. \E work : \E label \in {"user", "config"} : Start(s, label, work)
    BY <1>2 DEF CheckUser, CheckConfig
  <2> QED
    BY <2>1, Moves
<1>3. ASSUME NEW s \in Sessions, NEW k \in PartnerKeys, NEW i \in ApiKeys, ReceivePartner(s, k, i)
      PROVE  HoldersStay
  <2>1. \E work : Start(s, "partner", work)
    BY <1>3 DEF ReceivePartner
  <2> QED
    BY <2>1, Moves
<1>4. ASSUME NEW s \in Sessions, End(s)
      PROVE  HoldersStay
  <2>1. pc'[s] = "idle" /\ \A t \in Sessions \ {s} : pc'[t] = pc[t] /\ job'[t] = job[t]
    BY <1>4 DEF End, Goto, Typed, Tables
  <2> QED
    BY <2>1, OneMoves
<1>5. ASSUME NEW s \in Sessions,
             \/ PostFirstFund(s) \/ PostWithdrawal(s) \/ CreatePartnerUser(s)
             \/ ReadRows(s) \/ PayRow(s) \/ FailRow(s) \/ LookUpRow(s) \/ ApplyNextBand(s)
      PROVE  HoldersStay
  <2>1. PICK label \in {"link", "record", "row", "pay", "bands"} :
            \/ Goto(s, label) /\ job' = job
            \/ Goto(s, label) /\ \E work : job' = [job EXCEPT ![s] = work]
            \/ pc[s] = label /\ pc' = pc /\ \E work : job' = [job EXCEPT ![s] = work]
            \/ End(s)
    <3>1. CASE \/ PostFirstFund(s) \/ PostWithdrawal(s) \/ CreatePartnerUser(s)
               \/ ReadRows(s) \/ PayRow(s) \/ FailRow(s)
      BY <3>1 DEF PostFirstFund, PostWithdrawal, CreatePartnerUser, ReadRows, PayRow, FailRow
    <3>2. CASE LookUpRow(s)
      BY <3>2 DEF LookUpRow
    <3>3. CASE ApplyNextBand(s)
      BY <3>3 DEF ApplyNextBand
    <3> QED
      BY <1>5, <3>1, <3>2, <3>3
  <2>2. label \notin {"withdraw", "replace"}
    OBVIOUS
  <2>3. CASE End(s)
    BY <1>4, <2>3
  <2>4. CASE ~End(s)
    BY <2>1, <2>2, <2>4, Moves
  <2> QED
    BY <2>3, <2>4
<1>6. CASE pc' = pc /\ job' = job
  BY <1>6, NobodyMoves
<1>7. MoneyNext => HoldersStay \/ HolderComes
  BY <1>1, <1>4, <1>5, <1>6, Reads
     DEF MoneyNext, RefuseFirstFund, RefuseWithdrawal, LinkMoney, Link, ProposeMoney, ApproveMoney,
         Progress, CreateBankMirror, RequestMoneyChanges, SendBack, ReviseMoney, Revise,
         ResubmitMoney, Resubmit, WithdrawMoney, Withdraw, RenameBankMirror, threads
<1>8. UserNext => HoldersStay
  <2>1. ASSUME NEW s \in Sessions,
               \/ \E p \in Proposals : ProposeUser(s, p)
               \/ LinkUser(s) \/ RefusePartner(s) \/ RecordKey(s)
        PROVE  HoldersStay
    BY <1>4, <2>1 DEF ProposeUser, LinkUser, Link, RefusePartner, RecordKey
  <2>2. ASSUME \/ \E i \in ApiKeys : CreateApiKey(i) \/ RevokeApiKey(i)
               \/ CreateDirectly
               \/ \E u \in users : \E i : AddIdentifier(u, i) \/ VerifyIdentifier(u, i)
        PROVE  HoldersStay
    BY NobodyMoves, <2>2 DEF CreateApiKey, RevokeApiKey, CreateDirectly, AddIdentifier,
                      VerifyIdentifier, threads
  <2>3. ASSUME NEW p \in Proposals,
               \/ \E a \in Admins : RequestUserChanges(a, p)
               \/ ReviseUser(p) \/ ResubmitUser(p) \/ WithdrawUser(p)
        PROVE  HoldersStay
    BY NobodyMoves, <2>3 DEF RequestUserChanges, SendBack, ReviseUser, Revise, ResubmitUser, Resubmit,
                      WithdrawUser, Withdraw
  <2> QED
    BY <1>1, <1>2, <1>3, <1>5, <2>1, <2>2, <2>3 DEF UserNext
<1>9. ConfigNext => HoldersStay \/ HolderComes
  BY <1>1, <1>2, <1>4, <1>5, <1>6, Reads
     DEF ConfigNext, ProposeConfig, BandCollides, ReplaceScope, RequestConfigChanges, SendBack,
         ReviseConfig, Revise, ResubmitConfig, Resubmit, WithdrawConfig, Withdraw
<1>10. BatchNext => HoldersStay
  <2>1. ASSUME NEW s \in Sessions,
               \/ SecondReview(s) \/ RejectBatch(s) \/ RecordApproval(s) \/ PayRowConflict(s)
               \/ FinishBatch(s)
        PROVE  HoldersStay
    BY <1>4, <2>1 DEF SecondReview, RejectBatch, RecordApproval, PayRowConflict, FinishBatch
  <2>2. ASSUME NEW a \in Admins, NEW p \in Proposals, UploadBatch(a, p)
        PROVE  HoldersStay
    BY NobodyMoves, <2>2 DEF UploadBatch
  <2> QED
    BY <1>1, <1>5, <2>1, <2>2 DEF BatchNext
<1> QED
  BY <1>4, <1>6, <1>7, <1>8, <1>9, <1>10 DEF Next, Cut, vars, threads

\* A request whose row is held does not change.
LEMMA HeldKept ==
    ASSUME Typed, HeldReady, RowsStep, NEW s \in Sessions,
           pc[s] \in {"withdraw", "replace"}, pc'[s] = pc[s]
    PROVE  job[s].p \in Proposals /\ request'[job[s].p] = request[job[s].p]
<1> DEFINE p == job[s].p
<1>1. /\ p \in Proposals /\ RowStep(p) /\ request[p] # None
      /\ request[p].kind \in Locked /\ request[p].status = "PENDING"
  BY DEF Typed, JobsTyped, JobTyped, OnRequest, HeldReady, ReadyToApply, RowsStep, Locked
<1>2. ~Free(p)
  BY DEF Free, Holds
<1> QED
  BY <1>1, <1>2 DEF RowStep, Filing, Transition, Linking, OfBatch, Locked

LEMMA HeldStaysReady ==
    ASSUME Typed, HeldReady, RowsStep, [Next]_vars
    PROVE  HeldReady'
<1>1. CASE HoldersStay
  <2>1. ASSUME NEW s \in Sessions, pc'[s] \in {"withdraw", "replace"}
        PROVE  /\ pc'[s] = pc[s] /\ job'[s] = job[s]
               /\ request'[job[s].p] = request[job[s].p]
    BY <1>1, <2>1, HeldKept DEF HoldersStay
  <2>2. ASSUME NEW s \in Sessions, pc'[s] = "withdraw"
        PROVE  ReadyToApply(job[s].admin, job[s].p, "money")'
    BY <2>1, <2>2 DEF HeldReady, ReadyToApply, Quorum
  <2>3. ASSUME NEW s \in Sessions, pc'[s] = "replace"
        PROVE  ReadyToApply(job[s].admin, job[s].p, "config")'
    BY <2>1, <2>3 DEF HeldReady, ReadyToApply, Quorum
  <2>4. ASSUME NEW s \in Sessions, NEW t \in Sessions \ {s}, NEW p \in Proposals,
               Holds(s, p)', Holds(t, p)'
        PROVE  FALSE
    BY <2>1, <2>4 DEF HeldReady, Holds
  <2> QED
    BY <2>2, <2>3, <2>4 DEF HeldReady
<1>2. CASE HolderComes
  <2>1. PICK s \in Sessions, a \in Admins, p \in Proposals,
             held \in {<<"withdraw", "money">>, <<"replace", "config">>} :
            /\ ReadyToApply(a, p, held[2]) /\ Unlocked(p)
            /\ pc' = [pc EXCEPT ![s] = held[1]] /\ job'[s].p = p /\ job'[s].admin = a
            /\ \A t \in Sessions \ {s} : job'[t] = job[t]
            /\ request' = request
    BY <1>2 DEF HolderComes
  <2>2. \/ pc'[s] = "withdraw" /\ ReadyToApply(a, p, "money")
        \/ pc'[s] = "replace" /\ ReadyToApply(a, p, "config")
    BY <2>1 DEF Typed, Tables
  <2>3. \A t \in Sessions \ {s} : pc'[t] = pc[t] /\ job'[t] = job[t]
    BY <2>1 DEF Typed, Tables
  <2>4. \A q, b, kind : ReadyToApply(b, q, kind) => ReadyToApply(b, q, kind)'
    BY <2>1 DEF ReadyToApply, Quorum
  <2>5. ASSUME NEW t \in Sessions
        PROVE  /\ pc'[t] = "withdraw" => ReadyToApply(job[t].admin, job[t].p, "money")'
               /\ pc'[t] = "replace" => ReadyToApply(job[t].admin, job[t].p, "config")'
    BY <2>1, <2>2, <2>3, <2>4 DEF HeldReady
  <2>6. ASSUME NEW t \in Sessions, NEW u \in Sessions \ {t}, NEW q \in Proposals,
               Holds(t, q)', Holds(u, q)'
        PROVE  FALSE
    BY <2>1, <2>3, <2>6 DEF HeldReady, Holds, Unlocked
  <2> QED
    BY <2>5, <2>6 DEF HeldReady
<1> QED
  BY <1>1, <1>2, HoldersStep

\* The rows of the tables, the sessions' locals and the configuration keep
\* their types.
LEMMA StaysTyped == ASSUME Typed, HeldReady, [Next]_vars PROVE Typed' /\ RowsStep
<1>1. RowsStep
  BY NextRows
<1>2. RowsTyped' /\ DOMAIN request' = Proposals
  BY <1>1, RowsStayTyped DEF RowsStep
<1>3. ASSUME NEW s \in Sessions, Cut(s) PROVE SessionsTyped'
  BY <1>1, <1>3, JobEnds DEF Cut
<1>4. UNCHANGED vars => SessionsTyped'
  BY <1>1, NoJob DEF vars, threads
<1>5. SessionsTyped'
  BY <1>1, <1>3, <1>4, MoneyJobs, UserJobs, ConfigJobs, BatchJobs DEF Next
<1>6. live' \subseteq ConfigRows
  BY LiveTyped
<1> QED
  BY <1>1, <1>2, <1>5, <1>6 DEF Typed, Tables, SessionsTyped

-----------------------------------------------------------------------------
(* Enough checkers                                                         *)

\* The approvals of the current round are no maker's, and of what the request
\* says now.
CurrentApprovals(row) ==
    \A v \in CurrentRound(row.reviews) :
        v.action = "approved" => v.by # row.maker /\ v.about = row.payload

\* A waiting request has fewer approvals than it needs, an applied one enough.
Considered(p) ==
    LET row == request[p]
    IN  row # None /\ row.kind \in Locked =>
            /\ row.status = "PENDING" =>
                  CurrentApprovals(row) /\ Cardinality(Approvers(row.reviews)) < row.required
            /\ row.status = "APPLIED" =>
                  Cardinality(ApprovedFor(row.reviews, row.payload) \ {row.maker}) >= row.required

AllConsidered == \A p \in Proposals : Considered(p)

\* The approvers of the round approved what the request says.
LEMMA ApproversCount ==
    ASSUME NEW S, NEW row, row.reviews \in Seq(S), CurrentApprovals(row)
    PROVE  LET given == ApprovedFor(row.reviews, row.payload) \ {row.maker}
           IN  /\ Approvers(row.reviews) \subseteq given
               /\ IsFiniteSet(given) /\ IsFiniteSet(Approvers(row.reviews))
               /\ Cardinality(given) \in Nat /\ Cardinality(Approvers(row.reviews)) \in Nat
               /\ Cardinality(Approvers(row.reviews)) <= Cardinality(given)
<1> DEFINE all == ApprovedFor(row.reviews, row.payload)
           given == all \ {row.maker}
<1>1. Approvers(row.reviews) \subseteq given
  BY DEF Approvers, CurrentRound, CurrentApprovals, ApprovedFor
<1>2. IsFiniteSet(all)
  BY ApprovedForFinite
<1>3. IsFiniteSet(given)
  <2>1. given \in SUBSET all
    OBVIOUS
  <2> HIDE DEF all, given
  <2> QED BY <1>2, <2>1, FS_Subset
<1> HIDE DEF given
<1>4. /\ IsFiniteSet(Approvers(row.reviews))
      /\ Cardinality(Approvers(row.reviews)) <= Cardinality(given)
  BY <1>1, <1>3, FS_Subset
<1>5. Cardinality(given) \in Nat /\ Cardinality(Approvers(row.reviews)) \in Nat
  BY <1>3, <1>4, FS_CardinalityType
<1> QED
  BY <1>1, <1>3, <1>4, <1>5 DEF given

\* One more approval of a waiting request.
LEMMA ApprovalCounts ==
    ASSUME Typed, NEW p \in Proposals, request[p] # None, request[p].kind \in Locked,
           CurrentApprovals(request[p]), NEW a \in Admins, a # request[p].maker
    PROVE  LET new == Reviewed(a, "approved", p)
           IN  /\ new.reviews \in Seq(ReviewOf(request[p].kind))
               /\ new.maker = request[p].maker /\ new.payload = request[p].payload
               /\ new.required = request[p].required /\ new.status = request[p].status
               /\ CurrentApprovals(new)
               /\ Approvers(new.reviews) = Approvers(request[p].reviews) \cup {a}
<1> DEFINE row == request[p]
           v == Review(a, "approved", p)
           new == Reviewed(a, "approved", p)
<1>1. /\ v \in ReviewOf(row.kind) /\ v.action = "approved" /\ v.by = a /\ v.about = row.payload
  BY ReviewTyped DEF Review
<1>2. /\ row \in RequestOf(row.kind) /\ row.reviews \in Seq(ReviewOf(row.kind))
      /\ DOMAIN row = {"kind", "maker", "payload", "target", "status", "required",
                       "reviews", "linked", "rows"}
  BY RowTyped, RowShape
<1>3. /\ new.reviews = Append(row.reviews, v) /\ new.maker = row.maker
      /\ new.payload = row.payload /\ new.required = row.required /\ new.status = row.status
  BY <1>2 DEF Reviewed
<1> HIDE DEF new, v
<1>4. /\ CurrentRound(new.reviews) = CurrentRound(row.reviews) \cup {v}
      /\ Approvers(new.reviews) = Approvers(row.reviews) \cup {v.by}
  BY <1>1, <1>2, <1>3, ApprovalJoins
<1>5. CurrentApprovals(new)
  BY <1>1, <1>3, <1>4 DEF CurrentApprovals
<1>6. new.reviews \in Seq(ReviewOf(row.kind))
  BY <1>1, <1>2, <1>3, AppendProperties
<1> QED
  BY <1>1, <1>3, <1>4, <1>5, <1>6 DEF new

LEMMA StaysConsidered ==
    ASSUME Typed, AllConsidered, RowsStep, NEW p \in Proposals
    PROVE  Considered(p)'
<1> DEFINE row == request[p]
           kind == request[p].kind
<1>1. RowStep(p) /\ Considered(p)
  BY DEF RowsStep, AllConsidered
<1>2. CASE request'[p] = row
  BY <1>1, <1>2 DEF Considered
<1>3. CASE Filing(p)
  <2>1. /\ request'[p].status = "PENDING" /\ request'[p].reviews = <<>>
        /\ request'[p].required \in {1, 2}
    BY <1>3, RowShape DEF Filing
  <2>2. CurrentRound(<<>>) = {} /\ Cardinality(Approvers(<<>>)) = 0
    BY NoReviews, FS_EmptySet
  <2> QED
    BY <2>1, <2>2 DEF Considered, CurrentApprovals
<1>4. CASE OfBatch(p)
  <2>1. request'[p].kind = "batch"
    BY <1>4, BatchEdits DEF OfBatch
  <2> QED
    BY <2>1 DEF Considered, Locked
<1>5. ASSUME Transition(p)
      PROVE  Considered(p)'
  <2>1. /\ row # None /\ kind \in Locked /\ row \in RequestOf(kind)
        /\ row.required \in {1, 2} /\ row.reviews \in Seq(ReviewOf(kind))
        /\ DOMAIN row = {"kind", "maker", "payload", "target", "status", "required",
                         "reviews", "linked", "rows"}
    BY <1>5, RowTyped, RowShape DEF Transition
  <2>2. CASE Approving(p)
    <3>1. PICK a \in Admins \ ({row.maker} \cup Approvers(row.reviews)) :
              /\ row.status = "PENDING"
              /\ request'[p] = IF Quorum(a, p)
                               THEN [Reviewed(a, "approved", p) EXCEPT !.status = "APPLIED"]
                               ELSE Reviewed(a, "approved", p)
      BY <2>2 DEF Approving
    <3> DEFINE new == Reviewed(a, "approved", p)
               given == ApprovedFor(new.reviews, new.payload) \ {new.maker}
    <3>2. CurrentApprovals(row)
      BY <1>1, <2>1, <3>1 DEF Considered
    <3>3. /\ new.reviews \in Seq(ReviewOf(kind)) /\ CurrentApprovals(new)
          /\ new.maker = row.maker /\ new.payload = row.payload /\ new.required = row.required
          /\ new.status = row.status
          /\ Approvers(new.reviews) = Approvers(row.reviews) \cup {a}
      BY <2>1, <3>1, <3>2, ApprovalCounts
    <3>4. /\ Cardinality(given) \in Nat /\ Cardinality(Approvers(new.reviews)) \in Nat
          /\ Cardinality(Approvers(new.reviews)) <= Cardinality(given)
      <4> HIDE DEF new
      <4> QED BY <3>3, ApproversCount
    <3>5. Quorum(a, p) <=> Cardinality(Approvers(new.reviews)) >= row.required
      BY <3>3 DEF Quorum
    <3>6. CASE Quorum(a, p)
      <4>1. /\ request'[p].reviews = new.reviews /\ request'[p].payload = new.payload
            /\ request'[p].maker = new.maker /\ request'[p].required = new.required
            /\ request'[p].status = "APPLIED"
        BY <2>1, <3>1, <3>6 DEF Reviewed
      <4>2. Cardinality(given) >= row.required
        BY <2>1, <3>4, <3>5, <3>6
      <4> HIDE DEF new
      <4> QED
        BY <3>3, <4>1, <4>2 DEF Considered
    <3>7. CASE ~Quorum(a, p)
      <4>1. request'[p] = new
        BY <3>1, <3>7
      <4>2. Cardinality(Approvers(new.reviews)) < row.required
        BY <2>1, <3>4, <3>5, <3>7
      <4> HIDE DEF new
      <4> QED
        BY <3>1, <3>3, <4>1, <4>2 DEF Considered
    <3> QED
      BY <3>6, <3>7
  <2>3. CASE Resubmitting(p)
    <3> DEFINE v == Review(row.maker, "resubmitted", p)
    <3>1. v \in ReviewOf(kind) /\ v.action = "resubmitted"
      BY <2>1, RowTyped, ReviewTyped DEF Review
    <3>2. /\ request'[p].reviews = Append(row.reviews, v)
          /\ request'[p].required = row.required /\ request'[p].status = "PENDING"
      BY <2>1, <2>3 DEF Resubmitting, Reviewed
    <3>3. CurrentRound(request'[p].reviews) = {} /\ Approvers(request'[p].reviews) = {}
      <4> HIDE DEF v
      <4> QED BY <2>1, <3>1, <3>2, ResubmissionClears
    <3>4. Cardinality(Approvers(request'[p].reviews)) < request'[p].required
      <4>1. Cardinality({}) = 0
        BY FS_EmptySet
      <4> HIDE DEF v
      <4> QED
        BY <2>1, <3>2, <3>3, <4>1
    <3> QED
      BY <3>2, <3>3, <3>4 DEF Considered, CurrentApprovals
  <2>4. CASE Leaving(p) \/ Revising(p)
    <3>1. request'[p].status \in {"CHANGES_REQUESTED", "WITHDRAWN"}
      BY <2>1, <2>4 DEF Leaving, Revising
    <3> QED
      BY <3>1 DEF Considered
  <2>5. CASE Linking(p)
    <3>1. /\ row.status = "APPLIED" /\ request'[p].status = "APPLIED"
          /\ request'[p].reviews = row.reviews /\ request'[p].payload = row.payload
          /\ request'[p].maker = row.maker /\ request'[p].required = row.required
      BY <2>1, <2>5 DEF Linking
    <3> QED
      BY <1>1, <2>1, <3>1 DEF Considered
  <2> QED
    BY <1>5, <2>2, <2>3, <2>4, <2>5 DEF Transition
<1> QED
  BY <1>1, <1>2, <1>3, <1>4, <1>5 DEF RowStep

-----------------------------------------------------------------------------
(* Theorems                                                                *)

IInv == Typed /\ HeldReady /\ AllConsidered

LEMMA Starts == Init => IInv
<1> SUFFICES ASSUME Init PROVE IInv
  OBVIOUS
<1>1. /\ request = [p \in Proposals |-> None] /\ pc = [s \in Sessions |-> "idle"]
      /\ job = [s \in Sessions |-> None] /\ live = Seeded
  BY DEF Init, MakerCheckerInit, ConfigInit
<1>2. Seeded \subseteq ConfigRows
  <2> SUFFICES ASSUME NEW r \in Seeded PROVE r \in ConfigRows
    OBVIOUS
  <2>1. r \in [scope: {r.scope}, from: Nat, fee: Nat, by: {None}]
    BY ConfigAssumption
  <2>2. r.scope \in Scopes
    BY DEF Scopes
  <2> QED
    BY <2>1, <2>2 DEF ConfigRows
<1>3. Typed
  BY <1>1, <1>2 DEF Typed, Tables, RowsTyped, JobsTyped, JobTyped, OnRequest, OnBatch
<1>4. HeldReady
  BY <1>1 DEF HeldReady, Holds
<1>5. AllConsidered
  BY <1>1 DEF AllConsidered, Considered
<1> QED
  BY <1>3, <1>4, <1>5 DEF IInv

LEMMA Preserved == IInv /\ [Next]_vars => IInv' /\ RowsStep
<1> SUFFICES ASSUME IInv, [Next]_vars PROVE IInv' /\ RowsStep
  OBVIOUS
<1>1. Typed' /\ RowsStep
  BY StaysTyped DEF IInv
<1>2. HeldReady'
  BY <1>1, HeldStaysReady DEF IInv
<1>3. AllConsidered'
  BY <1>1, StaysConsidered DEF IInv, AllConsidered
<1> QED
  BY <1>1, <1>2, <1>3 DEF IInv

\* Whatever the sessions of the admins do, and wherever they die: requests and
\* locals keep their types, a session that will apply a request holds it as it
\* found it, and a request has the approvals its status says.
THEOREM Invariance == Spec => []IInv
<1>1. Init => IInv
  BY Starts
<1>2. IInv /\ [Next]_vars => IInv'
  BY Preserved
<1> QED
  BY <1>1, <1>2, PTL DEF Spec

\* N eyes, for any number of admins, sessions and requests: what is applied is
\* what the required number of distinct checkers approved, none of them the
\* maker.
THEOREM Approved == Spec => []ApprovedIsApplied
<1>1. IInv => ApprovedIsApplied
  <2> SUFFICES ASSUME IInv, NEW p \in Proposals, request[p] # None,
                      request[p].kind # "batch", request[p].status = "APPLIED"
               PROVE  Cardinality(ApprovedFor(request[p].reviews, request[p].payload)
                                      \ {request[p].maker}) >= request[p].required
    BY DEF ApprovedIsApplied, ApprovedFor
  <2>1. request[p].kind \in Locked
    BY DEF IInv, Typed, RowsTyped, Kinds
  <2> QED
    BY <2>1 DEF IInv, AllConsidered, Considered
<1> QED
  BY <1>1, Invariance, PTL

OnlyTransitions == \A p \in Proposals : RowStep(p)

\* A request in a queue that locks its rows goes only where its queue sends
\* it: none leaves APPLIED or WITHDRAWN, and no step of one session undoes or
\* overtakes the decision another is about to commit.
THEOREM RowsGoAsQueued == Spec => [][OnlyTransitions]_vars
<1>1. IInv /\ [Next]_vars => OnlyTransitions
  BY Preserved DEF RowsStep, OnlyTransitions
<1> QED
  BY <1>1, Invariance, PTL DEF Spec

-----------------------------------------------------------------------------
(* Whose step it is                                                        *)

Of(p, kind) == request[p] # None /\ request[p].kind = kind

\* The labels of the programs of each queue; "idle" and "link" are shared.
LabelsOf(kind) ==
    CASE kind = "money"  -> {"post", "withdraw"}
      [] kind = "user"   -> {"user", "partner", "record"}
      [] kind = "config" -> {"config", "bands", "replace"}
      [] kind = "batch"  -> {"decide", "row", "pay", "reject"}

\* A step of one queue writes one of its requests, if any, and moves one
\* session within its programs, if any.
WritesOne(kind) == \E p \in Proposals : Others(p) /\ (Of(p, kind) \/ (request[p] = None /\ Of(p, kind)'))

MovesOne(kind) ==
    \E s \in Sessions :
        /\ \A t \in Sessions \ {s} : pc'[t] = pc[t] /\ job'[t] = job[t]
        /\ pc[s] \in {"idle", "link"} \cup LabelsOf(kind)
        /\ pc'[s] \in {"idle", "link"} \cup LabelsOf(kind)

StepOf(kind) ==
    /\ request' = request \/ WritesOne(kind)
    /\ (pc' = pc /\ job' = job) \/ MovesOne(kind)

\* What the other queues see of it.
Fixed(kind) == \A p \in Proposals : Of(p, kind) \/ Of(p, kind)' => request'[p] = request[p]

Still(kind) ==
    \A s \in Sessions : pc[s] \in LabelsOf(kind) \/ pc'[s] \in LabelsOf(kind) =>
        pc'[s] = pc[s] /\ job'[s] = job[s]

\* A step of one queue leaves the requests and the sessions of another.
LEMMA OthersSee ==
    ASSUME Typed, RowsStep, NEW kind \in Kinds, StepOf(kind), NEW other \in Kinds \ {kind}
    PROVE  Fixed(other) /\ Still(other)
<1>1. Fixed(other)
  <2>1. CASE request' = request
    BY <2>1 DEF Fixed
  <2>2. CASE WritesOne(kind)
    <3>1. PICK p \in Proposals : Others(p) /\ (Of(p, kind) \/ (request[p] = None /\ Of(p, kind)'))
      BY <2>2 DEF WritesOne
    <3>2. ~Of(p, other) /\ ~Of(p, other)'
      <4>1. RowStep(p)
        BY DEF RowsStep
      <4>2. request[p] # None => request'[p].kind = request[p].kind
        BY <4>1, RequestKept
      <4> QED
        BY <3>1, <4>2 DEF Of
    <3> QED
      BY <3>1, <3>2 DEF Fixed, Others
  <2> QED
    BY <2>1, <2>2 DEF StepOf
<1>2. Still(other)
  <2>1. LabelsOf(other) \cap ({"idle", "link"} \cup LabelsOf(kind)) = {}
    BY DEF LabelsOf, Kinds, Locked
  <2> QED
    BY <2>1 DEF StepOf, MovesOne, Still
<1> QED
  BY <1>1, <1>2

\* A row written in place, or filed, is one request of its queue.
LEMMA WritesOf ==
    ASSUME Typed, NEW p \in Proposals, NEW kind, NEW row, Of(p, kind),
           request' = [request EXCEPT ![p] = row]
    PROVE  WritesOne(kind)
<1>1. Others(p)
  BY DEF Others, Typed, Tables
<1> QED
  BY <1>1 DEF WritesOne

LEMMA FilesOf ==
    ASSUME Typed, NEW p \in Proposals, NEW kind, NEW row, row # None, row.kind = kind,
           File(p, row)
    PROVE  WritesOne(kind)
BY DEF File, WritesOne, Others, Of, Typed, Tables

\* A session moves from one label to another, or edits its locals.
LEMMA MovesOf ==
    ASSUME Typed, NEW s \in Sessions, NEW kind, NEW label, label \in {"idle", "link"} \cup LabelsOf(kind),
           pc[s] \in {"idle", "link"} \cup LabelsOf(kind),
           \/ pc' = pc
           \/ pc' = [pc EXCEPT ![s] = label],
           \/ job' = job
           \/ \E work : job' = [job EXCEPT ![s] = work]
    PROVE  MovesOne(kind)
<1>1. \A t \in Sessions \ {s} : pc'[t] = pc[t] /\ job'[t] = job[t]
  BY DEF Typed, Tables
<1>2. pc'[s] \in {"idle", "link"} \cup LabelsOf(kind)
  BY DEF Typed, Tables
<1> QED
  BY <1>1, <1>2 DEF MovesOne

\* A session that starts or ends a program stays within its queue.
LEMMA StartsOf ==
    ASSUME Typed, NEW s \in Sessions, NEW kind, NEW label \in {"link"} \cup LabelsOf(kind),
           NEW work, Start(s, label, work)
    PROVE  MovesOne(kind)
<1>1. /\ pc[s] = "idle" /\ pc' = [pc EXCEPT ![s] = label]
      /\ job' = [job EXCEPT ![s] = work]
  BY DEF Start, Goto
<1> QED
  BY <1>1, MovesOf

LEMMA EndsOf ==
    ASSUME Typed, NEW s \in Sessions, NEW kind, pc[s] \in {"link"} \cup LabelsOf(kind), End(s)
    PROVE  MovesOne(kind)
<1>1. /\ pc' = [pc EXCEPT ![s] = "idle"] /\ job' = [job EXCEPT ![s] = None]
  BY DEF End, Goto
<1> QED
  BY <1>1, MovesOf

\* The transitions that the queues share.
LEMMA SharedWrites ==
    ASSUME Typed, NEW p \in Proposals, NEW kind, NEW a, NEW pl,
           \/ Progress(a, p, kind) \/ SendBack(a, p, kind) \/ Revise(p, kind, pl)
           \/ Resubmit(p, kind) \/ Withdraw(p, kind)
           \/ Decides(a, p, kind) /\ Applied(a, p)
    PROVE  WritesOne(kind)
<1>1. Of(p, kind) /\ \E row : request' = [request EXCEPT ![p] = row]
  BY DEF Progress, SendBack, Revise, Resubmit, Withdraw, Decides, MayApprove, Applied, Is, Of
<1> QED
  BY <1>1, WritesOf

\* The link of a review is a step of the queue of its request.
LEMMA LinkStep ==
    ASSUME Typed, NEW s \in Sessions, NEW kind, Link(s, kind)
    PROVE  StepOf(kind)
<1>1. /\ pc[s] = "link" /\ request[job[s].p].kind = kind /\ End(s)
      /\ \E row : request' = [request EXCEPT ![job[s].p] = row]
  BY DEF Link
<1>2. job[s].p \in Proposals /\ Of(job[s].p, kind)
  BY <1>1 DEF Typed, JobsTyped, JobTyped, OnRequest, Of
<1> QED
  BY <1>1, <1>2, WritesOf, EndsOf DEF StepOf

\* The four queues, each within itself.
LEMMA MoneyStep == ASSUME Typed, HeldReady, MoneyNext PROVE StepOf("money")
<1> USE DEF LabelsOf
<1>1. ASSUME NEW s \in Sessions, NEW a \in Admins, NEW p \in Proposals,
             ApplyFund(s, a, p) \/ ApplyFirstFund(s, a, p) \/ ApplyAdjustment(s, a, p)
      PROVE  StepOf("money")
  <2>1. /\ Decides(a, p, "money") /\ Applied(a, p)
        /\ Start(s, "link", [p |-> p]) \/ Start(s, "post", [p |-> p])
    BY <1>1 DEF ApplyFund, ApplyFirstFund, ApplyAdjustment, Runs
  <2> QED
    BY <2>1, SharedWrites, StartsOf DEF StepOf
<1>2. ASSUME NEW s \in Sessions, NEW a \in Admins, NEW p \in Proposals, ReadWithdrawal(s, a, p)
      PROVE  StepOf("money")
  <2>1. request' = request /\ \E work : Start(s, "withdraw", work)
    BY <1>2 DEF ReadWithdrawal
  <2> QED
    BY <2>1, StartsOf DEF StepOf
<1>3. ASSUME NEW s \in Sessions, PostFirstFund(s)
      PROVE  StepOf("money")
  BY <1>3, MovesOf DEF PostFirstFund, Goto, StepOf
<1>4. ASSUME NEW s \in Sessions, RefuseFirstFund(s) \/ RefuseWithdrawal(s)
      PROVE  StepOf("money")
  BY <1>4, EndsOf DEF RefuseFirstFund, RefuseWithdrawal, StepOf
<1>5. ASSUME NEW s \in Sessions, PostWithdrawal(s)
      PROVE  StepOf("money")
  <2>1. /\ pc[s] = "withdraw" /\ pc' = [pc EXCEPT ![s] = "link"] /\ job' = job
        /\ \E row : request' = [request EXCEPT ![job[s].p] = row]
    BY <1>5 DEF PostWithdrawal, Goto, Applied
  <2>2. job[s].p \in Proposals /\ Of(job[s].p, "money")
    BY <1>5, <2>1 DEF Typed, JobsTyped, JobTyped, OnRequest, HeldReady, ReadyToApply, Of
  <2> QED
    BY <2>1, <2>2, MovesOf, WritesOf DEF StepOf
<1>6. ASSUME NEW p \in Proposals,
             \/ \E a \in Admins : ApproveMoney(a, p) \/ RequestMoneyChanges(a, p)
             \/ ReviseMoney(p) \/ ResubmitMoney(p) \/ WithdrawMoney(p)
      PROVE  StepOf("money")
  <2>1. pc' = pc /\ job' = job
    BY <1>6 DEF ApproveMoney, Progress, RequestMoneyChanges, SendBack, ReviseMoney, Revise,
                ResubmitMoney, Resubmit, WithdrawMoney, Withdraw
  <2>2. \E a, pl : \/ Progress(a, p, "money") \/ SendBack(a, p, "money") \/ Revise(p, "money", pl)
                   \/ Resubmit(p, "money") \/ Withdraw(p, "money")
    BY <1>6 DEF ApproveMoney, RequestMoneyChanges, ReviseMoney, ResubmitMoney, WithdrawMoney
  <2> QED
    BY <2>1, <2>2, SharedWrites DEF StepOf
<1>7. ASSUME NEW a \in Admins, NEW p \in Proposals, CreateBankMirror(a, p)
      PROVE  StepOf("money")
  BY <1>7, SharedWrites DEF CreateBankMirror, Runs, StepOf
<1>8. ASSUME NEW a \in Admins, NEW p \in Proposals, ProposeMoney(a, p)
      PROVE  StepOf("money")
  <2>1. PICK pl \in MoneyOffers : File(p, Filed("money", a, pl, None, Required(pl.op)))
    BY <1>8 DEF ProposeMoney
  <2> DEFINE row == Filed("money", a, pl, None, Required(pl.op))
  <2>2. row \in RequestOf("money")
    BY FiledRow, RequiredType DEF Locked, OffersOf, TargetOf
  <2>3. row # None /\ row.kind = "money"
    BY <2>2, RowShape DEF Locked
  <2> HIDE DEF row
  <2> QED
    BY <1>8, <2>1, <2>3, FilesOf DEF ProposeMoney, StepOf, row
<1>9. ASSUME NEW s \in Sessions, LinkMoney(s)
      PROVE  StepOf("money")
  BY <1>9, LinkStep DEF LinkMoney
<1>10. CASE RenameBankMirror
  BY <1>10 DEF RenameBankMirror, threads, StepOf
<1> QED
  BY <1>1, <1>2, <1>3, <1>4, <1>5, <1>6, <1>7, <1>8, <1>9, <1>10 DEF MoneyNext

-----------------------------------------------------------------------------
(* What the queues have done                                               *)

Ledgered == txn \in [Keys -> Transaction \cup {None}] /\ book \in [Accounts -> Row]

\* What session s knows of the money request it is posting.
MoneyWork(s) ==
    LET p == job[s].p
        pl == request[p].payload
    IN  /\ pc[s] = "post" => Of(p, "money") /\ pl.op = "fund" /\ p \in bare
        /\ pc[s] = "withdraw" =>
              /\ pl.op = "withdraw" /\ pl.mirror \in Mirrors
              /\ job[s].amount \in Int /\ job[s].amount > 0 /\ pl.amount \in {job[s].amount, All}

MoneyInv ==
    /\ Ledgered /\ MoneyTypeOK /\ AppliedMoneyMoved
    /\ \A p \in Proposals : Of(p, "money") => ValidPayload(request[p].payload)
    /\ \A s \in Sessions : MoneyWork(s)

\* A user that x has created.
HasCreated(x) == \E u \in users : u.by = x

\* A session of the admins or of a partner, on a user to come.
OnUser(s) ==
    /\ pc[s] = "user" /\ job[s].payload.op = "update" => job[s].payload.target \in Known
    /\ pc[s] \in {"partner", "record"} =>
          job[s].key \in PartnerKeys /\ job[s].with \in ApiKeys /\ apiKeys[job[s].with] # None
    /\ pc[s] = "record" => HasCreated(job[s].key)

UsersFit ==
    /\ users \subseteq User
    /\ \A u, v \in users : u # v => u.identifiers \cap v.identifiers = {}
    /\ \A u, v \in users : u.by # None /\ u.by = v.by => u = v
    /\ \A u \in users : u.by \in PartnerKeys =>
          /\ u.verified \subseteq AccountNumbers /\ lastUsed # {}
          /\ PartnerOffers[u.by] \subseteq u.identifiers

KeysFit ==
    /\ recorded \in ExternalUserCreation /\ apiKeys \in ApiKey /\ lastUsed \subseteq ApiKeys
    /\ \A i \in lastUsed : apiKeys[i] # None
    /\ \A k \in recorded : HasCreated(k)

\* A creation has its user when it is applied, an update somebody to edit.
RequestFits(p) ==
    /\ HasCreated(p) <=> /\ Of(p, "user") /\ request[p].payload.op = "create"
                        /\ request[p].status = "APPLIED"
    /\ Of(p, "user") /\ request[p].payload.op = "update" => request[p].payload.target \in Known

UserInv ==
    /\ UsersFit /\ KeysFit
    /\ \A p \in Proposals : RequestFits(p)
    /\ \A s \in Sessions : OnUser(s)

\* The rows of batch p that may be paid.
Accepted(p) == {i \in DOMAIN request[p].rows : request[p].rows[i] # "rejected"}

Paying(s) == pc[s] \in {"row", "pay"}

\* What session s knows of the batch it works on.
OnRows(s) ==
    LET p == job[s].p
        j == job[s]
    IN  /\ pc[s] = "decide" => j.todo = {} /\ DOMAIN j.staged = {} /\ j.fresh
        /\ Paying(s) =>
              /\ j.todo \subseteq Accepted(p) /\ DOMAIN j.staged \subseteq Accepted(p)
              /\ \A i \in DOMAIN j.staged : j.staged[i] = "posted" => Paid(p, i)
        /\ pc[s] = "pay" => j.row \in j.todo

\* The rows of batch p, with session s in the midst of them.
MidWay(s, p) ==
    LET j == job[s]
    IN  /\ j.todo \cup DOMAIN j.staged = Accepted(p) /\ j.todo \cap DOMAIN j.staged = {}
        /\ \A i \in j.todo : ~Paid(p, i)
        /\ \A i \in DOMAIN j.staged : j.staged[i] = IF Paid(p, i) THEN "posted" ELSE "failed"

\* A batch that no session has begun to pay, and one that was applied.
Untouched(p) ==
    /\ request[p].status \in {"PENDING", "REJECTED"} => \A i \in Accepted(p) : ~Paid(p, i)
    /\ request[p].status = "PENDING" => \A i \in Accepted(p) : request[p].rows[i] = "valid"

Settled(p) ==
    request[p].status \in {"APPLIED", "APPLIED_PARTIAL"} =>
        /\ \A i \in Accepted(p) : request[p].rows[i] = IF Paid(p, i) THEN "posted" ELSE "failed"
        /\ request[p].status = "APPLIED" <=> \A i \in Accepted(p) : Paid(p, i)

\* A batch nobody has disturbed is in the hands of one session at most.
Calm(p) ==
    /\ \A s, t \in AtWork(p) : s = t
    /\ AtWork(p) # {} => request[p].status = "PENDING"
    /\ \A s \in AtWork(p) : Paying(s) => MidWay(s, p)
    /\ (\A s \in AtWork(p) : ~Paying(s)) => Untouched(p)
    /\ Settled(p)

PaidAsTold(p) ==
    \A i \in DOMAIN request[p].rows :
        /\ request[p].rows[i] = "posted" => Paid(p, i)
        /\ request[p].rows[i] = "rejected" => ~Paid(p, i)

BatchFits(p) ==
    /\ ~Of(p, "batch") => \A i \in RowNumbers : ~Paid(p, i)
    /\ Of(p, "batch") =>
          /\ DOMAIN request[p].rows = DOMAIN request[p].payload.rows
          /\ PaidAsTold(p)
          /\ p \notin disturbed => Calm(p)

BatchInv ==
    /\ Ledgered /\ disturbed \subseteq Proposals
    /\ \A p \in Proposals : BatchFits(p)
    /\ \A s \in Sessions : OnRows(s)

\* A session that will replace a schedule has read its scope, and if nobody
\* else is at work there, what it has read is there.
HasRead(s) ==
    LET sc == request[job[s].p].payload.scope
    IN  /\ \A r \in job[s].old : r.scope = sc
        /\ sc \notin stacked => job[s].old = InScope(sc)

ScopeInv ==
    /\ Stacked(request) \subseteq stacked
    /\ \A s \in Sessions : pc[s] = "replace" =>
          /\ HasRead(s)
          /\ request[job[s].p].payload.scope \notin stacked =>
                request[job[s].p].payload.scope \notin Filling

JobsInv ==
    \A s \in Sessions :
        /\ IF pc[s] = "idle" THEN job[s] = None ELSE job[s] \in Work
        /\ pc[s] = "bands" => job[s] \in [p: Proposals, next: Nat]
        /\ pc[s] \in {"decide", "row", "pay"} => job[s] \in BatchWork

LEMMA UserStep == ASSUME Typed, UserNext PROVE StepOf("user")
<1> USE DEF LabelsOf
<1>1. ASSUME NEW s \in Sessions, NEW a \in Admins, NEW p \in Proposals,
             ApplyCreate(s, a, p) \/ ApplyUpdate(s, a, p)
      PROVE  StepOf("user")
  <2>1. Decides(a, p, "user") /\ Applied(a, p) /\ Start(s, "link", [p |-> p])
    BY <1>1 DEF ApplyCreate, ApplyUpdate
  <2> QED
    BY <2>1, SharedWrites, StartsOf DEF StepOf
<1>2. ASSUME NEW s \in Sessions,
             \/ \E a \in Admins : CheckUser(s, a)
             \/ \E k \in PartnerKeys, i \in ApiKeys : ReceivePartner(s, k, i)
      PROVE  StepOf("user")
  <2>1. request' = request /\ \E work : Start(s, "user", work) \/ Start(s, "partner", work)
    BY <1>2 DEF CheckUser, ReceivePartner
  <2> QED
    BY <2>1, StartsOf DEF StepOf
<1>3. ASSUME NEW s \in Sessions, CreatePartnerUser(s)
      PROVE  StepOf("user")
  BY <1>3, MovesOf DEF CreatePartnerUser, Goto, StepOf
<1>4. ASSUME NEW s \in Sessions, RefusePartner(s) \/ RecordKey(s)
      PROVE  StepOf("user")
  BY <1>4, EndsOf DEF RefusePartner, RecordKey, StepOf
<1>5. ASSUME NEW s \in Sessions, NEW p \in Proposals, ProposeUser(s, p)
      PROVE  StepOf("user")
  <2> DEFINE row == Filed("user", job[s].admin, job[s].payload, None, 1)
  <2>1. pc[s] = "user" /\ File(p, row) /\ End(s)
    BY <1>5 DEF ProposeUser
  <2>2. job[s].admin \in Admins /\ job[s].payload \in OffersOf("user")
    BY <2>1 DEF Typed, JobsTyped, JobTyped, OffersOf
  <2>3. row \in RequestOf("user")
    BY <2>2, FiledRow DEF Locked, TargetOf
  <2>4. row # None /\ row.kind = "user"
    BY <2>3, RowShape DEF Locked
  <2> HIDE DEF row
  <2> QED
    BY <2>1, <2>4, FilesOf, EndsOf DEF StepOf
<1>6. ASSUME NEW p \in Proposals,
             \/ \E a \in Admins : RequestUserChanges(a, p)
             \/ ReviseUser(p) \/ ResubmitUser(p) \/ WithdrawUser(p)
      PROVE  StepOf("user")
  <2>1. pc' = pc /\ job' = job
    BY <1>6 DEF RequestUserChanges, SendBack, ReviseUser, Revise, ResubmitUser, Resubmit,
                WithdrawUser, Withdraw
  <2>2. \E a, pl : \/ SendBack(a, p, "user") \/ Revise(p, "user", pl)
                   \/ Resubmit(p, "user") \/ Withdraw(p, "user")
    BY <1>6 DEF RequestUserChanges, ReviseUser, ResubmitUser, WithdrawUser
  <2> QED
    BY <2>1, <2>2, SharedWrites DEF StepOf
<1>7. ASSUME NEW s \in Sessions, LinkUser(s)
      PROVE  StepOf("user")
  BY <1>7, LinkStep DEF LinkUser
<1>8. ASSUME \/ \E i \in ApiKeys : CreateApiKey(i) \/ RevokeApiKey(i)
             \/ CreateDirectly
             \/ \E u \in users : \E i : AddIdentifier(u, i) \/ VerifyIdentifier(u, i)
      PROVE  StepOf("user")
  BY <1>8
     DEF CreateApiKey, RevokeApiKey, CreateDirectly, AddIdentifier, VerifyIdentifier, threads, StepOf
<1> QED
  BY <1>1, <1>2, <1>3, <1>4, <1>5, <1>6, <1>7, <1>8 DEF UserNext

LEMMA ConfigStep == ASSUME Typed, HeldReady, ConfigNext PROVE StepOf("config")
<1> USE DEF LabelsOf
<1>1. ASSUME NEW s \in Sessions, NEW a \in Admins, NEW p \in Proposals, ApplyFirstBand(s, a, p)
      PROVE  StepOf("config")
  <2>1. /\ Decides(a, p, "config") /\ Applied(a, p)
        /\ (\E work : Start(s, "bands", work)) \/ (pc' = pc /\ job' = job)
    BY <1>1 DEF ApplyFirstBand
  <2> QED
    BY <2>1, SharedWrites, StartsOf DEF StepOf
<1>2. ASSUME NEW s \in Sessions,
             \/ \E a \in Admins : CheckConfig(s, a)
             \/ \E a \in Admins, p \in Proposals : ReadScope(s, a, p)
      PROVE  StepOf("config")
  <2>1. request' = request /\ \E work : Start(s, "config", work) \/ Start(s, "replace", work)
    BY <1>2 DEF CheckConfig, ReadScope
  <2> QED
    BY <2>1, StartsOf DEF StepOf
<1>3. ASSUME NEW s \in Sessions, NEW p \in Proposals, ProposeConfig(s, p)
      PROVE  StepOf("config")
  <2> DEFINE row == Filed("config", job[s].admin, job[s].payload, job[s].target, 1)
  <2>1. pc[s] = "config" /\ File(p, row) /\ End(s)
    BY <1>3 DEF ProposeConfig
  <2>2. /\ job[s].admin \in Admins /\ job[s].payload \in OffersOf("config")
        /\ job[s].target \in TargetOf("config")
    BY <2>1 DEF Typed, JobsTyped, JobTyped, OffersOf
  <2>3. row \in RequestOf("config")
    BY <2>2, FiledRow DEF Locked
  <2>4. row # None /\ row.kind = "config"
    BY <2>3, RowShape DEF Locked
  <2> HIDE DEF row
  <2> QED
    BY <2>1, <2>4, FilesOf, EndsOf DEF StepOf
<1>4. ASSUME NEW s \in Sessions, ApplyNextBand(s)
      PROVE  StepOf("config")
  <2>1. /\ pc[s] = "bands" /\ request' = request
        /\ End(s) \/ (pc' = pc /\ \E work : job' = [job EXCEPT ![s] = work])
    BY <1>4 DEF ApplyNextBand
  <2> QED
    BY <2>1, EndsOf, MovesOf DEF StepOf
<1>5. ASSUME NEW s \in Sessions, BandCollides(s)
      PROVE  StepOf("config")
  BY <1>5, EndsOf DEF BandCollides, StepOf
<1>6. ASSUME NEW s \in Sessions, ReplaceScope(s)
      PROVE  StepOf("config")
  <2>1. /\ pc[s] = "replace" /\ End(s)
        /\ \E row : request' = [request EXCEPT ![job[s].p] = row]
    BY <1>6 DEF ReplaceScope, Applied
  <2>2. job[s].p \in Proposals /\ Of(job[s].p, "config")
    BY <2>1 DEF Typed, JobsTyped, JobTyped, OnRequest, HeldReady, ReadyToApply, Of
  <2> QED
    BY <2>1, <2>2, EndsOf, WritesOf DEF StepOf
<1>7. ASSUME NEW p \in Proposals,
             \/ \E a \in Admins : RequestConfigChanges(a, p)
             \/ ReviseConfig(p) \/ ResubmitConfig(p) \/ WithdrawConfig(p)
      PROVE  StepOf("config")
  <2>1. pc' = pc /\ job' = job
    BY <1>7 DEF RequestConfigChanges, SendBack, ReviseConfig, Revise, ResubmitConfig, Resubmit,
                WithdrawConfig, Withdraw
  <2>2. \E a, pl : \/ SendBack(a, p, "config") \/ Revise(p, "config", pl)
                   \/ Resubmit(p, "config") \/ Withdraw(p, "config")
    BY <1>7 DEF RequestConfigChanges, ReviseConfig, ResubmitConfig, WithdrawConfig
  <2> QED
    BY <2>1, <2>2, SharedWrites DEF StepOf
<1> QED
  BY <1>1, <1>2, <1>3, <1>4, <1>5, <1>6, <1>7 DEF ConfigNext

LEMMA BatchStep == ASSUME Typed, BatchNext PROVE StepOf("batch")
<1> USE DEF LabelsOf
<1>1. ASSUME NEW s \in Sessions, NEW a \in Admins, NEW p \in Proposals,
             OpenBatch(s, a, p) \/ OpenRejection(s, a, p)
      PROVE  StepOf("batch")
  <2>1. request' = request /\ \E work : Start(s, "decide", work) \/ Start(s, "reject", work)
    BY <1>1 DEF OpenBatch, OpenRejection
  <2> QED
    BY <2>1, StartsOf DEF StepOf
<1>2. ASSUME NEW s \in Sessions, SecondReview(s) \/ PayRowConflict(s)
      PROVE  StepOf("batch")
  <2>1. pc[s] \in {"decide", "reject", "pay"} /\ End(s) /\ request' = request
    BY <1>2 DEF SecondReview, PayRowConflict
  <2> QED
    BY <2>1, EndsOf DEF StepOf
<1>3. ASSUME NEW s \in Sessions, RejectBatch(s) \/ RecordApproval(s) \/ FinishBatch(s)
      PROVE  StepOf("batch")
  <2>1. /\ pc[s] \in {"decide", "reject", "row"} /\ End(s)
        /\ \E row : request' = [request EXCEPT ![job[s].p] = row]
    BY <1>3 DEF RejectBatch, RecordApproval, FinishBatch
  <2>2. job[s].p \in Proposals /\ Of(job[s].p, "batch")
    BY <2>1, BatchSession, BatchEdits DEF BatchAt, Of
  <2> QED
    BY <2>1, <2>2, EndsOf, WritesOf DEF StepOf
<1>4. ASSUME NEW s \in Sessions, ReadRows(s) \/ LookUpRow(s) \/ FailRow(s)
      PROVE  StepOf("batch")
  <2>1. /\ pc[s] \in {"decide", "row", "pay"} /\ request' = request
        /\ pc' = pc \/ pc' = [pc EXCEPT ![s] = "row"] \/ pc' = [pc EXCEPT ![s] = "pay"]
        /\ \E work : job' = [job EXCEPT ![s] = work]
    BY <1>4 DEF ReadRows, LookUpRow, FailRow, Goto
  <2> QED
    BY <2>1, MovesOf DEF StepOf
<1>5. ASSUME NEW s \in Sessions, PayRow(s)
      PROVE  StepOf("batch")
  <2>1. /\ pc[s] = "pay" /\ pc' = [pc EXCEPT ![s] = "row"]
        /\ \E work : job' = [job EXCEPT ![s] = work]
        /\ \E row : request' = [request EXCEPT ![job[s].p] = row]
    BY <1>5 DEF PayRow, Goto
  <2>2. job[s].p \in Proposals /\ Of(job[s].p, "batch")
    BY <2>1, BatchSession, BatchEdits DEF BatchAt, Of
  <2> QED
    BY <2>1, <2>2, MovesOf, WritesOf DEF StepOf
<1>6. ASSUME NEW a \in Admins, NEW p \in Proposals, UploadBatch(a, p)
      PROVE  StepOf("batch")
  <2>1. pc' = pc /\ job' = job
    BY <1>6 DEF UploadBatch
  <2>2. PICK b \in BatchOffers :
            File(p, [Filed("batch", a, b, None, Required(Operation[b.op]))
                         EXCEPT !.rows = ValidateRows(b.rows)])
    BY <1>6 DEF UploadBatch
  <2> DEFINE row == [Filed("batch", a, b, None, Required(Operation[b.op]))
                         EXCEPT !.rows = ValidateRows(b.rows)]
  <2>3. row # None /\ row.kind = "batch"
    BY UploadedRow, BatchEdits
  <2> HIDE DEF row
  <2> QED
    BY <2>1, <2>2, <2>3, FilesOf DEF StepOf, row
<1> QED
  BY <1>1, <1>2, <1>3, <1>4, <1>5, <1>6 DEF BatchNext

-----------------------------------------------------------------------------
(* Postings                                                                *)

\* A transfer is a posting of the ledger, under the key it is given.
LEMMA TransferType ==
    ASSUME NEW key \in Keys, NEW from, NEW to, NEW n \in Int, NEW exempt \in BOOLEAN
    PROVE  /\ Transfer(key, from, to, n, exempt) \in Request
           /\ Transfer(key, from, to, n, exempt).key = key
BY DEF Transfer, Request

\* What a posting leaves in the tables.
LEMMA PostEffect ==
    ASSUME Ledgered, NEW r \in Request, Post(r)
    PROVE  /\ Ledgered' /\ txn[r.key] = None
           /\ txn'[r.key] # None /\ txn'[r.key].req = r
           /\ \A k \in Keys \ {r.key} : txn'[k] = txn[k]
<1>1. /\ txn[r.key] = None /\ txn' = [txn EXCEPT ![r.key] = [req |-> r, status |-> r.status]]
      /\ book' = [a \in Accounts |-> Plus(book[a], EntryDelta(r, a))]
  BY DEF Post, AbsPost, Move
<1>2. r.key \in Keys /\ r.status \in Statuses /\ \A a \in Accounts : r.delta[a] \in Int
  BY DEF Request, Statuses
<1>3. [req |-> r, status |-> r.status] \in Transaction
  BY <1>2 DEF Transaction
<1>4. [req |-> r, status |-> r.status] # None
  BY <1>3, ApprovalsAssumption
<1>5. txn' \in [Keys -> Transaction \cup {None}]
  BY <1>1, <1>2, <1>3 DEF Ledgered
<1>6. \A a \in Accounts : Plus(book[a], EntryDelta(r, a)) \in Row
  BY <1>2 DEF Ledgered, Plus, EntryDelta, Row
<1>7. book' \in [Accounts -> Row]
  BY <1>1, <1>6
<1>8. txn'[r.key] = [req |-> r, status |-> r.status] /\ \A k \in Keys \ {r.key} : txn'[k] = txn[k]
  BY <1>1, <1>2 DEF Ledgered
<1> QED
  BY <1>1, <1>4, <1>5, <1>7, <1>8 DEF Ledgered

\* The keys of the queues are apart.
LEMMA KeysApart ==
    /\ \A p, q : MoneyKey(p) = MoneyKey(q) => p = q
    /\ \A p, q, i : MoneyKey(p) # RowKey(q, i)
    /\ \A p, q, i, j : RowKey(p, i) = RowKey(q, j) => p = q /\ i = j
BY DEF MoneyKey, RowKey

\* The three postings of a money request.
LEMMA MoneyPostings ==
    ASSUME Typed, NEW p \in Proposals, Of(p, "money"), NEW n \in Int
    PROVE  LET pl == request[p].payload
           IN  /\ pl.op = "fund" => Fund(p, pl) \in Request /\ Fund(p, pl).key = MoneyKey(p)
               /\ pl.op = "adjust" => Adjustment(p, pl) \in Request /\ Adjustment(p, pl).key = MoneyKey(p)
               /\ Withdrawal(p, pl, n) \in Request /\ Withdrawal(p, pl, n).key = MoneyKey(p)
<1> DEFINE pl == request[p].payload
<1>1. pl \in MoneyOffers
  BY RowTyped DEF Of, Locked, OffersOf
<1>2. MoneyKey(p) \in Keys
  BY ApprovalsAssumption
<1>3. pl.op \in {"fund", "adjust"} => pl.amount \in Int
  BY <1>1, MoneyAssumption
<1> HIDE DEF pl
<1>4. pl.op = "fund" => Fund(p, pl) \in Request /\ Fund(p, pl).key = MoneyKey(p)
  BY <1>2, <1>3, TransferType DEF Fund
<1>5. pl.op = "adjust" => Adjustment(p, pl) \in Request /\ Adjustment(p, pl).key = MoneyKey(p)
  <2>1. ASSUME pl.op = "adjust" PROVE -pl.amount \in Int
    BY <1>3, <2>1
  <2> QED
    BY <1>2, <1>3, <2>1, TransferType DEF Adjustment
<1>6. Withdrawal(p, pl, n) \in Request /\ Withdrawal(p, pl, n).key = MoneyKey(p)
  BY <1>2, TransferType DEF Withdrawal
<1> QED
  BY <1>4, <1>5, <1>6 DEF pl

\* A withdrawal is the posting of its request.
LEMMA WithdrawalFits ==
    ASSUME Typed, NEW p \in Proposals, Of(p, "money"), request[p].payload.op = "withdraw",
           request[p].payload.mirror \in Mirrors, NEW n \in Int, n > 0,
           request[p].payload.amount \in {n, All}
    PROVE  IsItsPosting(p, request[p].payload, Withdrawal(p, request[p].payload, n))
<1> DEFINE pl == request[p].payload
           r == Withdrawal(p, pl, n)
<1>1. pl \in MoneyOffers
  BY RowTyped DEF Of, Locked, OffersOf
<1>2. pl.account \in Guarded /\ pl.mirror \in Accounts \ Guarded
  BY <1>1, MoneyAssumption
<1>3. r.delta[pl.mirror] = n
  BY <1>2 DEF Withdrawal, Transfer
<1> QED
  BY <1>3 DEF IsItsPosting

-----------------------------------------------------------------------------
(* Money operations                                                        *)

MoneyMoved(p) ==
    LET t == txn[MoneyKey(p)]
        made == {m \in DOMAIN mirrors : mirrors[m].by = p}
        pl == request[p].payload
    IN  IF ~Of(p, "money") \/ request[p].status # "APPLIED"
        THEN t = None /\ made = {}
        ELSE IF pl.op = "mirror"
             THEN t = None /\ Cardinality(made) = 1
             ELSE /\ made = {}
                  /\ t = None => p \in bare
                  /\ t # None => IsItsPosting(p, pl, t.req)

\* What AppliedMoneyMoved says, request by request.
LEMMA MovedEach == AppliedMoneyMoved <=> \A p \in Proposals : MoneyMoved(p)
BY DEF AppliedMoneyMoved, MoneyMoved, Of

Made(p) == {m \in DOMAIN mirrors : mirrors[m].by = p}

PayloadsValid == \A p \in Proposals : Of(p, "money") => ValidPayload(request[p].payload)

\* The request p is not applied by this step.
NotNow(p, kind) ==
    Of(p, kind)' /\ request'[p].status = "APPLIED" => Of(p, kind) /\ request[p].status = "APPLIED"

\* A request that this step does not apply has moved what it had.
LEMMA MovedKept ==
    ASSUME Typed, NEW p \in Proposals, RowStep(p), MoneyMoved(p), NotNow(p, "money"),
           bare \subseteq bare', txn'[MoneyKey(p)] = txn[MoneyKey(p)], Made(p)' = Made(p)
    PROVE  MoneyMoved(p)'
<1>1. CASE Of(p, "money") /\ request[p].status = "APPLIED"
  <2>1. /\ Of(p, "money")' /\ request'[p].status = "APPLIED"
        /\ request'[p].payload = request[p].payload
    BY <1>1, RequestKept DEF Of, Locked
  <2> QED
    BY <1>1, <2>1 DEF MoneyMoved, Made
<1>2. CASE ~(Of(p, "money") /\ request[p].status = "APPLIED")
  <2>1. ~(Of(p, "money")' /\ request'[p].status = "APPLIED")
    BY <1>2 DEF NotNow
  <2> QED
    BY <1>2, <2>1 DEF MoneyMoved, Made
<1> QED
  BY <1>1, <1>2

\* A session that does not move knows what it knew.
LEMMA MoneyWorkKept ==
    ASSUME Typed, HeldReady, RowsStep, bare \subseteq bare', NEW s \in Sessions, MoneyWork(s),
           pc'[s] = pc[s], job'[s] = job[s]
    PROVE  MoneyWork(s)'
<1> DEFINE p == job[s].p
<1>1. CASE pc[s] = "post"
  <2>1. p \in Proposals /\ Of(p, "money") /\ request[p].status = "APPLIED"
    BY <1>1 DEF Typed, JobsTyped, JobTyped, OnRequest, MoneyWork
  <2>2. Of(p, "money")' /\ request'[p].payload = request[p].payload
    BY <2>1, RequestKept DEF Of, Locked, RowsStep
  <2> QED
    BY <1>1, <2>2 DEF MoneyWork
<1>2. CASE pc[s] = "withdraw"
  <2>1. request'[p] = request[p]
    BY <1>2, HeldKept
  <2> QED
    BY <1>2, <2>1 DEF MoneyWork
<1> QED
  BY <1>1, <1>2 DEF MoneyWork

\* The steps of the other queues.
LEMMA MoneyElsewhere ==
    ASSUME Typed, HeldReady, MoneyInv, Fixed("money"), Still("money"), UNCHANGED moneyVars,
           Ledgered', \A p \in Proposals : txn'[MoneyKey(p)] = txn[MoneyKey(p)]
    PROVE  MoneyInv'
<1>1. MoneyTypeOK'
  BY DEF MoneyInv, MoneyTypeOK, moneyVars
<1>2. ASSUME NEW p \in Proposals PROVE MoneyMoved(p)'
  <2>1. MoneyMoved(p)
    BY MovedEach DEF MoneyInv
  <2>2. Of(p, "money")' <=> Of(p, "money")
    BY DEF Fixed, Of
  <2>3. Of(p, "money") => request'[p] = request[p]
    BY DEF Fixed
  <2> QED
    BY <2>1, <2>2, <2>3 DEF MoneyMoved, moneyVars
<1>3. PayloadsValid'
  <2> SUFFICES ASSUME NEW p \in Proposals, Of(p, "money")' PROVE ValidPayload(request'[p].payload)
    BY DEF PayloadsValid, ValidPayload
  <2>1. request'[p] = request[p] /\ Of(p, "money")
    BY DEF Fixed, Of
  <2> QED
    BY <2>1 DEF MoneyInv
<1>4. ASSUME NEW s \in Sessions PROVE MoneyWork(s)'
  <2>1. CASE pc'[s] \in {"post", "withdraw"}
    <3>1. pc'[s] = pc[s] /\ job'[s] = job[s]
      BY <2>1 DEF Still, LabelsOf
    <3>2. MoneyWork(s)
      BY DEF MoneyInv
    <3>3. job[s].p \in Proposals /\ Of(job[s].p, "money")
      BY <2>1, <3>1, <3>2
         DEF Typed, JobsTyped, JobTyped, OnRequest, MoneyWork, HeldReady, ReadyToApply, Of
    <3>4. request'[job[s].p] = request[job[s].p]
      BY <3>3 DEF Fixed
    <3> QED
      BY <3>1, <3>2, <3>4 DEF MoneyWork, Of, moneyVars
  <2>2. CASE pc'[s] \notin {"post", "withdraw"}
    BY <2>2 DEF MoneyWork
  <2> QED
    BY <2>1, <2>2
<1>5. AppliedMoneyMoved'
  BY <1>2 DEF AppliedMoneyMoved, MoneyMoved, Of
<1> QED
  BY <1>1, <1>3, <1>4, <1>5 DEF MoneyInv, PayloadsValid

\* The transitions that apply nothing.
LEMMA SharedQuiet ==
    ASSUME Typed, NEW p \in Proposals, NEW kind \in Locked, NEW a, NEW pl,
           \/ Progress(a, p, kind) \/ SendBack(a, p, kind) \/ Revise(p, kind, pl)
           \/ Resubmit(p, kind) \/ Withdraw(p, kind)
    PROVE  /\ Of(p, kind) /\ Others(p) /\ request[p].status \in Open
           /\ Of(p, kind)' => request'[p].status # "APPLIED"
           /\ request'[p].status \in Open => request'[p].target = request[p].target
           /\ request'[p].payload \in {request[p].payload, pl}
           /\ ~Revise(p, kind, pl) => request'[p].payload = request[p].payload
<1>1. Of(p, kind) /\ request[p].status \in Open
  BY DEF Progress, SendBack, Revise, Resubmit, Withdraw, MayApprove, Is, Open, Of
<1>2. /\ request[p] \in RequestOf(kind)
      /\ DOMAIN request[p] = {"kind", "maker", "payload", "target", "status", "required",
                              "reviews", "linked", "rows"}
  BY <1>1, RowTyped, RowShape DEF Of
<1> DEFINE row == request[p]
<1>3. CASE Progress(a, p, kind)
  <2>1. Others(p) /\ request'[p] = Reviewed(a, "approved", p) /\ row.status = "PENDING"
    BY <1>3, OneRow DEF Progress, MayApprove, Is
  <2>2. /\ Reviewed(a, "approved", p).status = "PENDING"
        /\ Reviewed(a, "approved", p).payload = row.payload
        /\ Reviewed(a, "approved", p).target = row.target
    BY <1>2, <2>1 DEF Reviewed
  <2> QED
    BY <1>1, <2>1, <2>2
<1>4. CASE SendBack(a, p, kind)
  <2>1. Others(p) /\ request'[p] = [row EXCEPT !.status = "CHANGES_REQUESTED"]
    BY <1>4, OneRow DEF SendBack
  <2> QED
    BY <1>1, <1>2, <2>1
<1>5. CASE Revise(p, kind, pl)
  <2>1. /\ Others(p) /\ request'[p] = [row EXCEPT !.payload = pl]
        /\ row.status = "CHANGES_REQUESTED"
    BY <1>5, OneRow DEF Revise, Is
  <2> QED
    BY <1>1, <1>2, <1>5, <2>1
<1>6. CASE Resubmit(p, kind)
  <2>1. /\ Others(p)
        /\ request'[p] = [Reviewed(row.maker, "resubmitted", p) EXCEPT !.status = "PENDING"]
    BY <1>6, OneRow DEF Resubmit
  <2>2. /\ [Reviewed(row.maker, "resubmitted", p) EXCEPT !.status = "PENDING"].status = "PENDING"
        /\ [Reviewed(row.maker, "resubmitted", p) EXCEPT !.status = "PENDING"].payload = row.payload
        /\ [Reviewed(row.maker, "resubmitted", p) EXCEPT !.status = "PENDING"].target = row.target
    BY <1>2 DEF Reviewed
  <2> QED
    BY <1>1, <2>1, <2>2
<1>7. CASE Withdraw(p, kind)
  <2>1. Others(p) /\ request'[p] = [row EXCEPT !.status = "WITHDRAWN"]
    BY <1>7, OneRow DEF Withdraw
  <2> QED
    BY <1>1, <1>2, <2>1 DEF Open
<1> QED
  BY <1>3, <1>4, <1>5, <1>6, <1>7

\* A request that has been applied by now is what it was.
LEMMA LinkQuiet ==
    ASSUME Typed, NEW s \in Sessions, NEW kind \in {"money", "user"}, Link(s, kind)
    PROVE  /\ job[s].p \in Proposals /\ Of(job[s].p, kind) /\ Others(job[s].p)
           /\ request[job[s].p].status = "APPLIED"
           /\ request'[job[s].p].payload = request[job[s].p].payload
           /\ pc[s] = "link" /\ End(s)
<1> DEFINE p == job[s].p
<1>1. /\ pc[s] = "link" /\ request[p].kind = kind /\ End(s)
      /\ request' = [request EXCEPT ![p] = [request[p] EXCEPT !.linked = TRUE]]
  BY DEF Link
<1>2. p \in Proposals /\ Of(p, kind) /\ request[p].status = "APPLIED"
  BY <1>1 DEF Typed, JobsTyped, JobTyped, OnRequest, Of
<1>3. Others(p) /\ request'[p] = [request[p] EXCEPT !.linked = TRUE]
  BY <1>1, <1>2, OneRow
<1>4. DOMAIN request[p] = {"kind", "maker", "payload", "target", "status", "required",
                           "reviews", "linked", "rows"}
  BY <1>2, RowTyped, RowShape DEF Of, Locked
<1> QED
  BY <1>1, <1>2, <1>3, <1>4

\* A step that posts nothing and applies nothing.
LEMMA MoneyQuiet ==
    ASSUME Typed, HeldReady, RowsStep, MoneyInv, UNCHANGED <<absVars, floats, bare>>, MoneyTypeOK',
           \A p \in Proposals : NotNow(p, "money") /\ Made(p)' = Made(p),
           \A p \in Proposals : Of(p, "money")' =>
               ValidPayload(request'[p].payload)
                   \/ (Of(p, "money") /\ request'[p].payload = request[p].payload),
           \A s \in Sessions : \/ pc'[s] \notin {"post", "withdraw"}
                               \/ pc'[s] = pc[s] /\ job'[s] = job[s]
                               \/ MoneyWork(s)'
    PROVE  MoneyInv'
<1>1. ASSUME NEW p \in Proposals PROVE MoneyMoved(p)'
  <2>1. MoneyMoved(p) /\ txn'[MoneyKey(p)] = txn[MoneyKey(p)] /\ bare \subseteq bare'
    BY MovedEach DEF MoneyInv, absVars
  <2>2. RowStep(p)
    BY DEF RowsStep
  <2> QED
    BY <2>1, <2>2, MovedKept
<1>2. AppliedMoneyMoved'
  BY <1>1 DEF AppliedMoneyMoved, MoneyMoved, Of
<1>3. Ledgered'
  BY DEF MoneyInv, Ledgered, absVars
<1>4. PayloadsValid'
  <2> SUFFICES ASSUME NEW p \in Proposals, Of(p, "money")' PROVE ValidPayload(request'[p].payload)
    BY DEF PayloadsValid, ValidPayload
  <2> QED
    BY DEF MoneyInv
<1>5. ASSUME NEW s \in Sessions PROVE MoneyWork(s)'
  <2>1. CASE pc'[s] \notin {"post", "withdraw"}
    BY <2>1 DEF MoneyWork
  <2>2. CASE pc'[s] = pc[s] /\ job'[s] = job[s]
    BY <2>2, MoneyWorkKept DEF MoneyInv
  <2> QED
    BY <2>1, <2>2
<1> QED
  BY <1>2, <1>3, <1>4, <1>5 DEF MoneyInv, PayloadsValid

\* A request applied with its posting.
LEMMA MoneyPosts ==
    ASSUME Typed, HeldReady, RowsStep, MoneyInv, UNCHANGED moneyVars,
           NEW a, NEW p \in Proposals, ReadyToApply(a, p, "money"), Applied(a, p),
           NEW r \in Request, r.key = MoneyKey(p), Post(r),
           request[p].payload.op # "mirror", IsItsPosting(p, request[p].payload, r),
           \A s \in Sessions : \/ pc'[s] \notin {"post", "withdraw"}
                               \/ pc'[s] = pc[s] /\ job'[s] = job[s]
    PROVE  MoneyInv'
<1>1. /\ Ledgered' /\ txn'[r.key] # None /\ txn'[r.key].req = r
      /\ \A k \in Keys \ {r.key} : txn'[k] = txn[k]
  BY PostEffect DEF MoneyInv
<1>2. /\ Of(p, "money") /\ request[p].status = "PENDING"
      /\ Of(p, "money")' /\ request'[p].status = "APPLIED"
      /\ request'[p].payload = request[p].payload
  BY AppliedNow DEF ReadyToApply, Of, Locked
<1>3. Others(p)
  BY OneRow DEF Applied
<1>4. ASSUME NEW q \in Proposals PROVE MoneyMoved(q)'
  <2>1. MoneyMoved(q)
    BY MovedEach DEF MoneyInv
  <2>2. CASE q = p
    BY <1>1, <1>2, <2>1, <2>2 DEF MoneyMoved, moneyVars
  <2>3. CASE q # p
    <3>1. txn'[MoneyKey(q)] = txn[MoneyKey(q)]
      BY <1>1, <2>3, KeysApart, ApprovalsAssumption
    <3>2. request'[q] = request[q]
      BY <1>3, <2>3 DEF Others
    <3> QED
      BY <2>1, <3>1, <3>2 DEF MoneyMoved, moneyVars, Of
  <2> QED
    BY <2>2, <2>3
<1>5. AppliedMoneyMoved'
  BY <1>4 DEF AppliedMoneyMoved, MoneyMoved, Of
<1>6. PayloadsValid'
  <2> SUFFICES ASSUME NEW q \in Proposals, Of(q, "money")' PROVE ValidPayload(request'[q].payload)
    BY DEF PayloadsValid, ValidPayload
  <2>1. Of(q, "money") /\ request'[q].payload = request[q].payload
    BY <1>2, <1>3 DEF Others, Of
  <2> QED
    BY <2>1 DEF MoneyInv
<1>7. ASSUME NEW s \in Sessions PROVE MoneyWork(s)'
  <2>1. CASE pc'[s] \notin {"post", "withdraw"}
    BY <2>1 DEF MoneyWork
  <2>2. CASE pc'[s] = pc[s] /\ job'[s] = job[s]
    BY <2>2, MoneyWorkKept DEF MoneyInv, moneyVars
  <2> QED
    BY <2>1, <2>2
<1>8. MoneyTypeOK'
  BY DEF MoneyInv, MoneyTypeOK, moneyVars
<1> QED
  BY <1>1, <1>5, <1>6, <1>7, <1>8 DEF MoneyInv, PayloadsValid

\* A session that posts nothing has nothing to know.
LEMMA OneMovesAlone ==
    ASSUME Typed, NEW s \in Sessions,
           \/ \E label, work : /\ label \notin {"post", "withdraw"} /\ Start(s, label, work)
           \/ End(s)
           \/ \E label : label \notin {"post", "withdraw"} /\ Goto(s, label) /\ job' = job
    PROVE  \A t \in Sessions : \/ pc'[t] \notin {"post", "withdraw"}
                               \/ pc'[t] = pc[t] /\ job'[t] = job[t]
BY DEF Start, End, Goto, Typed, Tables

\* The steps of the queue of money operations keep its invariant.
LEMMA MoneyKept == ASSUME Typed, HeldReady, RowsStep, MoneyInv, MoneyNext PROVE MoneyInv'
<1> USE DEF moneyVars
<1>1. ASSUME NEW s \in Sessions, NEW a \in Admins, NEW p \in Proposals, ApplyFund(s, a, p)
      PROVE  MoneyInv'
  <2> DEFINE pl == request[p].payload
  <2>1. /\ Decides(a, p, "money") /\ pl.op = "fund" /\ Applied(a, p)
        /\ Post(Fund(p, pl)) /\ Start(s, "link", [p |-> p]) /\ UNCHANGED moneyVars
    BY <1>1 DEF ApplyFund, Runs
  <2>2. ReadyToApply(a, p, "money") /\ Of(p, "money")
    BY <2>1, DecidesReady DEF Locked, ReadyToApply, Of
  <2>3. Fund(p, pl) \in Request /\ Fund(p, pl).key = MoneyKey(p)
    <3>1. 0 \in Int
      OBVIOUS
    <3> QED
      BY <2>1, <2>2, <3>1, MoneyPostings
  <2>4. IsItsPosting(p, pl, Fund(p, pl)) /\ pl.op # "mirror"
    BY <2>1 DEF IsItsPosting
  <2>5. \A t \in Sessions : \/ pc'[t] \notin {"post", "withdraw"}
                            \/ pc'[t] = pc[t] /\ job'[t] = job[t]
    BY <2>1, OneMovesAlone
  <2> QED
    BY <2>1, <2>2, <2>3, <2>4, <2>5, MoneyPosts
<1>2. ASSUME NEW s \in Sessions, NEW a \in Admins, NEW p \in Proposals, ApplyAdjustment(s, a, p)
      PROVE  MoneyInv'
  <2> DEFINE pl == request[p].payload
  <2>1. /\ Decides(a, p, "money") /\ pl.op = "adjust" /\ Applied(a, p)
        /\ Post(Adjustment(p, pl)) /\ Start(s, "link", [p |-> p]) /\ UNCHANGED moneyVars
    BY <1>2 DEF ApplyAdjustment, Runs
  <2>2. ReadyToApply(a, p, "money") /\ Of(p, "money")
    BY <2>1, DecidesReady DEF Locked, ReadyToApply, Of
  <2>3. Adjustment(p, pl) \in Request /\ Adjustment(p, pl).key = MoneyKey(p)
    <3>1. 0 \in Int
      OBVIOUS
    <3> QED
      BY <2>1, <2>2, <3>1, MoneyPostings
  <2>4. IsItsPosting(p, pl, Adjustment(p, pl)) /\ pl.op # "mirror"
    BY <2>1 DEF IsItsPosting
  <2>5. \A t \in Sessions : \/ pc'[t] \notin {"post", "withdraw"}
                            \/ pc'[t] = pc[t] /\ job'[t] = job[t]
    BY <2>1, OneMovesAlone
  <2> QED
    BY <2>1, <2>2, <2>3, <2>4, <2>5, MoneyPosts
<1>3. ASSUME NEW s \in Sessions, PostWithdrawal(s)
      PROVE  MoneyInv'
  <2> DEFINE p == job[s].p
             n == job[s].amount
             pl == request[p].payload
  <2>1. /\ pc[s] = "withdraw" /\ Applied(job[s].admin, p) /\ UNCHANGED moneyVars
        /\ Post(Withdrawal(p, pl, n)) /\ Goto(s, "link") /\ job' = job
    BY <1>3 DEF PostWithdrawal
  <2>2. p \in Proposals /\ ReadyToApply(job[s].admin, p, "money") /\ Of(p, "money")
    BY <2>1 DEF Typed, JobsTyped, JobTyped, OnRequest, HeldReady, ReadyToApply, Of
  <2>3. /\ pl.op = "withdraw" /\ pl.mirror \in Mirrors
        /\ n \in Int /\ n > 0 /\ pl.amount \in {n, All}
    BY <2>1 DEF MoneyInv, MoneyWork
  <2>4. Withdrawal(p, pl, n) \in Request /\ Withdrawal(p, pl, n).key = MoneyKey(p)
    BY <2>2, <2>3, MoneyPostings
  <2>5. IsItsPosting(p, pl, Withdrawal(p, pl, n))
    BY <2>2, <2>3, WithdrawalFits
  <2>6. \A t \in Sessions : \/ pc'[t] \notin {"post", "withdraw"}
                            \/ pc'[t] = pc[t] /\ job'[t] = job[t]
    BY <2>1, OneMovesAlone
  <2>7. pl.op # "mirror"
    BY <2>3
  <2> HIDE DEF n
  <2> QED
    BY <2>1, <2>2, <2>4, <2>5, <2>6, <2>7, MoneyPosts
<1>4. ASSUME NEW s \in Sessions, NEW a \in Admins, NEW p \in Proposals, ApplyFirstFund(s, a, p)
      PROVE  MoneyInv'
  <2> DEFINE f == FloatFor(request[p].payload.account)
  <2>1. /\ Decides(a, p, "money") /\ request[p].payload.op = "fund" /\ Applied(a, p)
        /\ floats' = floats \cup {f} /\ bare' = bare \cup {p} /\ mirrors' = mirrors
        /\ Start(s, "post", [p |-> p]) /\ txn' = txn /\ book' = book
    BY <1>4 DEF ApplyFirstFund, Runs, absVars
  <2>2. ReadyToApply(a, p, "money")
    BY <2>1, DecidesReady DEF Locked
  <2>3. /\ Of(p, "money") /\ request[p].status = "PENDING"
        /\ Of(p, "money")' /\ request'[p].status = "APPLIED"
        /\ request'[p].payload = request[p].payload
    BY <2>1, <2>2, AppliedNow DEF ReadyToApply, Of, Locked
  <2>4. Others(p)
    BY <2>1, OneRow DEF Applied
  <2>5. ASSUME NEW q \in Proposals PROVE MoneyMoved(q)'
    <3>1. MoneyMoved(q)
      BY MovedEach DEF MoneyInv
    <3>2. q # p => request'[q] = request[q]
      BY <2>4 DEF Others
    <3> QED
      BY <2>1, <2>3, <3>1, <3>2 DEF MoneyMoved, Of
  <2>6. AppliedMoneyMoved'
    BY <2>5 DEF AppliedMoneyMoved, MoneyMoved, Of
  <2>7. f \in Floats
    <3>1. request[p].payload \in MoneyOffers
      BY <2>3, RowTyped DEF Of, Locked, OffersOf
    <3>2. request[p].payload.account \in Accounts
      BY <2>1, <3>1, MoneyAssumption
    <3>3. \E g \in Floats : CurrencyOf[g] = CurrencyOf[request[p].payload.account]
      BY <3>2, MoneyAssumption
    <3> QED
      BY <3>3 DEF FloatFor
  <2>8. MoneyTypeOK'
    BY <2>1, <2>7 DEF MoneyInv, MoneyTypeOK
  <2>9. PayloadsValid'
    <3> SUFFICES ASSUME NEW q \in Proposals, Of(q, "money")' PROVE ValidPayload(request'[q].payload)
      BY DEF PayloadsValid, ValidPayload
    <3>1. Of(q, "money") /\ request'[q].payload = request[q].payload
      BY <2>3, <2>4 DEF Others, Of
    <3> QED
      BY <3>1 DEF MoneyInv
  <2>10. ASSUME NEW t \in Sessions PROVE MoneyWork(t)'
    <3>1. CASE t = s
      <4>1. pc'[s] = "post" /\ job'[s] = [p |-> p]
        BY <2>1 DEF Start, Goto, Typed, Tables
      <4> QED
        BY <2>1, <2>3, <3>1, <4>1 DEF MoneyWork
    <3>2. CASE t # s
      <4>1. pc'[t] = pc[t] /\ job'[t] = job[t] /\ bare \subseteq bare'
        BY <2>1, <3>2 DEF Start, Goto, Typed, Tables
      <4> QED
        BY <4>1, MoneyWorkKept DEF MoneyInv
    <3> QED
      BY <3>1, <3>2
  <2>11. Ledgered'
    BY <2>1 DEF MoneyInv, Ledgered
  <2> QED
    BY <2>6, <2>8, <2>9, <2>10, <2>11 DEF MoneyInv, PayloadsValid
<1>5. ASSUME NEW s \in Sessions, PostFirstFund(s)
      PROVE  MoneyInv'
  <2> DEFINE p == job[s].p
             pl == request[p].payload
             r == Fund(p, pl)
  <2>1. /\ pc[s] = "post" /\ Post(r) /\ Goto(s, "link")
        /\ request' = request /\ job' = job /\ UNCHANGED moneyVars
    BY <1>5 DEF PostFirstFund
  <2>2. /\ p \in Proposals /\ Of(p, "money") /\ request[p].status = "APPLIED"
        /\ pl.op = "fund" /\ p \in bare
    BY <2>1 DEF MoneyInv, MoneyWork, Typed, JobsTyped, JobTyped, OnRequest
  <2>3. r \in Request /\ r.key = MoneyKey(p)
    <3>1. 0 \in Int
      OBVIOUS
    <3> QED
      BY <2>2, <3>1, MoneyPostings
  <2>4. IsItsPosting(p, pl, r)
    BY <2>2 DEF IsItsPosting
  <2> HIDE DEF r
  <2>5. /\ Ledgered' /\ txn'[r.key] # None /\ txn'[r.key].req = r
        /\ \A k \in Keys \ {r.key} : txn'[k] = txn[k]
    BY <2>1, <2>3, PostEffect DEF MoneyInv
  <2>6. ASSUME NEW q \in Proposals PROVE MoneyMoved(q)'
    <3>1. MoneyMoved(q)
      BY MovedEach DEF MoneyInv
    <3>2. CASE q = p
      BY <2>1, <2>2, <2>3, <2>4, <2>5, <3>1, <3>2 DEF MoneyMoved, Of
    <3>3. CASE q # p
      <4>1. txn'[MoneyKey(q)] = txn[MoneyKey(q)]
        BY <2>3, <2>5, <3>3, KeysApart, ApprovalsAssumption
      <4> QED
        BY <2>1, <3>1, <4>1 DEF MoneyMoved, Of
    <3> QED
      BY <3>2, <3>3
  <2>7. AppliedMoneyMoved'
    BY <2>6 DEF AppliedMoneyMoved, MoneyMoved, Of
  <2>8. MoneyTypeOK'
    BY <2>1 DEF MoneyInv, MoneyTypeOK
  <2>9. PayloadsValid'
    BY <2>1 DEF MoneyInv, PayloadsValid, Of, ValidPayload
  <2>10. ASSUME NEW t \in Sessions PROVE MoneyWork(t)'
    <3>1. \/ pc'[t] \notin {"post", "withdraw"}
          \/ pc'[t] = pc[t] /\ job'[t] = job[t]
      BY <2>1, OneMovesAlone
    <3>2. CASE pc'[t] \notin {"post", "withdraw"}
      BY <3>2 DEF MoneyWork
    <3>3. CASE pc'[t] = pc[t] /\ job'[t] = job[t]
      BY <2>1, <3>3, MoneyWorkKept DEF MoneyInv
    <3> QED
      BY <3>1, <3>2, <3>3
  <2> QED
    BY <2>5, <2>7, <2>8, <2>9, <2>10 DEF MoneyInv, PayloadsValid
<1>6. ASSUME NEW s \in Sessions, NEW a \in Admins, NEW p \in Proposals, ReadWithdrawal(s, a, p)
      PROVE  MoneyInv'
  <2> DEFINE pl == request[p].payload
             free == Available(book[pl.account])
             n == IF pl.amount = All THEN free ELSE pl.amount
             work == [p |-> p, admin |-> a, amount |-> n]
  <2>1. /\ Decides(a, p, "money") /\ pl.op = "withdraw" /\ MirrorFits(pl) /\ 0 < n
        /\ Start(s, "withdraw", work)
        /\ request' = request /\ txn' = txn /\ book' = book /\ UNCHANGED moneyVars
    BY <1>6 DEF ReadWithdrawal, Runs, absVars
  <2>2. Of(p, "money")
    BY <2>1, DecidesReady DEF Locked, ReadyToApply, Of
  <2>3. pl.mirror \in Mirrors
    BY <2>1 DEF MirrorFits, MoneyInv, MoneyTypeOK
  <2>4. n \in Int
    <3>1. pl \in MoneyOffers
      BY <2>2, RowTyped DEF Of, Locked, OffersOf
    <3>2. pl.account \in Accounts /\ pl.amount \in Int \cup {All}
      BY <2>1, <3>1, MoneyAssumption, DataAssumption
    <3>3. free \in Int
      BY <3>2 DEF MoneyInv, Ledgered, Available, Row
    <3> HIDE DEF free
    <3> QED
      BY <3>2, <3>3
  <2>5. pl.amount \in {n, All}
    OBVIOUS
  <2> HIDE DEF n
  <2>6. MoneyWork(s)'
    <3>1. job'[s] = work
      BY <2>1 DEF Start, Typed, Tables
    <3>2. pc'[s] = "withdraw"
      BY <2>1 DEF Start, Goto, Typed, Tables
    <3>3. work.p = p /\ work.amount = n
      OBVIOUS
    <3> HIDE DEF work
    <3> QED
      BY <2>1, <2>3, <2>4, <2>5, <3>1, <3>2, <3>3 DEF MoneyWork
  <2>7. \A t \in Sessions : t = s \/ (pc'[t] = pc[t] /\ job'[t] = job[t])
    BY <2>1 DEF Start, Goto, Typed, Tables
  <2>8. MoneyTypeOK'
    BY <2>1 DEF MoneyInv, MoneyTypeOK
  <2>9. \A q \in Proposals : NotNow(q, "money") /\ Made(q)' = Made(q)
    BY <2>1 DEF NotNow, Made, Of
  <2>10. \A q \in Proposals : Of(q, "money")' =>
             Of(q, "money") /\ request'[q].payload = request[q].payload
    BY <2>1 DEF Of
  <2> QED
    BY <2>1, <2>6, <2>7, <2>8, <2>9, <2>10, MoneyQuiet DEF absVars
<1>7. ASSUME NEW s \in Sessions, RefuseFirstFund(s) \/ RefuseWithdrawal(s)
      PROVE  MoneyInv'
  <2>1. End(s) /\ request' = request /\ UNCHANGED <<absVars, moneyVars>>
    BY <1>7 DEF RefuseFirstFund, RefuseWithdrawal
  <2>2. \A t \in Sessions : \/ pc'[t] \notin {"post", "withdraw"}
                            \/ pc'[t] = pc[t] /\ job'[t] = job[t]
    BY <2>1, OneMovesAlone
  <2>3. MoneyTypeOK'
    BY <2>1 DEF MoneyInv, MoneyTypeOK
  <2>4. \A q \in Proposals : NotNow(q, "money") /\ Made(q)' = Made(q)
    BY <2>1 DEF NotNow, Made, Of
  <2>5. \A q \in Proposals : Of(q, "money")' =>
            Of(q, "money") /\ request'[q].payload = request[q].payload
    BY <2>1 DEF Of
  <2> QED
    BY <2>1, <2>2, <2>3, <2>4, <2>5, MoneyQuiet
<1>8. ASSUME NEW s \in Sessions, LinkMoney(s)
      PROVE  MoneyInv'
  <2> DEFINE p == job[s].p
  <2>1. Link(s, "money") /\ UNCHANGED <<absVars, moneyVars>>
    BY <1>8 DEF LinkMoney, Link
  <2>2. /\ p \in Proposals /\ Of(p, "money") /\ Others(p) /\ request[p].status = "APPLIED"
        /\ request'[p].payload = request[p].payload /\ End(s)
    BY <2>1, LinkQuiet
  <2>3. \A t \in Sessions : \/ pc'[t] \notin {"post", "withdraw"}
                            \/ pc'[t] = pc[t] /\ job'[t] = job[t]
    BY <2>2, OneMovesAlone
  <2>4. MoneyTypeOK'
    BY <2>1 DEF MoneyInv, MoneyTypeOK
  <2>5. \A q \in Proposals : NotNow(q, "money") /\ Made(q)' = Made(q)
    BY <2>1, <2>2 DEF NotNow, Made, Of, Others
  <2>6. \A q \in Proposals : Of(q, "money")' =>
            Of(q, "money") /\ request'[q].payload = request[q].payload
    BY <2>2 DEF Of, Others
  <2> QED
    BY <2>1, <2>3, <2>4, <2>5, <2>6, MoneyQuiet
<1>9. ASSUME NEW p \in Proposals,
             \/ \E a \in Admins : ApproveMoney(a, p) \/ RequestMoneyChanges(a, p)
             \/ ReviseMoney(p) \/ ResubmitMoney(p) \/ WithdrawMoney(p)
      PROVE  MoneyInv'
  <2>1. PICK a, pl :
            /\ \/ Progress(a, p, "money") \/ SendBack(a, p, "money")
               \/ ValidPayload(pl) /\ Revise(p, "money", pl)
               \/ Resubmit(p, "money") \/ Withdraw(p, "money")
            /\ UNCHANGED moneyVars
    BY <1>9 DEF ApproveMoney, RequestMoneyChanges, ReviseMoney, ResubmitMoney, WithdrawMoney
  <2>2. UNCHANGED <<absVars, pc, job, moneyVars>>
    BY <2>1 DEF Progress, SendBack, Revise, Resubmit, Withdraw
  <2>3. /\ Of(p, "money") /\ Others(p)
        /\ Of(p, "money")' => request'[p].status # "APPLIED"
        /\ request'[p].payload = request[p].payload \/ ValidPayload(request'[p].payload)
    BY <2>1, SharedQuiet DEF Locked
  <2>4. MoneyTypeOK'
    BY <2>2 DEF MoneyInv, MoneyTypeOK
  <2>5. \A q \in Proposals : NotNow(q, "money") /\ Made(q)' = Made(q)
    BY <2>2, <2>3 DEF NotNow, Made, Of, Others
  <2>6. \A q \in Proposals : Of(q, "money")' =>
            \/ ValidPayload(request'[q].payload)
            \/ Of(q, "money") /\ request'[q].payload = request[q].payload
    BY <2>3 DEF Of, Others
  <2>7. \A t \in Sessions : pc'[t] = pc[t] /\ job'[t] = job[t]
    BY <2>2
  <2> QED
    BY <2>2, <2>4, <2>5, <2>6, <2>7, MoneyQuiet
<1>10. ASSUME NEW a \in Admins, NEW p \in Proposals, ProposeMoney(a, p)
       PROVE  MoneyInv'
  <2>1. PICK pl \in MoneyOffers :
            ValidPayload(pl) /\ File(p, Filed("money", a, pl, None, Required(pl.op)))
    BY <1>10 DEF ProposeMoney
  <2>2. UNCHANGED <<absVars, pc, job, moneyVars>>
    BY <1>10 DEF ProposeMoney
  <2>3. Others(p) /\ request'[p] = Filed("money", a, pl, None, Required(pl.op))
    BY <2>1, OneRow DEF File
  <2>4. request'[p].status = "PENDING" /\ request'[p].payload = pl
    BY <2>3 DEF Filed
  <2>5. MoneyTypeOK'
    BY <2>2 DEF MoneyInv, MoneyTypeOK
  <2>6. \A q \in Proposals : NotNow(q, "money") /\ Made(q)' = Made(q)
    BY <2>2, <2>3, <2>4 DEF NotNow, Made, Of, Others
  <2>7. \A q \in Proposals : Of(q, "money")' =>
            \/ ValidPayload(request'[q].payload)
            \/ Of(q, "money") /\ request'[q].payload = request[q].payload
    BY <2>1, <2>3, <2>4 DEF Of, Others
  <2>8. \A t \in Sessions : pc'[t] = pc[t] /\ job'[t] = job[t]
    BY <2>2
  <2> QED
    BY <2>2, <2>5, <2>6, <2>7, <2>8, MoneyQuiet
<1>11. ASSUME NEW a \in Admins, NEW p \in Proposals, CreateBankMirror(a, p)
       PROVE  MoneyInv'
  <2>1. PICK m \in Mirrors \ DOMAIN mirrors :
            mirrors' = With(mirrors, m, [name |-> request[p].payload.name, by |-> p])
    BY <1>11 DEF CreateBankMirror
  <2>2. /\ Decides(a, p, "money") /\ request[p].payload.op = "mirror" /\ Applied(a, p)
        /\ txn' = txn /\ book' = book /\ floats' = floats /\ bare' = bare /\ pc' = pc /\ job' = job
    BY <1>11 DEF CreateBankMirror, Runs, absVars
  <2>3. ReadyToApply(a, p, "money")
    BY <2>2, DecidesReady DEF Locked
  <2>4. /\ Of(p, "money") /\ request[p].status = "PENDING"
        /\ Of(p, "money")' /\ request'[p].status = "APPLIED"
        /\ request'[p].payload = request[p].payload
    BY <2>2, <2>3, AppliedNow DEF ReadyToApply, Of, Locked
  <2>5. Others(p)
    BY <2>2, OneRow DEF Applied
  <2>6. /\ DOMAIN mirrors' = DOMAIN mirrors \cup {m}
        /\ mirrors'[m] = [name |-> request[p].payload.name, by |-> p]
        /\ \A o \in DOMAIN mirrors : mirrors'[o] = mirrors[o]
    BY <2>1 DEF With
  <2>7. MoneyMoved(p) /\ Made(p) = {}
    BY <2>4, MovedEach DEF MoneyInv, MoneyMoved, Made
  <2>8. Made(p)' = {m}
    BY <2>1, <2>6, <2>7 DEF Made
  <2>9. ASSUME NEW q \in Proposals PROVE MoneyMoved(q)'
    <3>1. MoneyMoved(q)
      BY MovedEach DEF MoneyInv
    <3>2. CASE q = p
      <4>1. Cardinality({m}) = 1
        BY FS_Singleton
      <4> QED
        BY <2>2, <2>4, <2>7, <2>8, <3>2, <4>1 DEF MoneyMoved, Made
    <3>3. CASE q # p
      <4>1. request'[q] = request[q] /\ Made(q)' = Made(q)
        BY <2>5, <2>1, <2>6, <3>3 DEF Others, Made
      <4> QED
        BY <2>2, <3>1, <4>1 DEF MoneyMoved, Made, Of
    <3> QED
      BY <3>2, <3>3
  <2>10. AppliedMoneyMoved'
    BY <2>9 DEF AppliedMoneyMoved, MoneyMoved, Of
  <2>11. MoneyTypeOK'
    <3>1. request[p].payload.name \in Names
      BY <2>2, <2>4 DEF MoneyInv, ValidPayload
    <3>2. mirrors'[m] \in Mirror
      BY <2>6, <3>1 DEF Mirror
    <3>3. \A o \in DOMAIN mirrors' : mirrors'[o] \in Mirror
      BY <2>6, <3>2 DEF MoneyInv, MoneyTypeOK
    <3>4. mirrors' = [o \in DOMAIN mirrors' |-> mirrors'[o]]
      BY <2>1 DEF With
    <3> QED
      BY <2>1, <2>2, <2>6, <3>3, <3>4 DEF MoneyInv, MoneyTypeOK
  <2>12. PayloadsValid'
    <3> SUFFICES ASSUME NEW q \in Proposals, Of(q, "money")' PROVE ValidPayload(request'[q].payload)
      BY DEF PayloadsValid, ValidPayload
    <3>1. Of(q, "money") /\ request'[q].payload = request[q].payload
      BY <2>4, <2>5 DEF Others, Of
    <3> QED
      BY <3>1 DEF MoneyInv
  <2>13. ASSUME NEW t \in Sessions PROVE MoneyWork(t)'
    BY <2>2, MoneyWorkKept DEF MoneyInv
  <2>14. Ledgered'
    BY <2>2 DEF MoneyInv, Ledgered
  <2> QED
    BY <2>10, <2>11, <2>12, <2>13, <2>14 DEF MoneyInv, PayloadsValid
<1>12. CASE RenameBankMirror
  <2>1. PICK m \in DOMAIN mirrors, name \in Names :
            mirrors' = [mirrors EXCEPT ![m] = [mirrors[m] EXCEPT !.name = name]]
    BY <1>12 DEF RenameBankMirror
  <2>2. UNCHANGED <<absVars, request, pc, job, floats, bare>>
    BY <1>12 DEF RenameBankMirror, threads
  <2>3. mirrors[m] \in Mirror /\ \A o \in DOMAIN mirrors : mirrors[o] \in Mirror
    BY DEF MoneyInv, MoneyTypeOK
  <2>4. /\ [mirrors[m] EXCEPT !.name = name] \in Mirror
        /\ [mirrors[m] EXCEPT !.name = name].by = mirrors[m].by
    BY <2>3 DEF Mirror
  <2>5. /\ DOMAIN mirrors' = DOMAIN mirrors
        /\ \A o \in DOMAIN mirrors : mirrors'[o] \in Mirror /\ mirrors'[o].by = mirrors[o].by
    BY <2>1, <2>3, <2>4
  <2>6. MoneyTypeOK'
    <3>1. mirrors' \in [DOMAIN mirrors -> Mirror]
      BY <2>1, <2>4 DEF MoneyInv, MoneyTypeOK
    <3> QED
      BY <2>2, <2>5, <3>1 DEF MoneyInv, MoneyTypeOK
  <2>7. \A q \in Proposals : NotNow(q, "money") /\ Made(q)' = Made(q)
    BY <2>2, <2>5 DEF NotNow, Made, Of
  <2>8. \A q \in Proposals : Of(q, "money")' =>
             Of(q, "money") /\ request'[q].payload = request[q].payload
    BY <2>2 DEF Of
  <2>9. \A t \in Sessions : pc'[t] = pc[t] /\ job'[t] = job[t]
    BY <2>2
  <2> QED
    BY <2>2, <2>6, <2>7, <2>8, <2>9, MoneyQuiet
<1> QED
  BY <1>1, <1>2, <1>3, <1>4, <1>5, <1>6, <1>7, <1>8, <1>9, <1>10, <1>11, <1>12 DEF MoneyNext

\* A session dies on a money request; nobody does anything.
LEMMA MoneyCut ==
    ASSUME Typed, HeldReady, RowsStep, MoneyInv,
           UNCHANGED vars \/ \E s \in Sessions : Cut(s)
    PROVE  MoneyInv'
<1>1. /\ request' = request /\ UNCHANGED <<absVars, moneyVars>>
      /\ (pc' = pc /\ job' = job) \/ \E s \in Sessions : End(s)
  BY DEF Cut, vars, threads
<1>2. \A t \in Sessions : \/ pc'[t] \notin {"post", "withdraw"}
                          \/ pc'[t] = pc[t] /\ job'[t] = job[t]
  BY <1>1, OneMovesAlone
<1>3. MoneyTypeOK'
  BY <1>1 DEF MoneyInv, MoneyTypeOK, moneyVars
<1>4. \A q \in Proposals : NotNow(q, "money") /\ Made(q)' = Made(q)
  BY <1>1 DEF NotNow, Made, Of, moneyVars
<1>5. \A q \in Proposals : Of(q, "money")' =>
          Of(q, "money") /\ request'[q].payload = request[q].payload
  BY <1>1 DEF Of
<1> QED
  BY <1>1, <1>2, <1>3, <1>4, <1>5, MoneyQuiet DEF moneyVars

-----------------------------------------------------------------------------
(* User operations                                                         *)

\* A user to come, with identifiers nobody has.
LEMMA UserCreated ==
    ASSUME UsersFit, NEW ids \in SUBSET Identifiers, NEW verified \in SUBSET Identifiers,
           NEW by \in Proposals \cup PartnerKeys \cup {None}, CreateUser(ids, verified, by),
           by # None => ~HasCreated(by), lastUsed \subseteq lastUsed',
           by \in PartnerKeys =>
               verified \subseteq AccountNumbers /\ lastUsed' # {} /\ PartnerOffers[by] \subseteq ids
    PROVE  /\ UsersFit' /\ Known \subseteq Known'
           /\ \A x : HasCreated(x)' <=> HasCreated(x) \/ x = by
<1> DEFINE w == [identifiers |-> ids, verified |-> verified, status |-> "active", by |-> by]
<1>1. ids \cap Known = {} /\ users' = users \cup {w}
  BY DEF CreateUser
<1>2. w \in User /\ w.identifiers = ids /\ w.verified = verified /\ w.by = by
  BY DEF User
<1> HIDE DEF w
<1>3. \A u \in users : u.identifiers \cap w.identifiers = {}
  BY <1>1, <1>2 DEF Known
<1>4. by # None => \A u \in users : u.by # by
  BY DEF HasCreated
<1>5. UsersFit'
  <2>1. users' \subseteq User
    BY <1>1, <1>2 DEF UsersFit
  <2>2. \A u, v \in users' : u # v => u.identifiers \cap v.identifiers = {}
    BY <1>1, <1>3 DEF UsersFit
  <2>3. \A u, v \in users' : u.by # None /\ u.by = v.by => u = v
    BY <1>1, <1>2, <1>4 DEF UsersFit
  <2>4. \A u \in users' : u.by \in PartnerKeys =>
            /\ u.verified \subseteq AccountNumbers /\ lastUsed' # {}
            /\ PartnerOffers[u.by] \subseteq u.identifiers
    BY <1>1, <1>2 DEF UsersFit
  <2> QED
    BY <2>1, <2>2, <2>3, <2>4 DEF UsersFit
<1>6. Known \subseteq Known'
  BY <1>1 DEF Known
<1>7. \A x : HasCreated(x)' <=> HasCreated(x) \/ x = by
  BY <1>1, <1>2 DEF HasCreated
<1> QED
  BY <1>5, <1>6, <1>7

\* A user with more identifiers, or another status.
LEMMA UserEdited ==
    ASSUME UsersFit, NEW u \in users, NEW w \in User, users' = (users \ {u}) \cup {w},
           w.by = u.by, u.identifiers \subseteq w.identifiers,
           (w.identifiers \ u.identifiers) \cap Known = {},
           u.by \in PartnerKeys => w.verified \subseteq AccountNumbers, lastUsed' = lastUsed
    PROVE  /\ UsersFit' /\ Known \subseteq Known'
           /\ \A x : HasCreated(x)' <=> HasCreated(x)
<1>1. \A v \in users \ {u} : v.identifiers \cap w.identifiers = {}
  <2> SUFFICES ASSUME NEW v \in users \ {u} PROVE v.identifiers \cap w.identifiers = {}
    OBVIOUS
  <2>1. v.identifiers \cap u.identifiers = {} /\ v.identifiers \subseteq Known
    BY DEF UsersFit, Known
  <2> QED
    BY <2>1
<1>2. UsersFit'
  <2>1. users' \subseteq User
    BY DEF UsersFit
  <2>2. \A x, y \in users' : x # y => x.identifiers \cap y.identifiers = {}
    BY <1>1 DEF UsersFit
  <2>3. \A x, y \in users' : x.by # None /\ x.by = y.by => x = y
    BY DEF UsersFit
  <2>4. \A x \in users' : x.by \in PartnerKeys =>
            /\ x.verified \subseteq AccountNumbers /\ lastUsed' # {}
            /\ PartnerOffers[x.by] \subseteq x.identifiers
    BY DEF UsersFit
  <2> QED
    BY <2>1, <2>2, <2>3, <2>4 DEF UsersFit
<1>3. Known \subseteq Known'
  BY DEF Known
<1>4. \A x : HasCreated(x)' <=> HasCreated(x)
  BY DEF HasCreated
<1> QED
  BY <1>2, <1>3, <1>4

\* A request that is not applied by the step.
LEMMA RequestFitsKept ==
    ASSUME Typed, NEW p \in Proposals, RowStep(p), RequestFits(p), NotNow(p, "user"),
           Known \subseteq Known', HasCreated(p)' <=> HasCreated(p),
           Of(p, "user")' /\ request'[p].payload.op = "update" =>
               \/ request'[p].payload.target \in Known
               \/ Of(p, "user") /\ request'[p].payload = request[p].payload
    PROVE  RequestFits(p)'
<1>1. CASE Of(p, "user") /\ request[p].status = "APPLIED"
  <2>1. /\ Of(p, "user")' /\ request'[p].status = "APPLIED"
        /\ request'[p].payload = request[p].payload
    BY <1>1, RequestKept DEF Of, Locked
  <2> QED
    BY <1>1, <2>1 DEF RequestFits
<1>2. CASE ~(Of(p, "user") /\ request[p].status = "APPLIED")
  <2>1. ~(Of(p, "user")' /\ request'[p].status = "APPLIED")
    BY <1>2 DEF NotNow
  <2> QED
    BY <1>2, <2>1 DEF RequestFits
<1> QED
  BY <1>1, <1>2

KnowsAsMuch ==
    /\ Known \subseteq Known'
    /\ \A i \in ApiKeys : apiKeys[i] # None => apiKeys'[i] # None
    /\ \A x : HasCreated(x) => HasCreated(x)'

\* A session that does not move knows of its user what it knew.
LEMMA OnUserKept ==
    ASSUME NEW s \in Sessions, OnUser(s), KnowsAsMuch, pc'[s] = pc[s], job'[s] = job[s]
    PROVE  OnUser(s)'
BY DEF OnUser, KnowsAsMuch

\* The steps of the other queues.
LEMMA UserElsewhere ==
    ASSUME Typed, UserInv, Fixed("user"), Still("user"), UNCHANGED userTables
    PROVE  UserInv'
<1> USE DEF userTables, keyTables
<1>1. UsersFit'
  BY DEF UserInv, UsersFit
<1>2. KeysFit'
  BY DEF UserInv, KeysFit, HasCreated
<1>3. ASSUME NEW p \in Proposals PROVE RequestFits(p)'
  <2>1. RequestFits(p) /\ (Of(p, "user")' <=> Of(p, "user"))
    BY DEF UserInv, Fixed, Of
  <2>2. Of(p, "user") => request'[p] = request[p]
    BY DEF Fixed
  <2> QED
    BY <2>1, <2>2 DEF RequestFits, HasCreated, Known
<1>4. ASSUME NEW s \in Sessions PROVE OnUser(s)'
  <2>1. OnUser(s) /\ KnowsAsMuch
    BY DEF UserInv, KnowsAsMuch, Known, HasCreated
  <2>2. CASE pc'[s] \in {"user", "partner", "record"}
    <3>1. pc'[s] = pc[s] /\ job'[s] = job[s]
      BY <2>2 DEF Still, LabelsOf
    <3> QED
      BY <2>1, <3>1, OnUserKept
  <2>3. CASE pc'[s] \notin {"user", "partner", "record"}
    BY <2>3 DEF OnUser
  <2> QED
    BY <2>2, <2>3
<1> QED
  BY <1>1, <1>2, <1>3, <1>4 DEF UserInv

\* The sessions of a step of this queue.
UserMoves ==
    \A s \in Sessions : \/ pc'[s] \notin {"user", "partner", "record"}
                        \/ pc'[s] = pc[s] /\ job'[s] = job[s]
                        \/ OnUser(s)'

\* A step that applies no request.
LEMMA UserQuiet ==
    ASSUME Typed, RowsStep, UserInv, UsersFit', KeysFit', KnowsAsMuch, UserMoves,
           \A p \in Proposals : /\ NotNow(p, "user")
                                /\ HasCreated(p)' <=> HasCreated(p)
                                /\ Of(p, "user")' /\ request'[p].payload.op = "update" =>
                                      \/ request'[p].payload.target \in Known
                                      \/ /\ Of(p, "user")
                                         /\ request'[p].payload = request[p].payload
    PROVE  UserInv'
<1>1. ASSUME NEW p \in Proposals PROVE RequestFits(p)'
  <2>1. RequestFits(p) /\ RowStep(p)
    BY DEF UserInv, RowsStep
  <2> QED
    BY <2>1, RequestFitsKept DEF KnowsAsMuch
<1>2. ASSUME NEW s \in Sessions PROVE OnUser(s)'
  <2>1. CASE pc'[s] \notin {"user", "partner", "record"}
    BY <2>1 DEF OnUser
  <2>2. CASE pc'[s] = pc[s] /\ job'[s] = job[s]
    BY <2>2, OnUserKept DEF UserInv
  <2> QED
    BY <2>1, <2>2 DEF UserMoves
<1> QED
  BY <1>1, <1>2 DEF UserInv

\* The step that applies request p.
LEMMA UserApplies ==
    ASSUME Typed, RowsStep, UserInv, UsersFit', KeysFit', KnowsAsMuch, UserMoves,
           NEW a, NEW p \in Proposals, ReadyToApply(a, p, "user"), Applied(a, p),
           HasCreated(p)' <=> request[p].payload.op = "create",
           \A q \in Proposals \ {p} : HasCreated(q)' <=> HasCreated(q)
    PROVE  UserInv'
<1>1. /\ Of(p, "user") /\ Of(p, "user")' /\ request'[p].status = "APPLIED"
      /\ request'[p].payload = request[p].payload
  BY AppliedNow DEF ReadyToApply, Of, Locked
<1>2. Others(p)
  BY OneRow DEF Applied
<1>3. ASSUME NEW q \in Proposals PROVE RequestFits(q)'
  <2>1. RequestFits(q)
    BY DEF UserInv
  <2>2. CASE q = p
    BY <1>1, <2>1, <2>2 DEF RequestFits, KnowsAsMuch
  <2>3. CASE q # p
    <3>1. request'[q] = request[q] /\ (Of(q, "user")' <=> Of(q, "user"))
      BY <1>2, <2>3 DEF Others, Of
    <3> QED
      BY <2>1, <2>3, <3>1 DEF RequestFits, KnowsAsMuch
  <2> QED
    BY <2>2, <2>3
<1>4. ASSUME NEW s \in Sessions PROVE OnUser(s)'
  <2>1. CASE pc'[s] \notin {"user", "partner", "record"}
    BY <2>1 DEF OnUser
  <2>2. CASE pc'[s] = pc[s] /\ job'[s] = job[s]
    BY <2>2, OnUserKept DEF UserInv
  <2> QED
    BY <2>1, <2>2 DEF UserMoves
<1> QED
  BY <1>3, <1>4 DEF UserInv

\* One session moves.
LEMMA UserMovesOne ==
    ASSUME Typed, NEW s \in Sessions, OnUser(s)',
           \/ \E label, work : Start(s, label, work)
           \/ End(s)
           \/ \E label : Goto(s, label) /\ job' = job
    PROVE  UserMoves
BY DEF UserMoves, Start, End, Goto, Typed, Tables

\* A session that leaves the queue needs to know nothing.
LEMMA UserMovesOut ==
    ASSUME Typed, NEW s \in Sessions,
           \/ \E work : Start(s, "link", work)
           \/ End(s)
    PROVE  UserMoves
<1>1. pc'[s] \notin {"user", "partner", "record"}
  BY DEF Start, End, Goto, Typed, Tables
<1> QED
  BY <1>1 DEF UserMoves, Start, End, Goto, Typed, Tables

\* The users stay.
LEMMA UsersStay ==
    ASSUME UserInv, users' = users, lastUsed' = lastUsed
    PROVE  /\ UsersFit' /\ Known \subseteq Known' /\ \A x : HasCreated(x)' <=> HasCreated(x)
BY DEF UserInv, UsersFit, Known, HasCreated

\* The API keys and the keys on record are left.
LEMMA KeysStay ==
    ASSUME UserInv, UNCHANGED keyTables, \A x : HasCreated(x) => HasCreated(x)'
    PROVE  KeysFit' /\ \A i \in ApiKeys : apiKeys[i] # None => apiKeys'[i] # None
BY DEF UserInv, KeysFit, keyTables

\* What a payload of the queue is.
LEMMA UserPayload ==
    ASSUME NEW pl \in UserOffers
    PROVE  \/ /\ pl.op = "create" /\ pl.verified \subseteq pl.identifiers
              /\ pl.identifiers \subseteq Identifiers
           \/ pl.op = "update" /\ pl.status \in {"active", "suspended"}
BY UserAssumption DEF Identifiers, Creations

\* The steps of the queue of user operations keep its invariant.
LEMMA UserKept == ASSUME Typed, RowsStep, UserInv, UserNext PROVE UserInv'
<1> USE DEF userTables
<1>1. ASSUME NEW s \in Sessions, NEW a \in Admins, NEW p \in Proposals, ApplyCreate(s, a, p)
      PROVE  UserInv'
  <2> DEFINE pl == request[p].payload
  <2>1. /\ Decides(a, p, "user") /\ pl.op = "create" /\ Applied(a, p)
        /\ CreateUser(pl.identifiers, pl.verified, p)
        /\ Start(s, "link", [p |-> p]) /\ UNCHANGED keyTables
    BY <1>1 DEF ApplyCreate
  <2>2. ReadyToApply(a, p, "user")
    BY <2>1, DecidesReady DEF Locked
  <2>3. /\ Of(p, "user") /\ request[p].status = "PENDING" /\ pl \in UserOffers
    BY <2>2, RowTyped DEF ReadyToApply, Of, Locked, OffersOf
  <2>4. ~HasCreated(p)
    BY <2>3 DEF UserInv, RequestFits
  <2>5. pl.verified \subseteq Identifiers /\ pl.identifiers \subseteq Identifiers
    BY <2>1, <2>3, UserPayload
  <2>6. p \notin PartnerKeys /\ p # None
    BY UserAssumption, MakerCheckerAssumption
  <2>7. /\ UsersFit' /\ Known \subseteq Known'
        /\ \A x : HasCreated(x)' <=> HasCreated(x) \/ x = p
    <3>1. lastUsed \subseteq lastUsed'
      BY <2>1 DEF keyTables
    <3> QED
      BY <2>1, <2>4, <2>5, <2>6, <3>1, UserCreated DEF UserInv
  <2>8. KeysFit' /\ KnowsAsMuch
    BY <2>1, <2>7, KeysStay DEF KnowsAsMuch
  <2>9. UserMoves
    BY <2>1, UserMovesOut
  <2> QED
    BY <2>1, <2>2, <2>7, <2>8, <2>9, UserApplies
<1>2. ASSUME NEW s \in Sessions, NEW a \in Admins, NEW p \in Proposals, ApplyUpdate(s, a, p)
      PROVE  UserInv'
  <2> DEFINE pl == request[p].payload
             u == CHOOSE v \in users : pl.target \in v.identifiers
             w == [u EXCEPT !.status = pl.status]
  <2>1. /\ Decides(a, p, "user") /\ pl.op = "update" /\ Applied(a, p)
        /\ users' = (users \ {u}) \cup {w}
        /\ Start(s, "link", [p |-> p]) /\ UNCHANGED keyTables
    BY <1>2 DEF ApplyUpdate
  <2>2. ReadyToApply(a, p, "user")
    BY <2>1, DecidesReady DEF Locked
  <2>3. Of(p, "user") /\ pl \in UserOffers
    BY <2>2, RowTyped DEF ReadyToApply, Of, Locked, OffersOf
  <2>4. u \in users
    <3>1. pl.target \in Known
      BY <2>1, <2>3 DEF UserInv, RequestFits
    <3>2. \E v \in users : pl.target \in v.identifiers
      BY <3>1 DEF Known
    <3> QED
      BY <3>2
  <2> HIDE DEF u
  <2>5. /\ w \in User /\ w.by = u.by /\ w.identifiers = u.identifiers
        /\ w.verified = u.verified
    <3>1. pl.status \in {"active", "suspended"}
      BY <2>1, <2>3, UserPayload
    <3>2. u \in User
      BY <2>4 DEF UserInv, UsersFit
    <3> QED
      BY <3>1, <3>2 DEF User
  <2> HIDE DEF w
  <2>6. u.by \in PartnerKeys => u.verified \subseteq AccountNumbers
    BY <2>4 DEF UserInv, UsersFit
  <2>7. /\ UsersFit' /\ Known \subseteq Known'
        /\ \A x : HasCreated(x)' <=> HasCreated(x)
    <3>1. lastUsed' = lastUsed
      BY <2>1 DEF keyTables
    <3> QED
      BY <2>1, <2>4, <2>5, <2>6, <3>1, UserEdited DEF UserInv
  <2>8. KeysFit' /\ KnowsAsMuch
    BY <2>1, <2>7, KeysStay DEF KnowsAsMuch
  <2>9. UserMoves
    BY <2>1, UserMovesOut
  <2>10. ~HasCreated(p)
    BY <2>1 DEF UserInv, RequestFits
  <2> QED
    BY <2>1, <2>2, <2>7, <2>8, <2>9, <2>10, UserApplies
<1>3. ASSUME NEW s \in Sessions, NEW a \in Admins, CheckUser(s, a)
      PROVE  UserInv'
  <2>1. PICK pl \in UserOffers : Admissible(pl) /\ Start(s, "user", [admin |-> a, payload |-> pl])
    BY <1>3 DEF CheckUser
  <2>2. request' = request /\ UNCHANGED userTables
    BY <1>3 DEF CheckUser
  <2>3. /\ UsersFit' /\ Known \subseteq Known' /\ \A x : HasCreated(x)' <=> HasCreated(x)
    BY <2>2, UsersStay DEF keyTables
  <2>4. KeysFit' /\ KnowsAsMuch
    BY <2>2, <2>3, KeysStay DEF KnowsAsMuch
  <2>5. OnUser(s)'
    <3>1. pc'[s] = "user" /\ job'[s] = [admin |-> a, payload |-> pl]
      BY <2>1 DEF Start, Goto, Typed, Tables
    <3>2. pl.op = "update" => pl.target \in Known
      BY <2>1 DEF Admissible, TargetExists
    <3> QED
      BY <2>3, <3>1, <3>2 DEF OnUser
  <2>6. UserMoves
    BY <2>1, <2>5, UserMovesOne
  <2> QED
    BY <2>2, <2>3, <2>4, <2>6, UserQuiet DEF NotNow, Of
<1>4. ASSUME NEW s \in Sessions, NEW p \in Proposals, ProposeUser(s, p)
      PROVE  UserInv'
  <2> DEFINE row == Filed("user", job[s].admin, job[s].payload, None, 1)
  <2>1. pc[s] = "user" /\ File(p, row) /\ End(s) /\ UNCHANGED userTables
    BY <1>4 DEF ProposeUser
  <2>2. Others(p) /\ request'[p] = row
    BY <2>1, OneRow DEF File
  <2>3. row.status = "PENDING" /\ row.payload = job[s].payload
    BY DEF Filed
  <2> HIDE DEF row
  <2>4. job[s].payload.op = "update" => job[s].payload.target \in Known
    BY <2>1 DEF UserInv, OnUser
  <2>5. /\ UsersFit' /\ Known \subseteq Known' /\ \A x : HasCreated(x)' <=> HasCreated(x)
    BY <2>1, UsersStay DEF keyTables
  <2>6. KeysFit' /\ KnowsAsMuch
    BY <2>1, <2>5, KeysStay DEF KnowsAsMuch
  <2>7. UserMoves
    BY <2>1, UserMovesOut
  <2>8. \A q \in Proposals :
            /\ NotNow(q, "user")
            /\ Of(q, "user")' /\ request'[q].payload.op = "update" =>
                  \/ request'[q].payload.target \in Known
                  \/ /\ Of(q, "user")
                     /\ request'[q].payload = request[q].payload
    BY <2>2, <2>3, <2>4 DEF NotNow, Of, Others
  <2> QED
    BY <2>5, <2>6, <2>7, <2>8, UserQuiet
<1>5. ASSUME NEW p \in Proposals,
             \/ \E a \in Admins : RequestUserChanges(a, p)
             \/ ReviseUser(p) \/ ResubmitUser(p) \/ WithdrawUser(p)
      PROVE  UserInv'
  <2>1. PICK a, pl :
            /\ \/ SendBack(a, p, "user")
               \/ (pl.op = "update" => pl.target \in Known) /\ Revise(p, "user", pl)
               \/ Resubmit(p, "user") \/ Withdraw(p, "user")
            /\ UNCHANGED userTables
    BY <1>5 DEF RequestUserChanges, ReviseUser, ResubmitUser, WithdrawUser, Admissible, TargetExists
  <2>2. pc' = pc /\ job' = job
    BY <2>1 DEF SendBack, Revise, Resubmit, Withdraw
  <2>3. /\ Of(p, "user") /\ Others(p)
        /\ Of(p, "user")' => request'[p].status # "APPLIED"
        /\ \/ request'[p].payload = request[p].payload
           \/ request'[p].payload.op = "update" => request'[p].payload.target \in Known
    BY <2>1, SharedQuiet DEF Locked
  <2>4. /\ UsersFit' /\ Known \subseteq Known' /\ \A x : HasCreated(x)' <=> HasCreated(x)
    BY <2>1, UsersStay DEF keyTables
  <2>5. KeysFit' /\ KnowsAsMuch
    BY <2>1, <2>4, KeysStay DEF KnowsAsMuch
  <2>6. UserMoves
    BY <2>2 DEF UserMoves
  <2>7. \A q \in Proposals :
            /\ NotNow(q, "user")
            /\ Of(q, "user")' /\ request'[q].payload.op = "update" =>
                  \/ request'[q].payload.target \in Known
                  \/ /\ Of(q, "user")
                     /\ request'[q].payload = request[q].payload
    BY <2>3 DEF NotNow, Of, Others
  <2> QED
    BY <2>4, <2>5, <2>6, <2>7, UserQuiet
<1>6. ASSUME NEW s \in Sessions, LinkUser(s)
      PROVE  UserInv'
  <2> DEFINE p == job[s].p
  <2>1. Link(s, "user") /\ UNCHANGED userTables
    BY <1>6 DEF LinkUser
  <2>2. /\ p \in Proposals /\ Of(p, "user") /\ Others(p) /\ request[p].status = "APPLIED"
        /\ request'[p].payload = request[p].payload /\ End(s)
    BY <2>1, LinkQuiet
  <2>3. /\ UsersFit' /\ Known \subseteq Known' /\ \A x : HasCreated(x)' <=> HasCreated(x)
    BY <2>1, UsersStay DEF keyTables
  <2>4. KeysFit' /\ KnowsAsMuch
    BY <2>1, <2>3, KeysStay DEF KnowsAsMuch
  <2>5. UserMoves
    BY <2>2, UserMovesOut
  <2>6. \A q \in Proposals :
            /\ NotNow(q, "user")
            /\ Of(q, "user")' /\ request'[q].payload.op = "update" =>
                  /\ Of(q, "user")
                  /\ request'[q].payload = request[q].payload
    BY <2>2 DEF NotNow, Of, Others
  <2> QED
    BY <2>3, <2>4, <2>5, <2>6, UserQuiet
<1>7. ASSUME request' = request, UsersFit', KeysFit', KnowsAsMuch, UserMoves,
             \A q \in Proposals : HasCreated(q)' <=> HasCreated(q)
      PROVE  UserInv'
  BY <1>7, UserQuiet DEF NotNow, Of
<1>8. CASE CreateDirectly
  <2>1. PICK pl \in Creations : CreateUser(pl.identifiers, pl.verified, None)
    BY <1>8 DEF CreateDirectly
  <2>2. UNCHANGED <<request, pc, job>> /\ UNCHANGED keyTables
    BY <1>8 DEF CreateDirectly, threads
  <2>3. pl.verified \subseteq Identifiers /\ pl.identifiers \subseteq Identifiers
    BY UserPayload DEF Creations
  <2>4. /\ UsersFit' /\ Known \subseteq Known'
        /\ \A x : HasCreated(x)' <=> HasCreated(x) \/ x = None
    <3>1. lastUsed \subseteq lastUsed' /\ None \notin PartnerKeys
      BY <2>2, UserAssumption DEF keyTables
    <3> QED
      BY <2>1, <2>3, <3>1, UserCreated DEF UserInv
  <2>5. KeysFit' /\ KnowsAsMuch
    BY <2>2, <2>4, KeysStay DEF KnowsAsMuch
  <2>6. \A q \in Proposals : HasCreated(q)' <=> HasCreated(q)
    BY <2>4, MakerCheckerAssumption
  <2> QED
    BY <1>7, <2>2, <2>4, <2>5, <2>6 DEF UserMoves
<1>9. ASSUME NEW u \in users, NEW i,
             \/ i \in Extras /\ AddIdentifier(u, i)
             \/ i \in AccountNumbers /\ VerifyIdentifier(u, i)
      PROVE  UserInv'
  <2>1. UNCHANGED <<request, pc, job>> /\ UNCHANGED keyTables
    BY <1>9 DEF AddIdentifier, VerifyIdentifier, threads
  <2>2. u \in User
    BY DEF UserInv, UsersFit
  <2>3. \E w \in User : /\ users' = (users \ {u}) \cup {w}
                        /\ w.by = u.by /\ u.identifiers \subseteq w.identifiers
                        /\ (w.identifiers \ u.identifiers) \cap Known = {}
                        /\ w.verified \subseteq u.verified \cup AccountNumbers
    <3>1. CASE i \in Extras /\ AddIdentifier(u, i)
      <4> DEFINE w == [u EXCEPT !.identifiers = @ \cup {i}]
      <4>1. i \notin Known /\ users' = (users \ {u}) \cup {w}
        BY <3>1 DEF AddIdentifier
      <4>2. i \in Identifiers
        BY <3>1 DEF Identifiers
      <4>3. w \in User /\ w.by = u.by /\ w.identifiers = u.identifiers \cup {i}
            /\ w.verified = u.verified
        BY <2>2, <4>2 DEF User
      <4> QED
        BY <4>1, <4>3
    <3>2. CASE i \in AccountNumbers /\ VerifyIdentifier(u, i)
      <4> DEFINE w == [u EXCEPT !.verified = @ \cup {i}]
      <4>1. i \in u.identifiers /\ users' = (users \ {u}) \cup {w}
        BY <3>2 DEF VerifyIdentifier
      <4>2. i \in Identifiers
        BY <2>2, <4>1 DEF User
      <4>3. w \in User /\ w.by = u.by /\ w.identifiers = u.identifiers
            /\ w.verified = u.verified \cup {i}
        BY <2>2, <4>2 DEF User
      <4> QED
        BY <3>2, <4>1, <4>3
    <3> QED
      BY <1>9, <3>1, <3>2
  <2>4. PICK w \in User : /\ users' = (users \ {u}) \cup {w}
                          /\ w.by = u.by /\ u.identifiers \subseteq w.identifiers
                          /\ (w.identifiers \ u.identifiers) \cap Known = {}
                          /\ w.verified \subseteq u.verified \cup AccountNumbers
    BY <2>3
  <2>5. u.by \in PartnerKeys => w.verified \subseteq AccountNumbers
    BY <2>4 DEF UserInv, UsersFit
  <2>6. /\ UsersFit' /\ Known \subseteq Known'
        /\ \A x : HasCreated(x)' <=> HasCreated(x)
    <3>1. lastUsed' = lastUsed
      BY <2>1 DEF keyTables
    <3> QED
      BY <2>4, <2>5, <3>1, UserEdited DEF UserInv
  <2>7. KeysFit' /\ KnowsAsMuch
    BY <2>1, <2>6, KeysStay DEF KnowsAsMuch
  <2> QED
    BY <1>7, <2>1, <2>6, <2>7 DEF UserMoves
<1>10. ASSUME NEW i \in ApiKeys, CreateApiKey(i) \/ RevokeApiKey(i)
       PROVE  UserInv'
  <2>1. /\ apiKeys' = [apiKeys EXCEPT ![i] = "active"] \/ apiKeys' = [apiKeys EXCEPT ![i] = "revoked"]
        /\ UNCHANGED <<request, pc, job, users, recorded, lastUsed>>
    BY <1>10 DEF CreateApiKey, RevokeApiKey, threads
  <2>2. /\ UsersFit' /\ Known \subseteq Known' /\ \A x : HasCreated(x)' <=> HasCreated(x)
    BY <2>1, UsersStay
  <2>3. apiKeys \in [ApiKeys -> {None, "active", "revoked"}]
    BY DEF UserInv, KeysFit, ApiKey
  <2>4. /\ apiKeys' \in [ApiKeys -> {None, "active", "revoked"}]
        /\ \A j \in ApiKeys : apiKeys[j] # None => apiKeys'[j] # None
    BY <2>1, <2>3, UserAssumption
  <2>5. KeysFit' /\ KnowsAsMuch
    BY <2>1, <2>2, <2>4 DEF UserInv, KeysFit, ApiKey, KnowsAsMuch
  <2> QED
    BY <1>7, <2>1, <2>2, <2>5 DEF UserMoves
<1>11. ASSUME NEW s \in Sessions, NEW k \in PartnerKeys, NEW i \in ApiKeys, ReceivePartner(s, k, i)
       PROVE  UserInv'
  <2>1. /\ apiKeys[i] = "active" /\ Start(s, "partner", [key |-> k, with |-> i])
        /\ request' = request /\ UNCHANGED userTables
    BY <1>11 DEF ReceivePartner, Authenticates
  <2>2. /\ UsersFit' /\ Known \subseteq Known' /\ \A x : HasCreated(x)' <=> HasCreated(x)
    BY <2>1, UsersStay DEF keyTables
  <2>3. KeysFit' /\ KnowsAsMuch
    BY <2>1, <2>2, KeysStay DEF KnowsAsMuch
  <2>4. OnUser(s)'
    <3>1. pc'[s] = "partner" /\ job'[s] = [key |-> k, with |-> i]
      BY <2>1 DEF Start, Goto, Typed, Tables
    <3>2. apiKeys'[i] # None
      BY <2>1, <2>3, UserAssumption DEF KnowsAsMuch
    <3> QED
      BY <3>1, <3>2 DEF OnUser
  <2>5. UserMoves
    BY <2>1, <2>4, UserMovesOne
  <2> QED
    BY <1>7, <2>1, <2>2, <2>3, <2>5
<1>12. ASSUME NEW s \in Sessions, CreatePartnerUser(s)
       PROVE  UserInv'
  <2> DEFINE k == job[s].key
             i == job[s].with
  <2>1. /\ pc[s] = "partner" /\ CreateUser(PartnerOffers[k], {}, k)
        /\ lastUsed' = lastUsed \cup {i} /\ Goto(s, "record") /\ job' = job
        /\ request' = request /\ recorded' = recorded /\ apiKeys' = apiKeys
    BY <1>12 DEF CreatePartnerUser
  <2>2. k \in PartnerKeys /\ i \in ApiKeys /\ apiKeys[i] # None
    BY <2>1 DEF UserInv, OnUser
  <2>3. PartnerOffers[k] \subseteq Identifiers
    BY <2>2 DEF Identifiers
  <2>4. ~HasCreated(k)
    <3> SUFFICES ASSUME NEW u \in users, u.by = k PROVE FALSE
      BY DEF HasCreated
    <3>1. PartnerOffers[k] \subseteq u.identifiers
      BY <2>2 DEF UserInv, UsersFit
    <3>2. PartnerOffers[k] \cap Known = {} /\ PartnerOffers[k] # {}
      BY <2>1, <2>2, UserAssumption DEF CreateUser
    <3> QED
      BY <3>1, <3>2 DEF Known
  <2>5. /\ UsersFit' /\ Known \subseteq Known'
        /\ \A x : HasCreated(x)' <=> HasCreated(x) \/ x = k
    BY <2>1, <2>2, <2>3, <2>4, UserCreated DEF UserInv
  <2>6. KeysFit' /\ KnowsAsMuch
    BY <2>1, <2>2, <2>5 DEF UserInv, KeysFit, KnowsAsMuch
  <2>7. OnUser(s)'
    <3>1. pc'[s] = "record" /\ job'[s] = job[s]
      BY <2>1 DEF Goto, Typed, Tables
    <3> QED
      BY <2>1, <2>2, <2>5, <3>1 DEF OnUser
  <2>8. UserMoves
    BY <2>1, <2>7, UserMovesOne
  <2>9. \A q \in Proposals : HasCreated(q)' <=> HasCreated(q)
    BY <2>2, <2>5, UserAssumption
  <2> QED
    BY <1>7, <2>1, <2>5, <2>6, <2>8, <2>9
<1>13. ASSUME NEW s \in Sessions, RefusePartner(s)
       PROVE  UserInv'
  <2>1. End(s) /\ request' = request /\ UNCHANGED userTables
    BY <1>13 DEF RefusePartner
  <2>2. /\ UsersFit' /\ Known \subseteq Known' /\ \A x : HasCreated(x)' <=> HasCreated(x)
    BY <2>1, UsersStay DEF keyTables
  <2>3. KeysFit' /\ KnowsAsMuch
    BY <2>1, <2>2, KeysStay DEF KnowsAsMuch
  <2>4. UserMoves
    BY <2>1, UserMovesOut
  <2> QED
    BY <1>7, <2>1, <2>2, <2>3, <2>4
<1>14. ASSUME NEW s \in Sessions, RecordKey(s)
       PROVE  UserInv'
  <2>1. /\ pc[s] = "record" /\ End(s) /\ recorded' = recorded \cup {job[s].key}
        /\ UNCHANGED <<request, users, apiKeys, lastUsed>>
    BY <1>14 DEF RecordKey
  <2>2. /\ UsersFit' /\ Known \subseteq Known' /\ \A x : HasCreated(x)' <=> HasCreated(x)
    BY <2>1, UsersStay
  <2>3. job[s].key \in PartnerKeys /\ HasCreated(job[s].key)
    BY <2>1 DEF UserInv, OnUser
  <2>4. KeysFit' /\ KnowsAsMuch
    BY <2>1, <2>2, <2>3 DEF UserInv, KeysFit, ExternalUserCreation, KnowsAsMuch
  <2>5. UserMoves
    BY <2>1, UserMovesOut
  <2> QED
    BY <1>7, <2>1, <2>2, <2>4, <2>5
<1>15. ASSUME NEW u \in users,
              \/ \E i \in Extras : AddIdentifier(u, i)
              \/ \E i \in AccountNumbers : VerifyIdentifier(u, i)
       PROVE  UserInv'
  BY <1>9, <1>15
<1> QED
  BY <1>1, <1>2, <1>3, <1>4, <1>5, <1>6, <1>8, <1>15, <1>10, <1>11, <1>12, <1>13, <1>14 DEF UserNext

\* A session dies on a user, with what it has committed; nobody does anything.
LEMMA UserCut ==
    ASSUME Typed, RowsStep, UserInv, UNCHANGED vars \/ \E s \in Sessions : Cut(s)
    PROVE  UserInv'
<1>1. /\ request' = request /\ UNCHANGED userTables
      /\ (pc' = pc /\ job' = job) \/ \E s \in Sessions : End(s)
  BY DEF Cut, vars, threads
<1>2. /\ UsersFit' /\ Known \subseteq Known' /\ \A x : HasCreated(x)' <=> HasCreated(x)
  BY <1>1, UsersStay DEF userTables, keyTables
<1>3. KeysFit' /\ KnowsAsMuch
  BY <1>1, <1>2, KeysStay DEF userTables, KnowsAsMuch
<1>4. UserMoves
  <2>1. CASE pc' = pc /\ job' = job
    BY <2>1 DEF UserMoves
  <2> QED
    BY <1>1, <2>1, UserMovesOut
<1> QED
  BY <1>1, <1>2, <1>3, <1>4, UserQuiet DEF NotNow, Of

\* At most one user is created by anybody.
LEMMA CreatedOnce ==
    ASSUME UserInv, NEW x, x # None
    PROVE  Cardinality(CreatedBy(x)) = IF HasCreated(x) THEN 1 ELSE 0
<1>1. CASE HasCreated(x)
  <2>1. PICK u \in users : u.by = x
    BY <1>1 DEF HasCreated
  <2>2. CreatedBy(x) = {u}
    BY <2>1 DEF CreatedBy, UserInv, UsersFit
  <2> QED
    BY <1>1, <2>2, FS_Singleton
<1>2. CASE ~HasCreated(x)
  <2>1. CreatedBy(x) = {}
    BY <1>2 DEF CreatedBy, HasCreated
  <2> QED
    BY <1>2, <2>1, FS_EmptySet
<1> QED
  BY <1>1, <1>2

\* A user is who his identifiers say, and is created once.
LEMMA UsersAreOne == UserInv => OneUserPerIdentifier /\ UserTypeOK
<1> SUFFICES ASSUME UserInv PROVE OneUserPerIdentifier /\ UserTypeOK
  OBVIOUS
<1>1. UserTypeOK
  BY DEF UserInv, UsersFit, KeysFit, UserTypeOK
<1>2. ASSUME NEW k \in PartnerKeys
      PROVE  Cardinality(CreatedBy(k)) \in (IF k \in recorded THEN {1} ELSE {0, 1})
  <2>1. k # None
    BY UserAssumption
  <2>2. Cardinality(CreatedBy(k)) = IF HasCreated(k) THEN 1 ELSE 0
    BY <2>1, CreatedOnce
  <2>3. k \in recorded => HasCreated(k)
    BY DEF UserInv, KeysFit
  <2> QED
    BY <2>2, <2>3
<1>3. ASSUME NEW p \in Proposals, request[p] # None, request[p].kind = "user",
             request[p].payload.op = "create"
      PROVE  Cardinality(CreatedBy(p)) = IF request[p].status = "APPLIED" THEN 1 ELSE 0
  <2>1. p # None
    BY MakerCheckerAssumption
  <2>2. Cardinality(CreatedBy(p)) = IF HasCreated(p) THEN 1 ELSE 0
    BY <2>1, CreatedOnce
  <2>3. HasCreated(p) <=> request[p].status = "APPLIED"
    BY <1>3 DEF UserInv, RequestFits, Of
  <2> QED
    BY <2>2, <2>3
<1>4. OneUserPerIdentifier
  BY <1>2, <1>3 DEF OneUserPerIdentifier, UserInv, UsersFit, KeysFit
<1> QED
  BY <1>1, <1>4

-----------------------------------------------------------------------------
(* Commission batches                                                      *)

\* A row of a batch of its queue.
LEMMA BatchTyped ==
    ASSUME Typed, NEW p \in Proposals, Of(p, "batch")
    PROVE  request[p] \in CommissionBatch
BY DEF Typed, RowsTyped, Of, RequestOf

\* The rows of a batch are the rows of its file.
LEMMA AcceptedRows ==
    ASSUME Typed, NEW p \in Proposals, Of(p, "batch"), BatchFits(p)
    PROVE  /\ Accepted(p) \subseteq DOMAIN request[p].payload.rows
           /\ DOMAIN request[p].rows \subseteq RowNumbers /\ Accepted(p) \subseteq RowNumbers
<1>1. request[p].payload \in BatchOffers
  BY BatchTyped, BatchEdits
<1>2. DOMAIN request[p].payload.rows \subseteq RowNumbers
  BY <1>1 DEF RowNumbers
<1> QED
  BY <1>2 DEF Accepted, BatchFits

\* Nothing happens to batch p.
BatchAlone(p) ==
    /\ request'[p] = request[p]
    /\ \A i \in RowNumbers : Paid(p, i)' <=> Paid(p, i)
    /\ \A s \in Sessions :
          (BatchAt(s) /\ job[s].p = p) \/ (BatchAt(s)' /\ job'[s].p = p) =>
              pc'[s] = pc[s] /\ job'[s] = job[s]

\* A batch to which nothing happens stays as it is.
LEMMA BatchFitsKept ==
    ASSUME Typed, NEW p \in Proposals, BatchFits(p), BatchAlone(p), disturbed \subseteq disturbed'
    PROVE  BatchFits(p)'
<1>1. Of(p, "batch")' <=> Of(p, "batch")
  BY DEF BatchAlone, Of
<1>2. CASE ~Of(p, "batch")
  BY <1>1, <1>2 DEF BatchFits, BatchAlone
<1>3. CASE Of(p, "batch")
  <2>1. /\ Accepted(p)' = Accepted(p) /\ DOMAIN request[p].rows \subseteq RowNumbers
        /\ Accepted(p) \subseteq RowNumbers
    BY <1>3, AcceptedRows DEF Accepted, BatchAlone
  <2>2. PaidAsTold(p)'
    BY <1>3, <2>1 DEF PaidAsTold, BatchAlone, BatchFits
  <2>3. ASSUME Calm(p) PROVE Calm(p)'
    <3>1. /\ AtWork(p)' = AtWork(p)
          /\ \A s \in AtWork(p) : pc'[s] = pc[s] /\ job'[s] = job[s]
      <4>1. \A s \in AtWork(p) : pc'[s] = pc[s] /\ job'[s] = job[s]
        BY DEF AtWork, BatchAlone
      <4>2. ASSUME NEW s \in Sessions
            PROVE  (BatchAt(s) /\ job[s].p = p) <=> (BatchAt(s)' /\ job'[s].p = p)
        BY DEF BatchAlone, BatchAt
      <4> QED
        BY <4>1, <4>2 DEF AtWork
    <3>2. ASSUME NEW s \in AtWork(p) PROVE Paying(s)' <=> Paying(s)
      <4>1. pc'[s] = pc[s]
        BY <3>1
      <4> QED
        BY <4>1 DEF Paying
    <3>3. ASSUME NEW s \in AtWork(p), Paying(s) PROVE MidWay(s, p)'
      <4>1. MidWay(s, p)
        BY <2>3, <3>3 DEF Calm
      <4>2. job'[s] = job[s]
        BY <3>1
      <4> QED
        BY <4>1, <4>2, <2>1 DEF MidWay, BatchAlone
    <3>4. Untouched(p) => Untouched(p)'
      BY <2>1 DEF Untouched, BatchAlone
    <3>5. Settled(p) => Settled(p)'
      BY <2>1 DEF Settled, BatchAlone
    <3> QED
      BY <2>3, <3>1, <3>2, <3>3, <3>4, <3>5 DEF Calm, BatchAlone
  <2> QED
    BY <1>1, <1>3, <2>2, <2>3 DEF BatchFits, BatchAlone
<1> QED
  BY <1>2, <1>3

\* A session that does not move knows of its rows what it knew, if no row it
\* may pay is taken from it and no payout undone.
LEMMA OnRowsKept ==
    ASSUME NEW s \in Sessions, OnRows(s), pc'[s] = pc[s], job'[s] = job[s],
           Paying(s) => /\ Accepted(job[s].p) \subseteq Accepted(job[s].p)'
                        /\ \A i \in Accepted(job[s].p) : Paid(job[s].p, i) => Paid(job[s].p, i)'
    PROVE  OnRows(s)'
<1>1. Paying(s)' <=> Paying(s)
  BY DEF Paying
<1>2. pc'[s] = "decide" => job'[s].todo = {} /\ DOMAIN job'[s].staged = {} /\ job'[s].fresh
  BY DEF OnRows
<1>3. pc'[s] = "pay" => job'[s].row \in job'[s].todo
  BY DEF OnRows
<1>4. ASSUME Paying(s)
      PROVE  /\ job'[s].todo \subseteq Accepted(job[s].p)'
             /\ DOMAIN job'[s].staged \subseteq Accepted(job[s].p)'
             /\ \A i \in DOMAIN job'[s].staged : job'[s].staged[i] = "posted" => Paid(job[s].p, i)'
  <2>1. /\ job[s].todo \subseteq Accepted(job[s].p) /\ DOMAIN job[s].staged \subseteq Accepted(job[s].p)
        /\ \A i \in DOMAIN job[s].staged : job[s].staged[i] = "posted" => Paid(job[s].p, i)
    BY <1>4 DEF OnRows
  <2>2. /\ Accepted(job[s].p) \subseteq Accepted(job[s].p)'
        /\ \A i \in Accepted(job[s].p) : Paid(job[s].p, i) => Paid(job[s].p, i)'
    BY <1>4
  <2> QED
    BY <2>1, <2>2
<1> QED
  BY <1>1, <1>2, <1>3, <1>4 DEF OnRows

\* The steps of the other queues.
LEMMA BatchElsewhere ==
    ASSUME Typed, BatchInv, Fixed("batch"), Still("batch"), disturbed' = disturbed, Ledgered',
           RowsStep, \A p \in Proposals : \A i \in RowNumbers : txn'[RowKey(p, i)] = txn[RowKey(p, i)]
    PROVE  BatchInv'
<1>1. ASSUME NEW p \in Proposals PROVE BatchFits(p)'
  <2>1. \A i \in RowNumbers : Paid(p, i)' <=> Paid(p, i)
    BY DEF Paid
  <2>2. CASE Of(p, "batch")
    <3>1. BatchAlone(p)
      BY <2>1, <2>2 DEF BatchAlone, Fixed, Still, LabelsOf, BatchAt
    <3> QED
      BY <3>1, BatchFitsKept DEF BatchInv
  <2>3. CASE ~Of(p, "batch")
    <3>1. ~Of(p, "batch")'
      BY <2>3 DEF Fixed, Of
    <3> QED
      BY <2>1, <2>3, <3>1 DEF BatchInv, BatchFits
  <2> QED
    BY <2>2, <2>3
<1>2. ASSUME NEW s \in Sessions PROVE OnRows(s)'
  <2>1. CASE pc'[s] \in {"decide", "row", "pay"}
    <3>1. pc'[s] = pc[s] /\ job'[s] = job[s]
      BY <2>1 DEF Still, LabelsOf
    <3>2. job[s].p \in Proposals /\ Of(job[s].p, "batch")
      BY <2>1, <3>1, BatchSession, BatchEdits DEF BatchAt, Of
    <3>3. Accepted(job[s].p)' = Accepted(job[s].p) /\ Accepted(job[s].p) \subseteq RowNumbers
      BY <3>1, <3>2, AcceptedRows DEF Accepted, Fixed, BatchInv
    <3>4. OnRows(s)
      BY DEF BatchInv
    <3>5. \A i \in Accepted(job[s].p) : Paid(job[s].p, i) => Paid(job[s].p, i)'
      BY <3>1, <3>2, <3>3 DEF Paid
    <3> QED
      BY <3>1, <3>3, <3>4, <3>5, OnRowsKept
  <2>2. CASE pc'[s] \notin {"decide", "row", "pay"}
    BY <2>2 DEF OnRows, Paying
  <2> QED
    BY <2>1, <2>2
<1> QED
  BY <1>1, <1>2 DEF BatchInv

\* A session steps, on one batch.
LEMMA OneBatch ==
    ASSUME Typed, RowsStep, BatchInv, NEW s \in Sessions, NEW p \in Proposals, Of(p, "batch"),
           Others(p), \A t \in Sessions \ {s} : pc'[t] = pc[t] /\ job'[t] = job[t],
           BatchAt(s) => job[s].p = p, BatchAt(s)' => job'[s].p = p,
           \A q \in Proposals \ {p} : \A i \in RowNumbers : txn'[RowKey(q, i)] = txn[RowKey(q, i)],
           \A i \in RowNumbers : Paid(p, i) => Paid(p, i)',
           Accepted(p)' = Accepted(p),
           Ledgered', disturbed \subseteq disturbed', disturbed' \subseteq Proposals,
           BatchFits(p)', OnRows(s)'
    PROVE  BatchInv'
<1>1. ASSUME NEW q \in Proposals \ {p} PROVE BatchFits(q)'
  <2>1. request'[q] = request[q] /\ \A i \in RowNumbers : Paid(q, i)' <=> Paid(q, i)
    BY DEF Others, Paid
  <2>2. ASSUME NEW t \in Sessions, (BatchAt(t) /\ job[t].p = q) \/ (BatchAt(t)' /\ job'[t].p = q)
        PROVE  pc'[t] = pc[t] /\ job'[t] = job[t]
    <3>1. t # s
      BY <2>2
    <3> QED
      BY <3>1
  <2>3. BatchAlone(q)
    BY <2>1, <2>2 DEF BatchAlone
  <2> QED
    BY <2>3, BatchFitsKept DEF BatchInv
<1>2. ASSUME NEW t \in Sessions \ {s} PROVE OnRows(t)'
  <2>1. OnRows(t) /\ pc'[t] = pc[t] /\ job'[t] = job[t]
    BY DEF BatchInv
  <2>2. CASE pc[t] \in {"decide", "row", "pay"}
    <3> DEFINE q == job[t].p
    <3>1. q \in Proposals /\ Of(q, "batch")
      BY <2>2, BatchSession, BatchEdits DEF BatchAt, Of
    <3>2. Accepted(q) \subseteq RowNumbers
      BY <3>1, AcceptedRows DEF BatchInv
    <3>3. CASE q = p
      BY <2>1, <3>2, <3>3, OnRowsKept
    <3>4. CASE q # p
      <4>1. request'[q] = request[q] /\ \A i \in RowNumbers : Paid(q, i)' <=> Paid(q, i)
        BY <3>1, <3>4, <2>1 DEF Others, Paid
      <4>2. Accepted(q)' = Accepted(q)
        BY <4>1, <2>1 DEF Accepted
      <4> QED
        BY <2>1, <3>2, <4>1, <4>2, OnRowsKept
    <3> QED
      BY <3>3, <3>4
  <2>3. CASE pc[t] \notin {"decide", "row", "pay"}
    BY <2>1, <2>3 DEF OnRows, Paying
  <2> QED
    BY <2>2, <2>3
<1> QED
  BY <1>1, <1>2 DEF BatchInv

\* A batch in the hands of one session, before the step and after.
LEMMA Sole ==
    ASSUME NEW p, Calm(p), NEW s \in Sessions, BatchAt(s), job[s].p = p
    PROVE  /\ \A t \in Sessions \ {s} : ~(BatchAt(t) /\ job[t].p = p)
           /\ request[p].status = "PENDING"
           /\ Paying(s) => MidWay(s, p)
           /\ ~Paying(s) => Untouched(p)
<1>1. s \in AtWork(p) /\ \A t \in AtWork(p) : t = s
  BY DEF AtWork, Calm
<1> QED
  BY <1>1 DEF Calm, AtWork

\* A batch that one session alone works on is calm.
LEMMA CalmAlone ==
    ASSUME NEW p, NEW s \in Sessions, \A t \in Sessions \ {s} : ~(BatchAt(t)' /\ job'[t].p = p),
           BatchAt(s)' => job'[s].p = p /\ request'[p].status = "PENDING",
           Paying(s)' => MidWay(s, p)', ~Paying(s)' => Untouched(p)', Settled(p)'
    PROVE  Calm(p)'
<1>1. AtWork(p)' \subseteq {s} /\ AtWork(p)' \subseteq Sessions /\ (Paying(s)' => BatchAt(s)')
  BY DEF AtWork, Paying, BatchAt
<1>2. s \in AtWork(p)' <=> BatchAt(s)'
  BY DEF AtWork
<1>3. (\A t \in AtWork(p)' : ~Paying(t)') => ~Paying(s)'
  BY <1>1, <1>2
<1>4. \A t \in AtWork(p)' : t = s
  BY <1>1
<1>5. AtWork(p)' # {} => request'[p].status = "PENDING"
  BY <1>1, <1>2
<1> QED
  BY <1>3, <1>4, <1>5 DEF Calm

\* What a commit of session s makes of its batch.
LEMMA Overlay ==
    ASSUME Typed, NEW s \in Sessions, pc[s] \in OnBatch, NEW staged \in Marks
    PROVE  LET p == job[s].p
               c == Committed(s, staged)
           IN  /\ c.kind = "batch" /\ c.status = request[p].status /\ c.payload = request[p].payload
               /\ DOMAIN c.rows = DOMAIN request[p].rows
               /\ \A i \in DOMAIN request[p].rows :
                     c.rows[i] = IF i \in DOMAIN staged THEN staged[i] ELSE request[p].rows[i]
<1> DEFINE p == job[s].p
           row == IF job[s].fresh THEN Reviewed(job[s].admin, "approved", p) ELSE request[p]
           rows == [i \in DOMAIN row.rows |-> IF i \in DOMAIN staged THEN staged[i] ELSE row.rows[i]]
<1>1. request[p] \in CommissionBatch
  BY BatchSession DEF BatchAt, OnBatch
<1>2. row \in CommissionBatch
  BY <1>1, BatchReview DEF BatchAt, OnBatch
<1>3. /\ row.kind = "batch" /\ row.status = request[p].status /\ row.payload = request[p].payload
      /\ row.rows = request[p].rows
  BY <1>1 DEF Reviewed, CommissionBatch
<1>4. Committed(s, staged) = [row EXCEPT !.rows = rows]
  BY DEF Committed
<1> HIDE DEF row, rows
<1>5. /\ Committed(s, staged).kind = row.kind /\ Committed(s, staged).status = row.status
      /\ Committed(s, staged).payload = row.payload /\ Committed(s, staged).rows = rows
  BY <1>2, <1>4 DEF CommissionBatch
<1> QED
  BY <1>3, <1>5 DEF rows

\* A session opens a batch.
LEMMA BatchOpens ==
    ASSUME Typed, RowsStep, BatchInv, NEW s \in Sessions, NEW a \in Admins, NEW p \in Proposals,
           OpenBatch(s, a, p) \/ OpenRejection(s, a, p)
    PROVE  BatchInv'
<1>1. /\ Of(p, "batch") /\ request[p].status = "PENDING" /\ request' = request
      /\ txn' = txn /\ book' = book /\ pc[s] = "idle" /\ Disturb(s, p)
  BY DEF OpenBatch, OpenRejection, MayApprove, Is, Of, Start, absVars
<1>2. PICK label, work :
          /\ label \in {"decide", "reject"} /\ Start(s, label, work) /\ work.p = p
          /\ label = "decide" => work.todo = {} /\ DOMAIN work.staged = {} /\ work.fresh
  <2>1. CASE OpenBatch(s, a, p)
    <3> DEFINE work == [p |-> p, admin |-> a, approvers |-> Approvers(request[p].reviews) \cup {a},
                        todo |-> {}, row |-> None, staged |-> <<>>, fresh |-> TRUE]
    <3>1. Start(s, "decide", work) /\ work.p = p /\ work.todo = {} /\ work.fresh
      BY <2>1 DEF OpenBatch
    <3>2. DOMAIN work.staged = {}
      OBVIOUS
    <3> HIDE DEF work
    <3> QED
      BY <3>1, <3>2
  <2>2. CASE OpenRejection(s, a, p)
    BY <2>2 DEF OpenRejection
  <2> QED
    BY <2>1, <2>2
<1>3. /\ pc'[s] = label /\ job'[s] = work
      /\ \A t \in Sessions \ {s} : pc'[t] = pc[t] /\ job'[t] = job[t]
  BY <1>2 DEF Start, Goto, Typed, Tables
<1>4. disturbed \subseteq disturbed' /\ disturbed' \subseteq Proposals
  BY <1>1 DEF Disturb, BatchInv
<1>5. OnRows(s)'
  BY <1>2, <1>3 DEF OnRows, Paying
<1>6. Ledgered' /\ Accepted(p)' = Accepted(p) /\ Others(p) /\ \A i : Paid(p, i)' <=> Paid(p, i)
  BY <1>1 DEF BatchInv, Ledgered, Accepted, Others, Paid
<1>7. ASSUME p \notin disturbed' PROVE Calm(p)'
  <2>1. p \notin disturbed /\ AtWork(p) \ {s} = {}
    BY <1>1, <1>7 DEF Disturb
  <2>2. AtWork(p) = {}
    BY <2>1, <1>1 DEF AtWork, BatchAt
  <2>3. Untouched(p) /\ Settled(p)
    BY <1>1, <2>1, <2>2 DEF BatchInv, BatchFits, Calm
  <2>4. Untouched(p)' /\ Settled(p)'
    BY <1>1, <1>6, <2>3 DEF Untouched, Settled
  <2>5. \A t \in Sessions \ {s} : ~(BatchAt(t)' /\ job'[t].p = p)
    BY <1>3, <2>2 DEF AtWork, BatchAt
  <2>6. ~Paying(s)' /\ job'[s].p = p /\ request'[p].status = "PENDING"
    BY <1>1, <1>2, <1>3 DEF Paying
  <2> QED
    BY <2>4, <2>5, <2>6, CalmAlone
<1>8. BatchFits(p)'
  <2>1. Of(p, "batch")'
    BY <1>1 DEF Of
  <2>2. PaidAsTold(p)' /\ DOMAIN request'[p].rows = DOMAIN request'[p].payload.rows
    BY <1>1, <1>6 DEF BatchInv, BatchFits, PaidAsTold
  <2> QED
    BY <1>7, <2>1, <2>2 DEF BatchFits
<1>9. ~BatchAt(s) /\ job'[s].p = p
  BY <1>1, <1>2, <1>3 DEF BatchAt
<1> QED
  BY <1>1, <1>3, <1>4, <1>5, <1>6, <1>8, <1>9, OneBatch

\* A session on a batch leaves it, having paid nothing, or fails.
LEMMA BatchLeft ==
    ASSUME Typed, RowsStep, BatchInv, NEW s \in Sessions, BatchAt(s), End(s),
           NEW p \in Proposals, p = job[s].p, Others(p), txn' = txn, book' = book,
           /\ request'[p].kind = "batch"
           /\ request'[p].payload = request[p].payload
           /\ request'[p].rows = request[p].rows
           /\ \/ request'[p].status = request[p].status
              \/ pc[s] = "reject" /\ request'[p].status = "REJECTED",
           disturbed \subseteq disturbed', disturbed' \subseteq Proposals,
           Paying(s) => p \in disturbed'
    PROVE  BatchInv'
<1>1. p \in Proposals /\ Of(p, "batch")
  BY BatchSession, BatchEdits DEF Of
<1>2. /\ pc'[s] = "idle" /\ \A t \in Sessions \ {s} : pc'[t] = pc[t] /\ job'[t] = job[t]
  BY DEF End, Goto, Typed, Tables
<1>3. /\ request'[p] # None /\ Of(p, "batch")'
  <2>1. RowStep(p)
    BY <1>1 DEF RowsStep
  <2> QED
    BY <1>1, <2>1, RequestKept DEF Of
<1>4. Ledgered' /\ Accepted(p)' = Accepted(p) /\ Others(p) /\ \A i : Paid(p, i)' <=> Paid(p, i)
  BY DEF BatchInv, Ledgered, Accepted, Paid
<1>5. ASSUME p \notin disturbed' PROVE Calm(p)'
  <2>1. Calm(p)
    BY <1>1, <1>5 DEF BatchInv, BatchFits
  <2>2. \A t \in Sessions \ {s} : ~(BatchAt(t) /\ job[t].p = p)
    BY <2>1, Sole
  <2>3. request[p].status = "PENDING" /\ Untouched(p)
    BY <2>1, <1>5, Sole
  <2>4. request'[p].status \in {"PENDING", "REJECTED"} /\ request'[p].rows = request[p].rows
    BY <2>3
  <2>5. Untouched(p)' /\ Settled(p)'
    BY <1>4, <2>3, <2>4 DEF Untouched, Settled
  <2>6. \A t \in Sessions \ {s} : ~(BatchAt(t)' /\ job'[t].p = p)
    BY <1>2, <2>2 DEF BatchAt
  <2>7. ~BatchAt(s)' /\ ~Paying(s)'
    BY <1>2 DEF BatchAt, Paying
  <2> QED
    BY <2>5, <2>6, <2>7, CalmAlone
<1>6. BatchFits(p)'
  <2>1. DOMAIN request[p].rows = DOMAIN request[p].payload.rows /\ PaidAsTold(p)
    BY <1>1 DEF BatchInv, BatchFits
  <2>2. request'[p].rows = request[p].rows /\ request'[p].payload = request[p].payload
    OBVIOUS
  <2>3. PaidAsTold(p)'
    BY <1>4, <2>1, <2>2 DEF PaidAsTold
  <2> QED
    BY <1>3, <1>5, <2>1, <2>2, <2>3 DEF BatchFits
<1>7. OnRows(s)' /\ ~BatchAt(s)'
  BY <1>2 DEF OnRows, Paying, BatchAt
<1>8. /\ \A q \in Proposals \ {p} : \A i \in RowNumbers : txn'[RowKey(q, i)] = txn[RowKey(q, i)]
      /\ \A i \in RowNumbers : Paid(p, i) => Paid(p, i)'
  BY DEF Paid
<1> QED
  BY <1>1, <1>2, <1>4, <1>6, <1>7, <1>8, OneBatch

\* A session goes on with the rows of a batch, and commits nothing.
LEMMA BatchGoesOn ==
    ASSUME Typed, RowsStep, BatchInv, NEW s \in Sessions, pc[s] \in OnBatch,
           NEW p \in Proposals, p = job[s].p, request' = request, UNCHANGED absVars,
           disturbed' = disturbed, \A t \in Sessions \ {s} : pc'[t] = pc[t] /\ job'[t] = job[t],
           pc'[s] \in {"row", "pay"}, job'[s].p = p, OnRows(s)', Calm(p) => MidWay(s, p)'
    PROVE  BatchInv'
<1>1. Of(p, "batch") /\ BatchAt(s)
  BY BatchSession, BatchEdits DEF Of, OnBatch, BatchAt
<1>2. Ledgered' /\ Accepted(p)' = Accepted(p) /\ Others(p) /\ \A i : Paid(p, i)' <=> Paid(p, i)
  BY DEF BatchInv, Ledgered, Accepted, Paid, Others, absVars
<1>3. ASSUME p \notin disturbed' PROVE Calm(p)'
  <2>1. Calm(p)
    BY <1>1, <1>3 DEF BatchInv, BatchFits
  <2>2. request[p].status = "PENDING" /\ \A t \in Sessions \ {s} : ~(BatchAt(t) /\ job[t].p = p)
    BY <1>1, <2>1, Sole
  <2>3. \A t \in Sessions \ {s} : ~(BatchAt(t)' /\ job'[t].p = p)
    BY <2>2 DEF BatchAt
  <2>4. Settled(p)' /\ Paying(s)' /\ request'[p].status = "PENDING"
    BY <2>2 DEF Settled, Paying
  <2> QED
    BY <2>1, <2>3, <2>4, CalmAlone
<1>4. BatchFits(p)'
  <2>1. Of(p, "batch")'
    BY <1>1 DEF Of
  <2>2. PaidAsTold(p)' /\ DOMAIN request'[p].rows = DOMAIN request'[p].payload.rows
    BY <1>1, <1>2 DEF BatchInv, BatchFits, PaidAsTold
  <2> QED
    BY <1>3, <2>1, <2>2 DEF BatchFits
<1>5. txn' = txn /\ \A i \in RowNumbers : Paid(p, i) => Paid(p, i)'
  BY DEF Paid, absVars
<1>6. disturbed' \subseteq Proposals
  BY DEF BatchInv
<1> QED
  BY <1>1, <1>2, <1>4, <1>5, <1>6, OneBatch

\* The session that got the last approval reads the rows it may pay.
LEMMA ReadsRows ==
    ASSUME Typed, RowsStep, BatchInv, NEW s \in Sessions, ReadRows(s)
    PROVE  BatchInv'
<1> DEFINE valid == {i \in DOMAIN request[job[s].p].rows : request[job[s].p].rows[i] = "valid"}
<1>1. PICK p \in Proposals : p = job[s].p
  BY BatchSession DEF ReadRows, BatchAt
<1>2. /\ pc[s] = "decide" /\ job' = [job EXCEPT ![s].todo = valid]
      /\ pc' = [pc EXCEPT ![s] = "row"] /\ request' = request /\ UNCHANGED absVars
      /\ disturbed' = disturbed
  BY DEF ReadRows, Goto
<1>3. pc[s] \in OnBatch /\ BatchAt(s) /\ ~Paying(s) /\ job[s] \in BatchJob
  BY <1>2, BatchSession DEF OnBatch, BatchAt, Paying
<1>4. Of(p, "batch") /\ DOMAIN job[s].staged = {}
  BY <1>1, <1>2, <1>3, BatchSession, BatchEdits DEF Of, BatchInv, OnRows
<1>5. job' = [job EXCEPT ![s] = [job[s] EXCEPT !.todo = valid]]
  BY <1>2
<1> HIDE DEF valid
<1>6. /\ pc'[s] = "row" /\ job'[s] = [job[s] EXCEPT !.todo = valid]
      /\ \A t \in Sessions \ {s} : pc'[t] = pc[t] /\ job'[t] = job[t]
  BY <1>2, <1>5 DEF Typed, Tables
<1>7. job'[s].todo = valid /\ job'[s].staged = job[s].staged /\ job'[s].p = p
  BY <1>1, <1>3, <1>6 DEF BatchJob
<1>8. valid \subseteq Accepted(p) /\ Accepted(p)' = Accepted(p)
  BY <1>1, <1>2 DEF valid, Accepted
<1>9. OnRows(s)'
  BY <1>4, <1>6, <1>7, <1>8 DEF OnRows, Paying
<1>10. ASSUME Calm(p) PROVE MidWay(s, p)'
  <2>1. request[p].status = "PENDING" /\ Untouched(p)
    BY <1>1, <1>3, <1>10, Sole
  <2>2. valid = Accepted(p)
    BY <1>1, <1>8, <2>1 DEF valid, Accepted, Untouched
  <2>3. \A i \in Accepted(p) : ~Paid(p, i)'
    BY <1>2, <2>1 DEF Untouched, Paid, absVars
  <2> QED
    BY <1>4, <1>7, <1>8, <2>2, <2>3 DEF MidWay
<1> QED
  BY <1>1, <1>2, <1>3, <1>6, <1>7, <1>9, <1>10, BatchGoesOn

\* A session marks the row i of its batch.
LEMMA Staged ==
    ASSUME NEW s \in Sessions, job[s] \in BatchJob, NEW i \in Nat, NEW status
    PROVE  LET j == Stage(s, i, status)
           IN  /\ j.p = job[s].p /\ j.todo = job[s].todo \ {i} /\ j.fresh = job[s].fresh
               /\ DOMAIN j.staged = DOMAIN job[s].staged \cup {i} /\ j.staged[i] = status
               /\ \A k \in DOMAIN job[s].staged : k # i => j.staged[k] = job[s].staged[k]
<1> DEFINE marks == With(job[s].staged, i, status)
           rest == job[s].todo \ {i}
<1>1. /\ DOMAIN marks = DOMAIN job[s].staged \cup {i} /\ marks[i] = status
      /\ \A k \in DOMAIN job[s].staged : k # i => marks[k] = job[s].staged[k]
  BY DEF With
<1>2. Stage(s, i, status) = [[job[s] EXCEPT !.todo = rest] EXCEPT !.staged = marks]
  BY DEF Stage, BatchJob
<1> HIDE DEF marks, rest
<1>3. /\ Stage(s, i, status).p = job[s].p /\ Stage(s, i, status).todo = rest
      /\ Stage(s, i, status).staged = marks /\ Stage(s, i, status).fresh = job[s].fresh
  BY <1>2 DEF BatchJob
<1> QED
  BY <1>1, <1>3 DEF rest

\* A row is staged: found paid, or refused by the ledger.
LEMMA MarksRow ==
    ASSUME Typed, RowsStep, BatchInv, NEW s \in Sessions, LookUpRow(s) \/ FailRow(s)
    PROVE  BatchInv'
<1>1. /\ Paying(s) /\ pc[s] \in OnBatch /\ BatchAt(s)
      /\ request' = request /\ UNCHANGED absVars /\ disturbed' = disturbed
  BY DEF LookUpRow, FailRow, Paying, OnBatch, BatchAt
<1>2. PICK p \in Proposals : p = job[s].p
  BY <1>1, BatchSession
<1>3. /\ Of(p, "batch") /\ job[s] \in BatchJob
      /\ job[s].todo \subseteq Accepted(p) /\ DOMAIN job[s].staged \subseteq Accepted(p)
      /\ \A i \in DOMAIN job[s].staged : job[s].staged[i] = "posted" => Paid(p, i)
      /\ pc[s] = "pay" => job[s].row \in job[s].todo
  BY <1>1, <1>2, BatchSession, BatchEdits DEF Of, BatchInv, OnRows, Paying
<1>4. Accepted(p)' = Accepted(p) /\ \A i : Paid(p, i)' <=> Paid(p, i)
  BY <1>1 DEF Accepted, Paid, absVars
<1>5. Accepted(p) \subseteq Nat
  BY <1>3, BatchTyped, BatchEdits, SeqElements DEF Accepted
<1>6. Calm(p) => MidWay(s, p)
  BY <1>1, <1>2, Sole
<1>7. ASSUME NEW i \in job[s].todo, NEW status \in {"posted", "failed"},
             status = "posted" => Paid(p, i), status = "failed" => ~Paid(p, i) \/ ~Calm(p),
             job' = [job EXCEPT ![s] = Stage(s, i, status)],
             pc'[s] = "row", \A t \in Sessions \ {s} : pc'[t] = pc[t]
      PROVE  BatchInv'
  <2> DEFINE j == Stage(s, i, status)
  <2>1. /\ j.p = p /\ j.todo = job[s].todo \ {i}
        /\ DOMAIN j.staged = DOMAIN job[s].staged \cup {i} /\ j.staged[i] = status
        /\ \A k \in DOMAIN job[s].staged : k # i => j.staged[k] = job[s].staged[k]
    BY <1>2, <1>3, <1>5, Staged
  <2>2. /\ pc'[s] = "row" /\ job'[s] = j
        /\ \A t \in Sessions \ {s} : pc'[t] = pc[t] /\ job'[t] = job[t]
    BY <1>7 DEF Typed, Tables
  <2> HIDE DEF j
  <2>3. OnRows(s)'
    BY <1>3, <1>4, <1>7, <2>1, <2>2 DEF OnRows, Paying
  <2>4. ASSUME Calm(p) PROVE MidWay(s, p)'
    <3>1. MidWay(s, p)
      BY <1>6, <2>4
    <3>2. i \notin DOMAIN job[s].staged /\ ~Paid(p, i) /\ status = "failed"
      BY <1>7, <2>4, <3>1 DEF MidWay
    <3>3. job'[s].todo \cup DOMAIN job'[s].staged = Accepted(p)'
      BY <1>4, <2>1, <2>2, <3>1 DEF MidWay
    <3>4. job'[s].todo \cap DOMAIN job'[s].staged = {} /\ \A k \in job'[s].todo : ~Paid(p, k)'
      BY <1>4, <2>1, <2>2, <3>1, <3>2 DEF MidWay
    <3>5. \A k \in DOMAIN job'[s].staged :
              job'[s].staged[k] = IF Paid(p, k)' THEN "posted" ELSE "failed"
      BY <1>4, <2>1, <2>2, <3>1, <3>2 DEF MidWay
    <3> QED
      BY <3>3, <3>4, <3>5 DEF MidWay
  <2> QED
    BY <1>1, <1>2, <2>1, <2>2, <2>3, <2>4, BatchGoesOn
<1>8. ASSUME NEW i \in job[s].todo, Paid(p, i), LookUpRow(s), pc' = pc,
             job' = [job EXCEPT ![s] = Stage(s, i, "posted")]
      PROVE  BatchInv'
  <2>1. pc'[s] = "row" /\ \A t \in Sessions \ {s} : pc'[t] = pc[t]
    BY <1>8 DEF LookUpRow
  <2> QED
    BY <1>7, <1>8, <2>1
<1>9. ASSUME NEW i \in job[s].todo, job' = [job EXCEPT ![s].row = i],
             pc' = [pc EXCEPT ![s] = "pay"]
      PROVE  BatchInv'
  <2>1. job' = [job EXCEPT ![s] = [job[s] EXCEPT !.row = i]]
    BY <1>9
  <2>2. /\ pc'[s] = "pay" /\ job'[s] = [job[s] EXCEPT !.row = i]
        /\ \A t \in Sessions \ {s} : pc'[t] = pc[t] /\ job'[t] = job[t]
    BY <1>9, <2>1 DEF Typed, Tables
  <2>3. /\ job'[s].p = p /\ job'[s].todo = job[s].todo /\ job'[s].staged = job[s].staged
        /\ job'[s].row = i
    BY <1>2, <1>3, <2>2 DEF BatchJob
  <2>4. OnRows(s)'
    BY <1>3, <1>4, <1>9, <2>2, <2>3 DEF OnRows, Paying
  <2>5. Calm(p) => MidWay(s, p)'
    BY <1>4, <1>6, <2>3 DEF MidWay
  <2> QED
    BY <1>1, <1>2, <2>2, <2>3, <2>4, <2>5, BatchGoesOn
<1>10. CASE FailRow(s)
  <2>1. /\ pc[s] = "pay" /\ job' = [job EXCEPT ![s] = Stage(s, job[s].row, "failed")]
        /\ pc'[s] = "row" /\ \A t \in Sessions \ {s} : pc'[t] = pc[t]
    BY <1>10 DEF FailRow, Goto, Typed, Tables
  <2>2. job[s].row \in job[s].todo
    BY <1>3, <2>1
  <2>3. ~Paid(p, job[s].row) \/ ~Calm(p)
    BY <1>6, <2>2 DEF MidWay
  <2> QED
    BY <1>7, <2>1, <2>2, <2>3
<1>11. CASE LookUpRow(s)
  BY <1>2, <1>8, <1>9, <1>11 DEF LookUpRow, Goto
<1> QED
  BY <1>10, <1>11

\* The payout of a row, and what it leaves in the tables.
LEMMA RowPosting ==
    ASSUME Typed, NEW p \in Proposals, Of(p, "batch"), BatchFits(p), NEW i \in Accepted(p)
    PROVE  LET r == RowRequest(p, i, request[p].payload)
           IN  r \in Request /\ r.key = RowKey(p, i)
<1> DEFINE b == request[p].payload
           from == WalletOf[b.rows[i].msisdn]
           to == IF b.op = "disbursement" THEN Mains[from] ELSE b.mirror
           n == b.rows[i].amount
<1>1. b \in BatchOffers /\ i \in DOMAIN b.rows /\ i \in RowNumbers
  BY AcceptedRows, BatchTyped, BatchEdits
<1>2. n \in Int
  BY <1>1, BatchAssumption
<1>3. RowKey(p, i) \in Keys
  BY <1>1, ApprovalsAssumption
<1>4. RowRequest(p, i, b) = Transfer(RowKey(p, i), from, to, n, TRUE)
  BY DEF RowRequest
<1> HIDE DEF b, from, to, n
<1>5. /\ Transfer(RowKey(p, i), from, to, n, TRUE) \in Request
      /\ Transfer(RowKey(p, i), from, to, n, TRUE).key = RowKey(p, i)
  BY <1>2, <1>3, TransferType
<1> QED
  BY <1>4, <1>5 DEF b

\* A staged row is posted or failed.
LEMMA MarkValues == ASSUME NEW m \in Marks, NEW k \in DOMAIN m PROVE m[k] \in {"posted", "failed"}
<1>1. PICK I \in SUBSET Nat : m \in [I -> {"posted", "failed"}]
  BY DEF Marks
<1> QED
  BY <1>1

\* A row is paid, and what was staged before it is committed.
LEMMA PaysRow ==
    ASSUME Typed, RowsStep, BatchInv, NEW s \in Sessions, PayRow(s)
    PROVE  BatchInv'
<1>1. PICK p \in Proposals : p = job[s].p
  BY BatchSession DEF PayRow, BatchAt
<1> DEFINE i == job[s].row
           c == Committed(s, job[s].staged)
           j == [Stage(s, i, "posted") EXCEPT !.fresh = FALSE]
<1>2. /\ pc[s] = "pay" /\ Post(RowRequest(p, i, request[p].payload))
      /\ request' = [request EXCEPT ![p] = c] /\ job' = [job EXCEPT ![s] = j]
      /\ pc' = [pc EXCEPT ![s] = "row"] /\ disturbed' = disturbed
  BY <1>1 DEF PayRow, Posting, Goto
<1>3. /\ pc[s] \in OnBatch /\ BatchAt(s) /\ Paying(s) /\ Of(p, "batch")
      /\ job[s] \in BatchJob /\ BatchFits(p) /\ DOMAIN request[p].rows = DOMAIN request[p].payload.rows
      /\ PaidAsTold(p)
  BY <1>1, <1>2, BatchSession, BatchEdits DEF OnBatch, BatchAt, Paying, Of, BatchInv, BatchFits
<1>4. /\ job[s].todo \subseteq Accepted(p) /\ DOMAIN job[s].staged \subseteq Accepted(p)
      /\ \A k \in DOMAIN job[s].staged : job[s].staged[k] = "posted" => Paid(p, k)
      /\ i \in job[s].todo
  BY <1>1, <1>2, <1>3 DEF BatchInv, OnRows
<1>5. Accepted(p) \subseteq Nat /\ Accepted(p) \subseteq RowNumbers /\ DOMAIN request[p].rows \subseteq RowNumbers
  BY <1>3, AcceptedRows, BatchTyped, BatchEdits, SeqElements DEF Accepted
<1>6. /\ j.p = p /\ j.todo = job[s].todo \ {i}
      /\ DOMAIN j.staged = DOMAIN job[s].staged \cup {i} /\ j.staged[i] = "posted"
      /\ \A k \in DOMAIN job[s].staged : k # i => j.staged[k] = job[s].staged[k]
  <2> DEFINE st == Stage(s, i, "posted")
  <2>1. /\ st.p = p /\ st.todo = job[s].todo \ {i}
        /\ DOMAIN st.staged = DOMAIN job[s].staged \cup {i} /\ st.staged[i] = "posted"
        /\ \A k \in DOMAIN job[s].staged : k # i => st.staged[k] = job[s].staged[k]
    BY <1>1, <1>3, <1>4, <1>5, Staged
  <2>2. st \in BatchJob
    BY <1>3, <1>4, <1>5, StageTyped
  <2> HIDE DEF st
  <2>3. /\ [st EXCEPT !.fresh = FALSE].p = st.p /\ [st EXCEPT !.fresh = FALSE].todo = st.todo
        /\ [st EXCEPT !.fresh = FALSE].staged = st.staged
    BY <2>2 DEF BatchJob
  <2> QED
    BY <2>1, <2>3 DEF st
<1>7. /\ c.kind = "batch" /\ c.status = request[p].status /\ c.payload = request[p].payload
      /\ DOMAIN c.rows = DOMAIN request[p].rows
      /\ \A k \in DOMAIN request[p].rows :
            c.rows[k] = IF k \in DOMAIN job[s].staged THEN job[s].staged[k] ELSE request[p].rows[k]
  <2>1. job[s].staged \in Marks
    BY <1>3 DEF BatchJob
  <2> QED
    BY <1>1, <1>3, <2>1, Overlay
<1> HIDE DEF c, j
<1>8. /\ pc'[s] = "row" /\ job'[s] = j
      /\ \A t \in Sessions \ {s} : pc'[t] = pc[t] /\ job'[t] = job[t]
  BY <1>2 DEF Typed, Tables
<1>9. request'[p] = c /\ Others(p)
  BY <1>2, OneRow
<1>10. /\ Ledgered' /\ ~Paid(p, i) /\ txn'[RowKey(p, i)] # None
       /\ \A k \in Keys \ {RowKey(p, i)} : txn'[k] = txn[k]
  <2> DEFINE r == RowRequest(p, i, request[p].payload)
  <2>1. r \in Request /\ r.key = RowKey(p, i)
    BY <1>3, <1>4, RowPosting
  <2> HIDE DEF r
  <2> QED
    BY <1>2, <2>1, PostEffect DEF BatchInv, Paid, r
<1>11. PICK n \in RowNumbers : n = i
  BY <1>4, <1>5
<1>12. /\ \A k \in RowNumbers : Paid(p, k)' <=> Paid(p, k) \/ k = n
       /\ \A q \in Proposals \ {p} : \A k \in RowNumbers : txn'[RowKey(q, k)] = txn[RowKey(q, k)]
  <2>1. \A q \in Proposals, k \in RowNumbers : RowKey(q, k) \in Keys
    BY ApprovalsAssumption
  <2> QED
    BY <1>10, <1>11, <2>1, KeysApart DEF Paid
<1>13. Accepted(p)' = Accepted(p)
  <2>0. job[s].staged \in Marks
    BY <1>3 DEF BatchJob
  <2>1. \A k \in DOMAIN job[s].staged : job[s].staged[k] # "rejected"
    BY <2>0, MarkValues
  <2>2. ASSUME NEW k \in DOMAIN request[p].rows
        PROVE  c.rows[k] # "rejected" <=> request[p].rows[k] # "rejected"
    <3>1. CASE k \in DOMAIN job[s].staged
      <4>1. request[p].rows[k] # "rejected"
        BY <1>4, <3>1 DEF Accepted
      <4>2. c.rows[k] # "rejected"
        BY <1>7, <2>1, <3>1
      <4> QED
        BY <4>1, <4>2
    <3>2. CASE k \notin DOMAIN job[s].staged
      BY <1>7, <3>2
    <3> QED
      BY <3>1, <3>2
  <2> QED
    BY <1>7, <1>9, <2>2 DEF Accepted
<1>14. OnRows(s)'
  <2>1. job'[s].todo \subseteq Accepted(p)' /\ DOMAIN job'[s].staged \subseteq Accepted(p)'
    BY <1>4, <1>6, <1>8, <1>13
  <2>2. \A k \in DOMAIN job'[s].staged : job'[s].staged[k] = "posted" => Paid(p, k)'
    BY <1>4, <1>5, <1>6, <1>8, <1>11, <1>12
  <2> QED
    BY <1>6, <1>8, <2>1, <2>2 DEF OnRows, Paying
<1>15. PaidAsTold(p)'
  <2> SUFFICES ASSUME NEW k \in DOMAIN request[p].rows
               PROVE  /\ c.rows[k] = "posted" => Paid(p, k)'
                      /\ c.rows[k] = "rejected" => ~Paid(p, k)'
    BY <1>7, <1>9 DEF PaidAsTold
  <2>1. CASE k \in DOMAIN job[s].staged
    <3>0. job[s].staged \in Marks
      BY <1>3 DEF BatchJob
    <3>1. job[s].staged[k] # "rejected"
      BY <2>1, <3>0, MarkValues
    <3>2. c.rows[k] = job[s].staged[k]
      BY <1>7, <2>1
    <3>3. job[s].staged[k] = "posted" => Paid(p, k)
      BY <1>4, <2>1
    <3>4. k \in RowNumbers
      BY <1>5
    <3> QED
      BY <1>12, <3>1, <3>2, <3>3, <3>4
  <2>2. CASE k \notin DOMAIN job[s].staged
    <3>1. c.rows[k] = request[p].rows[k]
      BY <1>7, <2>2
    <3>2. request[p].rows[k] = "rejected" => k # n
      BY <1>4, <1>11 DEF Accepted
    <3> QED
      BY <1>3, <1>5, <1>12, <3>1, <3>2 DEF PaidAsTold
  <2> QED
    BY <2>1, <2>2
<1>16. ASSUME p \notin disturbed PROVE Calm(p)'
  <2>1. Calm(p)
    BY <1>3, <1>16 DEF BatchFits
  <2>2. /\ request[p].status = "PENDING" /\ MidWay(s, p)
        /\ \A t \in Sessions \ {s} : ~(BatchAt(t) /\ job[t].p = p)
    BY <1>1, <1>3, <2>1, Sole
  <2>3. \A t \in Sessions \ {s} : ~(BatchAt(t)' /\ job'[t].p = p)
    BY <1>8, <2>2 DEF BatchAt
  <2>4. Settled(p)' /\ Paying(s)' /\ request'[p].status = "PENDING"
    BY <1>7, <1>8, <1>9, <2>2 DEF Settled, Paying
  <2>5. MidWay(s, p)'
    <3>1. /\ job[s].todo \cup DOMAIN job[s].staged = Accepted(p)
          /\ job[s].todo \cap DOMAIN job[s].staged = {}
          /\ \A k \in job[s].todo : ~Paid(p, k)
          /\ \A k \in DOMAIN job[s].staged : job[s].staged[k] = IF Paid(p, k) THEN "posted" ELSE "failed"
      BY <1>1, <2>2 DEF MidWay
    <3>2. job'[s].todo \cup DOMAIN job'[s].staged = Accepted(p)' /\ job'[s].todo \cap DOMAIN job'[s].staged = {}
      BY <1>4, <1>6, <1>8, <1>13, <3>1
    <3>3. \A k \in job'[s].todo : ~Paid(p, k)'
      BY <1>4, <1>5, <1>6, <1>8, <1>11, <1>12, <3>1
    <3>4. ASSUME NEW k \in DOMAIN job'[s].staged
          PROVE  job'[s].staged[k] = IF Paid(p, k)' THEN "posted" ELSE "failed"
      BY <1>4, <1>5, <1>6, <1>8, <1>11, <1>12, <3>1
    <3> QED
      BY <3>2, <3>3, <3>4 DEF MidWay
  <2> QED
    BY <1>6, <1>8, <2>3, <2>4, <2>5, CalmAlone
<1>17. BatchFits(p)'
  <2>1. Of(p, "batch")'
    <3>1. request'[p] # None
      BY <1>1, <1>3, RequestKept DEF RowsStep, Of
    <3> QED
      BY <1>7, <1>9, <3>1 DEF Of
  <2> QED
    BY <1>2, <1>3, <1>7, <1>9, <1>15, <1>16, <2>1 DEF BatchFits
<1> QED
  BY <1>1, <1>2, <1>3, <1>6, <1>8, <1>9, <1>10, <1>12, <1>13, <1>14, <1>17, OneBatch DEF BatchInv

\* The last commit of a batch tells of every row.
LEMMA Finishes ==
    ASSUME Typed, RowsStep, BatchInv, NEW s \in Sessions, FinishBatch(s)
    PROVE  BatchInv'
<1>1. PICK p \in Proposals : p = job[s].p
  BY BatchSession DEF FinishBatch, BatchAt
<1> DEFINE marks == job[s].staged
           c == Committed(s, marks)
           st == IF "failed" \in Range(marks) THEN "APPLIED_PARTIAL" ELSE "APPLIED"
           row == [c EXCEPT !.status = st]
<1>2. /\ pc[s] = "row" /\ job[s].todo = {} /\ request' = [request EXCEPT ![p] = row] /\ End(s)
      /\ UNCHANGED absVars /\ disturbed' = disturbed
  BY <1>1 DEF FinishBatch
<1>3. /\ pc[s] \in OnBatch /\ BatchAt(s) /\ Paying(s) /\ Of(p, "batch")
      /\ job[s] \in BatchJob /\ BatchFits(p) /\ DOMAIN request[p].rows = DOMAIN request[p].payload.rows
      /\ PaidAsTold(p)
  BY <1>1, <1>2, BatchSession, BatchEdits DEF OnBatch, BatchAt, Paying, Of, BatchInv, BatchFits
<1>4. /\ DOMAIN marks \subseteq Accepted(p) /\ marks \in Marks
      /\ \A k \in DOMAIN marks : marks[k] = "posted" => Paid(p, k)
  BY <1>1, <1>3 DEF BatchInv, OnRows, BatchJob
<1>5. \A k \in DOMAIN marks : marks[k] \in {"posted", "failed"}
  BY <1>4, MarkValues
<1>6. /\ c \in CommissionBatch /\ c.kind = "batch" /\ c.payload = request[p].payload
      /\ DOMAIN c.rows = DOMAIN request[p].rows
      /\ \A k \in DOMAIN request[p].rows :
            c.rows[k] = IF k \in DOMAIN marks THEN marks[k] ELSE request[p].rows[k]
  BY <1>1, <1>3, <1>4, Overlay, CommittedRow
<1>7. st = "APPLIED" <=> \A k \in DOMAIN marks : marks[k] # "failed"
  BY DEF Range
<1>8. st \in {"APPLIED", "APPLIED_PARTIAL"}
  OBVIOUS
<1>9. request'[p] = row /\ Others(p)
  BY <1>2, OneRow
<1> HIDE DEF c, st
<1>10. /\ request'[p].kind = "batch" /\ request'[p].payload = request[p].payload
       /\ request'[p].rows = c.rows /\ request'[p].status = st
  BY <1>6, <1>9 DEF CommissionBatch
<1> HIDE DEF row
<1>11. PICK m : m = marks
  OBVIOUS
<1> HIDE DEF marks
<1>12. /\ Ledgered' /\ \A k : Paid(p, k)' <=> Paid(p, k)
       /\ \A q \in Proposals \ {p} : \A k \in RowNumbers : txn'[RowKey(q, k)] = txn[RowKey(q, k)]
  BY <1>2 DEF BatchInv, Ledgered, Paid, absVars
<1>13. Accepted(p)' = Accepted(p)
  <2>1. ASSUME NEW k \in DOMAIN request[p].rows
        PROVE  c.rows[k] # "rejected" <=> request[p].rows[k] # "rejected"
    <3>1. CASE k \in DOMAIN m
      <4>1. request[p].rows[k] # "rejected"
        BY <1>4, <1>11, <3>1 DEF Accepted
      <4>2. c.rows[k] # "rejected"
        BY <1>5, <1>6, <1>11, <3>1
      <4> QED
        BY <4>1, <4>2
    <3>2. CASE k \notin DOMAIN m
      BY <1>6, <1>11, <3>2
    <3> QED
      BY <3>1, <3>2
  <2> QED
    BY <1>6, <1>10, <2>1 DEF Accepted
<1>14. PaidAsTold(p)'
  <2> SUFFICES ASSUME NEW k \in DOMAIN request[p].rows
               PROVE  /\ c.rows[k] = "posted" => Paid(p, k)
                      /\ c.rows[k] = "rejected" => ~Paid(p, k)
    BY <1>6, <1>10, <1>12 DEF PaidAsTold
  <2>1. CASE k \in DOMAIN m
    BY <1>4, <1>5, <1>6, <1>11, <2>1
  <2>2. CASE k \notin DOMAIN m
    BY <1>3, <1>6, <1>11, <2>2 DEF PaidAsTold
  <2> QED
    BY <2>1, <2>2
<1>15. /\ pc'[s] = "idle" /\ \A t \in Sessions \ {s} : pc'[t] = pc[t] /\ job'[t] = job[t]
  BY <1>2 DEF End, Goto, Typed, Tables
<1>16. ASSUME p \notin disturbed PROVE Calm(p)'
  <2>1. Calm(p)
    BY <1>3, <1>16 DEF BatchFits
  <2>2. MidWay(s, p) /\ \A t \in Sessions \ {s} : ~(BatchAt(t) /\ job[t].p = p)
    BY <1>1, <1>3, <2>1, Sole
  <2>3. \A t \in Sessions \ {s} : ~(BatchAt(t)' /\ job'[t].p = p)
    BY <1>15, <2>2 DEF BatchAt
  <2>4. DOMAIN m = Accepted(p) /\ \A k \in DOMAIN m : m[k] = IF Paid(p, k) THEN "posted" ELSE "failed"
    BY <1>2, <1>11, <2>2 DEF MidWay, marks
  <2>5. \A k \in Accepted(p) : c.rows[k] = IF Paid(p, k) THEN "posted" ELSE "failed"
    BY <1>6, <1>11, <2>4 DEF Accepted
  <2>6. st = "APPLIED" <=> \A k \in Accepted(p) : Paid(p, k)
    BY <1>7, <1>11, <2>4
  <2>7. Settled(p)'
    BY <1>10, <1>12, <1>13, <2>5, <2>6 DEF Settled
  <2>8. Untouched(p)'
    BY <1>8, <1>10 DEF Untouched
  <2>9. ~BatchAt(s)' /\ ~Paying(s)'
    BY <1>15 DEF BatchAt, Paying
  <2> QED
    BY <2>3, <2>7, <2>8, <2>9, CalmAlone
<1>17. BatchFits(p)'
  <2>1. Of(p, "batch")'
    <3>1. request'[p] # None
      BY <1>1, <1>3, RequestKept DEF RowsStep, Of
    <3> QED
      BY <1>10, <3>1 DEF Of
  <2> QED
    BY <1>2, <1>3, <1>6, <1>10, <1>14, <1>16, <2>1 DEF BatchFits
<1>18. OnRows(s)' /\ ~BatchAt(s)'
  BY <1>15 DEF OnRows, Paying, BatchAt
<1> QED
  BY <1>1, <1>2, <1>3, <1>9, <1>12, <1>13, <1>15, <1>17, <1>18, OneBatch DEF BatchInv

\* A new batch has nothing paid.
LEMMA Uploads ==
    ASSUME Typed, RowsStep, BatchInv, NEW a \in Admins, NEW p \in Proposals, UploadBatch(a, p)
    PROVE  BatchInv'
<1>1. PICK b \in BatchOffers :
          File(p, [Filed("batch", a, b, None, Required(Operation[b.op]))
                       EXCEPT !.rows = ValidateRows(b.rows)])
  BY DEF UploadBatch
<1> DEFINE new == Filed("batch", a, b, None, Required(Operation[b.op]))
           verdicts == ValidateRows(b.rows)
           row == [new EXCEPT !.rows = verdicts]
<1>2. /\ request[p] = None /\ request' = [request EXCEPT ![p] = row]
      /\ UNCHANGED absVars /\ pc' = pc /\ job' = job /\ disturbed' = disturbed
  BY <1>1 DEF UploadBatch, File
<1>3. DOMAIN verdicts = DOMAIN b.rows /\ \A i \in DOMAIN verdicts : verdicts[i] \in {"valid", "rejected"}
  BY DEF ValidateRows
<1> HIDE DEF verdicts
<1>4. /\ row.kind = "batch" /\ row.payload = b /\ row.status = "PENDING" /\ row.rows = verdicts
  BY DEF Filed
<1>5. row # None
  BY UploadedRow, BatchEdits DEF verdicts
<1> HIDE DEF row, new
<1>6. request'[p] = row /\ Others(p)
  BY <1>2, OneRow
<1>7. /\ Ledgered' /\ \A q, k : Paid(q, k)' <=> Paid(q, k)
  BY <1>2 DEF BatchInv, Ledgered, Paid, absVars
<1>8. \A s \in Sessions : BatchAt(s) => job[s].p # p
  BY <1>2, BatchSession, BatchEdits
<1>9. \A s \in Sessions : BatchAt(s)' => job'[s].p # p
  BY <1>2, <1>8 DEF BatchAt
<1>10. ASSUME NEW q \in Proposals \ {p} PROVE BatchFits(q)'
  <2>1. BatchAlone(q)
    BY <1>2, <1>6, <1>7 DEF BatchAlone, Others
  <2> QED
    BY <1>2, <2>1, BatchFitsKept DEF BatchInv
<1>11. BatchFits(p)'
  <2>1. \A i \in RowNumbers : ~Paid(p, i)'
    <3>1. ~Of(p, "batch")
      BY <1>2 DEF Of
    <3> QED
      BY <1>7, <3>1 DEF BatchInv, BatchFits
  <2>2. DOMAIN b.rows \subseteq RowNumbers
    BY DEF RowNumbers
  <2>3. PaidAsTold(p)'
    BY <1>3, <1>4, <1>6, <2>1, <2>2 DEF PaidAsTold
  <2>4. Untouched(p)' /\ Settled(p)'
    <3>1. Accepted(p)' \subseteq DOMAIN b.rows /\ \A i \in Accepted(p)' : verdicts[i] = "valid"
      BY <1>3, <1>4, <1>6 DEF Accepted
    <3> QED
      BY <1>4, <1>6, <2>1, <2>2, <3>1 DEF Untouched, Settled
  <2>5. AtWork(p)' = {}
    BY <1>9 DEF AtWork
  <2>6. Calm(p)'
    BY <2>4, <2>5 DEF Calm
  <2> QED
    BY <1>3, <1>4, <1>5, <1>6, <2>1, <2>3, <2>6 DEF BatchFits, Of
<1>12. ASSUME NEW s \in Sessions PROVE OnRows(s)'
  <2>1. OnRows(s) /\ pc'[s] = pc[s] /\ job'[s] = job[s]
    BY <1>2 DEF BatchInv
  <2>2. CASE Paying(s)
    <3>1. /\ job[s].p \in Proposals \ {p} /\ BatchAt(s)
      BY <2>2, <1>8, BatchSession DEF Paying, BatchAt
    <3>2. request'[job[s].p] = request[job[s].p]
      BY <1>6, <3>1 DEF Others
    <3>3. Accepted(job[s].p)' = Accepted(job[s].p)
      BY <2>1, <3>2 DEF Accepted
    <3> QED
      BY <1>7, <2>1, <3>3, OnRowsKept
  <2>3. CASE ~Paying(s)
    BY <2>1, <2>3, OnRowsKept
  <2> QED
    BY <2>2, <2>3
<1>13. disturbed' \subseteq Proposals
  BY <1>2 DEF BatchInv
<1> QED
  BY <1>7, <1>10, <1>11, <1>12, <1>13 DEF BatchInv

\* The steps of the queue of batches keep its invariant.
LEMMA BatchKept ==
    ASSUME Typed, RowsStep, BatchInv, BatchNext PROVE BatchInv'
<1>1. ASSUME NEW s \in Sessions, SecondReview(s) PROVE BatchInv'
  <2>1. /\ BatchAt(s) /\ ~Paying(s) /\ End(s) /\ request' = request /\ UNCHANGED absVars
        /\ disturbed' = disturbed
    BY <1>1 DEF SecondReview, BatchAt, Paying
  <2>2. job[s].p \in Proposals /\ request[job[s].p].kind = "batch"
    BY <2>1, BatchSession, BatchEdits
  <2>3. Others(job[s].p) /\ txn' = txn /\ book' = book /\ disturbed' \subseteq Proposals
    BY <2>1 DEF Others, absVars, BatchInv
  <2> QED
    BY <2>1, <2>2, <2>3, BatchLeft
<1>2. ASSUME NEW s \in Sessions, RejectBatch(s) PROVE BatchInv'
  <2>1. PICK p \in Proposals : p = job[s].p
    BY <1>2, BatchSession DEF RejectBatch, BatchAt
  <2> DEFINE new == Reviewed(job[s].admin, "rejected", p)
             row == [new EXCEPT !.status = "REJECTED"]
  <2>2. /\ pc[s] = "reject" /\ End(s) /\ UNCHANGED absVars /\ disturbed' = disturbed
        /\ request' = [request EXCEPT ![p] = row]
    BY <1>2, <2>1 DEF RejectBatch
  <2>3. BatchAt(s) /\ ~Paying(s)
    BY <2>2 DEF BatchAt, Paying
  <2>4. new \in CommissionBatch /\ request[p] \in CommissionBatch
    BY <2>1, <2>3, BatchReview, BatchSession
  <2>5. new.payload = request[p].payload /\ new.rows = request[p].rows
    BY <2>4 DEF Reviewed, CommissionBatch
  <2> HIDE DEF new
  <2>6. /\ row.kind = "batch" /\ row.payload = new.payload /\ row.rows = new.rows
        /\ row.status = "REJECTED"
    BY <2>4 DEF CommissionBatch
  <2> HIDE DEF row
  <2>7. request'[p] = row /\ Others(p)
    BY <2>2, OneRow
  <2> QED
    BY <2>1, <2>2, <2>3, <2>5, <2>6, <2>7, BatchLeft DEF absVars, BatchInv
<1>3. ASSUME NEW s \in Sessions, RecordApproval(s) PROVE BatchInv'
  <2>1. PICK p \in Proposals : p = job[s].p
    BY <1>3, BatchSession DEF RecordApproval, BatchAt
  <2> DEFINE c == Committed(s, job[s].staged)
  <2>2. /\ pc[s] = "decide" /\ End(s) /\ UNCHANGED absVars /\ disturbed' = disturbed
        /\ request' = [request EXCEPT ![p] = c]
    BY <1>3, <2>1 DEF RecordApproval
  <2>3. BatchAt(s) /\ ~Paying(s) /\ pc[s] \in OnBatch
    BY <2>2 DEF BatchAt, Paying, OnBatch
  <2>4. job[s].staged \in Marks /\ DOMAIN job[s].staged = {}
    BY <2>2, <2>3, BatchSession DEF BatchJob, BatchInv, OnRows
  <2>5. /\ c.kind = "batch" /\ c.status = request[p].status /\ c.payload = request[p].payload
        /\ DOMAIN c.rows = DOMAIN request[p].rows
        /\ \A k \in DOMAIN request[p].rows : c.rows[k] = request[p].rows[k]
    BY <2>1, <2>3, <2>4, Overlay
  <2>6. c \in CommissionBatch /\ request[p] \in CommissionBatch
    BY <2>1, <2>3, <2>4, CommittedRow, BatchSession
  <2> HIDE DEF c
  <2>7. c.rows = request[p].rows
    <3>1. c.rows \in Seq(CommissionBatchRow) /\ request[p].rows \in Seq(CommissionBatchRow)
      BY <2>6, BatchEdits
    <3> QED
      BY <2>5, <3>1
  <2>8. request'[p] = c /\ Others(p)
    BY <2>2, OneRow
  <2>9. txn' = txn /\ book' = book /\ disturbed' \subseteq Proposals
    BY <2>2 DEF absVars, BatchInv
  <2>10. /\ request'[p].kind = "batch" /\ request'[p].payload = request[p].payload
         /\ request'[p].rows = request[p].rows /\ request'[p].status = request[p].status
    BY <2>5, <2>7, <2>8
  <2> QED
    BY <2>1, <2>2, <2>3, <2>8, <2>9, <2>10, BatchLeft
<1>4. ASSUME NEW s \in Sessions, PayRowConflict(s) PROVE BatchInv'
  <2>1. /\ pc[s] = "pay" /\ Paid(job[s].p, job[s].row) /\ End(s) /\ request' = request
        /\ UNCHANGED absVars /\ disturbed' = disturbed
    BY <1>4 DEF PayRowConflict
  <2>2. BatchAt(s) /\ Paying(s)
    BY <2>1 DEF BatchAt, Paying
  <2>3. PICK p \in Proposals : p = job[s].p
    BY <2>2, BatchSession
  <2>4. Of(p, "batch") /\ job[s].row \in job[s].todo
    BY <2>1, <2>2, <2>3, BatchSession, BatchEdits DEF Of, BatchInv, OnRows
  <2>5. p \in disturbed
    <3> SUFFICES ASSUME p \notin disturbed PROVE FALSE
      OBVIOUS
    <3>1. Calm(p)
      BY <2>4 DEF BatchInv, BatchFits
    <3>2. MidWay(s, p)
      BY <2>2, <2>3, <3>1, Sole
    <3> QED
      BY <2>1, <2>3, <2>4, <3>2 DEF MidWay
  <2>6. /\ Others(p) /\ txn' = txn /\ book' = book /\ disturbed' \subseteq Proposals
        /\ request'[p].kind = "batch"
    BY <2>1, <2>4 DEF Others, absVars, BatchInv, Of
  <2> QED
    BY <2>1, <2>2, <2>3, <2>5, <2>6, BatchLeft
<1> QED
  BY <1>1, <1>2, <1>3, <1>4, BatchOpens, ReadsRows, MarksRow, PaysRow, Finishes, Uploads
     DEF BatchNext

\* A session that dies in the midst of a batch disturbs it.
LEMMA BatchCut ==
    ASSUME Typed, RowsStep, BatchInv, NEW s \in Sessions, Cut(s) PROVE BatchInv'
<1>1. /\ pc[s] # "idle" /\ End(s) /\ request' = request /\ UNCHANGED absVars
      /\ disturbed' = IF pc[s] \in {"row", "pay"} THEN disturbed \cup {job[s].p} ELSE disturbed
  BY DEF Cut
<1>2. CASE BatchAt(s)
  <2>1. job[s].p \in Proposals /\ request[job[s].p].kind = "batch"
    BY <1>2, BatchSession, BatchEdits
  <2>2. /\ disturbed \subseteq disturbed' /\ disturbed' \subseteq Proposals
        /\ Paying(s) => job[s].p \in disturbed'
    BY <1>1, <2>1 DEF BatchInv, Paying
  <2>3. Others(job[s].p) /\ txn' = txn /\ book' = book
    BY <1>1 DEF Others, absVars
  <2> QED
    BY <1>1, <1>2, <2>1, <2>2, <2>3, BatchLeft
<1>3. CASE ~BatchAt(s)
  <2>1. pc'[s] = "idle" /\ \A t \in Sessions \ {s} : pc'[t] = pc[t] /\ job'[t] = job[t]
    BY <1>1 DEF End, Goto, Typed, Tables
  <2>2. Still("batch")
    BY <1>3, <2>1 DEF Still, LabelsOf, BatchAt
  <2>3. Fixed("batch") /\ disturbed' = disturbed /\ Ledgered' /\ txn' = txn
    BY <1>1, <1>3 DEF Fixed, BatchAt, BatchInv, Ledgered, absVars
  <2> QED
    BY <2>2, <2>3, BatchElsewhere
<1> QED
  BY <1>2, <1>3

-----------------------------------------------------------------------------
(* Schedules                                                               *)

\* Creations that add bands after the step did so before it.
LEMMA FillingShrinks ==
    ASSUME Typed, RowsStep,
           \A w \in Sessions : pc'[w] = "bands" => pc[w] = "bands" /\ job'[w].p = job[w].p
    PROVE  Filling' \subseteq Filling
<1> SUFFICES ASSUME NEW w \in Sessions, pc'[w] = "bands"
             PROVE  request'[job'[w].p].payload.scope \in Filling
  BY DEF Filling
<1>1. pc[w] = "bands" /\ job'[w].p = job[w].p
  OBVIOUS
<1>2. PICK p : p = job[w].p
  OBVIOUS
<1>3. p \in Proposals /\ Of(p, "config") /\ request[p].status = "APPLIED"
  BY <1>1, <1>2 DEF Typed, JobsTyped, JobTyped, OnRequest, Of
<1>4. request'[p].payload = request[p].payload
  BY <1>3, RequestKept DEF RowsStep, Of, Locked
<1>5. request[p].payload.scope \in Filling
  BY <1>1, <1>2 DEF Filling
<1> QED
  BY <1>1, <1>2, <1>4, <1>5

\* No request is opened by the step, or moved to another scope.
LEMMA NoMoreStacked ==
    ASSUME \A q \in Proposals : \A sc : OpenOn(request', q, sc) => OpenOn(request, q, sc)
    PROVE  Stacked(request') \subseteq Stacked(request)
BY DEF Stacked

\* The request that session s will replace a schedule for.
LEMMA Replacing ==
    ASSUME Typed, HeldReady, NEW s \in Sessions, pc[s] = "replace"
    PROVE  /\ job[s].p \in Proposals /\ Of(job[s].p, "config")
           /\ request[job[s].p].status = "PENDING"
           /\ OpenOn(request, job[s].p, request[job[s].p].payload.scope)
BY DEF Typed, JobsTyped, JobTyped, OnRequest, HeldReady, ReadyToApply, Of, OpenOn, Open

\* What session s has read is worth after the step what it was before.
ReadKept(s) ==
    /\ pc'[s] = pc[s] /\ job'[s] = job[s]
    /\ \A sc : sc = request[job[s].p].payload.scope /\ sc \notin stacked' /\ sc \notin Filling =>
           /\ \A r : r.scope = sc => (r \in live' <=> r \in live)
           /\ sc \notin Filling'

ReadAfresh(s) ==
    \E q, sc :
        /\ job'[s].p = q /\ request'[q].payload.scope = sc
        /\ sc \notin stacked' => sc \notin Filling'
        /\ job'[s].old = {r \in live' : r.scope = sc}

\* The schedules' invariant, if every session that will replace a schedule has
\* read it in this step or knows what it knew.
LEMMA ScopesKept ==
    ASSUME Typed, HeldReady, RowsStep, ScopeInv, stacked \subseteq stacked',
           Stacked(request') \subseteq stacked',
           \A s \in Sessions : pc'[s] = "replace" => ReadKept(s) \/ ReadAfresh(s)
    PROVE  ScopeInv'
<1> SUFFICES ASSUME NEW s \in Sessions, pc'[s] = "replace"
             PROVE  \E q, sc : /\ job'[s].p = q /\ request'[q].payload.scope = sc
                               /\ \A r \in job'[s].old : r.scope = sc
                               /\ sc \notin stacked' =>
                                     job'[s].old = {r \in live' : r.scope = sc} /\ sc \notin Filling'
  BY DEF ScopeInv, HasRead, InScope
<1>1. CASE ReadAfresh(s)
  BY <1>1 DEF ReadAfresh
<1>2. CASE ReadKept(s)
  <2>1. PICK q : q = job[s].p
    OBVIOUS
  <2>2. PICK sc : sc = request[q].payload.scope
    OBVIOUS
  <2>3. pc[s] = "replace" /\ job'[s] = job[s]
    BY <1>2 DEF ReadKept
  <2>4. request'[q] = request[q]
    BY <1>2, <2>1, <2>3, HeldKept DEF ReadKept
  <2>5. /\ \A r \in job[s].old : r.scope = sc
        /\ sc \notin stacked => job[s].old = {r \in live : r.scope = sc} /\ sc \notin Filling
    BY <2>1, <2>2, <2>3 DEF ScopeInv, HasRead, InScope
  <2>6. ASSUME sc \notin stacked'
        PROVE  job[s].old = {r \in live' : r.scope = sc} /\ sc \notin Filling'
    <3>1. job[s].old = {r \in live : r.scope = sc} /\ sc \notin Filling
      BY <2>5, <2>6
    <3>2. (\A r : r.scope = sc => (r \in live' <=> r \in live)) /\ sc \notin Filling'
      BY <1>2, <2>1, <2>2, <2>6, <3>1 DEF ReadKept
    <3> QED
      BY <3>1, <3>2
  <2>7. job'[s].p = q /\ request'[q].payload.scope = sc /\ job'[s].old = job[s].old
    BY <2>1, <2>2, <2>3, <2>4
  <2> QED
    BY <2>5, <2>6, <2>7
<1> QED
  BY <1>1, <1>2

\* A step that leaves the schedules, and no creation to its bands.
LEMMA ScopesQuiet ==
    ASSUME Typed, HeldReady, RowsStep, ScopeInv, live' = live, stacked \subseteq stacked',
           Stacked(request') \subseteq stacked',
           \A s \in Sessions : pc'[s] \in {"replace", "bands"} => pc'[s] = pc[s] /\ job'[s] = job[s]
    PROVE  ScopeInv'
<1>1. Filling' \subseteq Filling
  BY FillingShrinks
<1>2. \A s \in Sessions : pc'[s] = "replace" => ReadKept(s)
  BY <1>1 DEF ReadKept
<1> QED
  BY <1>2, ScopesKept

\* The steps of the other queues.
LEMMA ScopesElsewhere ==
    ASSUME Typed, HeldReady, RowsStep, ScopeInv, Fixed("config"), Still("config"),
           UNCHANGED configVars
    PROVE  ScopeInv'
<1>1. \A q \in Proposals : \A sc : OpenOn(request', q, sc) => OpenOn(request, q, sc)
  BY DEF OpenOn, Fixed, Of
<1>2. Stacked(request') \subseteq stacked'
  BY <1>1, NoMoreStacked DEF ScopeInv, configVars
<1>3. \A s \in Sessions : pc'[s] \in {"replace", "bands"} => pc'[s] = pc[s] /\ job'[s] = job[s]
  BY DEF Still, LabelsOf
<1> QED
  BY <1>2, <1>3, ScopesQuiet DEF configVars

\* A scope with two open requests has been stacked.
LEMMA TwoOpen ==
    ASSUME Typed, ScopeInv, NEW q \in Proposals, NEW r \in Proposals, q # r, NEW sc,
           OpenOn(request, q, sc), OpenOn(request, r, sc)
    PROVE  sc \in stacked
<1>1. request[q].payload \in ConfigOffers
  BY RowTyped DEF OpenOn, Locked, OffersOf
<1>2. sc \in Scopes
  BY <1>1 DEF Scopes, OpenOn
<1> QED
  BY <1>2 DEF Stacked, ScopeInv

\* A request that is no longer open after the step opens no other.
LEMMA OneCloses ==
    ASSUME NEW p \in Proposals, Others(p), \A sc : ~OpenOn(request', p, sc)
    PROVE  Stacked(request') \subseteq Stacked(request)
<1>1. \A q \in Proposals : \A sc : OpenOn(request', q, sc) => OpenOn(request, q, sc)
  BY DEF Others, OpenOn
<1> QED
  BY <1>1, NoMoreStacked

\* A creation adds its first band where nobody is about to replace what he has
\* read, but in a stacked scope; so does every later band.
LEMMA FirstBand ==
    ASSUME Typed, HeldReady, RowsStep, ScopeInv,
           NEW s \in Sessions, NEW a \in Admins, NEW p \in Proposals, ApplyFirstBand(s, a, p)
    PROVE  ScopeInv'
<1> DEFINE sp == request[p].payload.scope
<1>1. /\ ReadyToApply(a, p, "config") /\ Unlocked(p) /\ Applied(a, p) /\ stacked' = stacked
      /\ live' = live \cup {ConfigRow(p, 1)}
  BY DecidesReady DEF ApplyFirstBand, Decides, MayApprove, Is, Locked
<1>2. /\ request'[p].status = "APPLIED" /\ request'[p].payload = request[p].payload /\ Others(p)
      /\ OpenOn(request, p, sp)
  BY <1>1, AppliedNow, OneRow DEF Locked, Applied, ReadyToApply, OpenOn, Open
<1>3. Stacked(request') \subseteq stacked'
  BY <1>1, <1>2, OneCloses DEF ScopeInv, OpenOn, Open
<1>4. /\ \A t \in Sessions \ {s} : pc'[t] = pc[t] /\ job'[t] = job[t]
      /\ \/ pc'[s] = pc[s] /\ job'[s] = job[s]
         \/ pc'[s] = "bands" /\ job'[s].p = p
  <2>1. CASE Start(s, "bands", [p |-> p, next |-> 2])
    BY <2>1 DEF Start, Goto, Typed, Tables
  <2>2. CASE UNCHANGED <<pc, job>>
    BY <2>2
  <2> QED
    BY <2>1, <2>2 DEF ApplyFirstBand
<1>5. ASSUME NEW t \in Sessions, pc'[t] = "replace" PROVE ReadKept(t)
  <2>1. pc[t] = "replace" /\ pc'[t] = pc[t] /\ job'[t] = job[t]
    BY <1>4, <1>5
  <2>2. PICK q \in Proposals : q = job[t].p
    BY <2>1, Replacing
  <2>3. q # p
    BY <1>1, <2>1, <2>2 DEF Unlocked
  <2>4. ASSUME NEW sc, sc = request[q].payload.scope, sc \notin stacked', sc \notin Filling
        PROVE  (\A r : r.scope = sc => (r \in live' <=> r \in live)) /\ sc \notin Filling'
    <3>1. sc # sp
      BY <1>1, <1>2, <2>1, <2>2, <2>3, <2>4, TwoOpen, Replacing
    <3>2. ConfigRow(p, 1).scope = sp
      BY DEF ConfigRow
    <3>3. ASSUME NEW w \in Sessions, pc'[w] = "bands", request'[job'[w].p].payload.scope = sc
          PROVE  FALSE
      <4>1. pc[w] = "bands" /\ job'[w] = job[w]
        BY <1>2, <1>4, <3>1, <3>3
      <4>2. PICK o \in Proposals : o = job[w].p /\ Of(o, "config") /\ request[o].status = "APPLIED"
        BY <4>1 DEF Typed, JobsTyped, JobTyped, OnRequest, Of
      <4>3. request'[o].payload = request[o].payload
        BY <4>2, RequestKept DEF RowsStep, Of, Locked
      <4>4. request[o].payload.scope \in Filling
        BY <4>1, <4>2 DEF Filling
      <4> QED
        BY <2>4, <3>3, <4>1, <4>2, <4>3, <4>4
    <3> QED
      BY <1>1, <3>1, <3>2, <3>3 DEF Filling
  <2> QED
    BY <2>1, <2>2, <2>4 DEF ReadKept
<1> QED
  BY <1>1, <1>3, <1>5, ScopesKept

LEMMA NextBand ==
    ASSUME Typed, HeldReady, RowsStep, ScopeInv, NEW s \in Sessions, ApplyNextBand(s)
    PROVE  ScopeInv'
<1> DEFINE row == ConfigRow(job[s].p, job[s].next)
<1>1. /\ pc[s] = "bands" /\ live' = live \cup {row} /\ request' = request /\ stacked' = stacked
  BY DEF ApplyNextBand
<1>2. row.scope \in Filling
  BY <1>1 DEF ConfigRow, Filling
<1> HIDE DEF row
<1>3. /\ \A t \in Sessions \ {s} : pc'[t] = pc[t] /\ job'[t] = job[t]
      /\ pc'[s] = "bands" => job'[s].p = job[s].p
      /\ pc'[s] \in {"bands", "idle"}
  <2>1. CASE job' = [job EXCEPT ![s].next = @ + 1] /\ UNCHANGED pc
    <3>1. job' = [job EXCEPT ![s] = [job[s] EXCEPT !.next = @ + 1]]
      BY <2>1
    <3>2. job'[s] = [job[s] EXCEPT !.next = @ + 1]
      BY <3>1 DEF Typed, Tables
    <3>3. job'[s].p = job[s].p
      BY <3>2, <1>1
    <3> QED
      BY <1>1, <2>1, <3>1, <3>3 DEF Typed, Tables
  <2>2. CASE End(s)
    BY <2>2 DEF End, Goto, Typed, Tables
  <2> QED
    BY <2>1, <2>2 DEF ApplyNextBand
<1>4. Filling' \subseteq Filling
  BY <1>1, <1>3, FillingShrinks
<1>5. ASSUME NEW t \in Sessions, pc'[t] = "replace" PROVE ReadKept(t)
  BY <1>1, <1>2, <1>3, <1>4, <1>5 DEF ReadKept
<1>6. Stacked(request') \subseteq stacked'
  BY <1>1 DEF ScopeInv
<1> QED
  BY <1>1, <1>5, <1>6, ScopesKept

\* What a session reads of a scope nobody fills is all there is.
LEMMA ScopeRead ==
    ASSUME Typed, HeldReady, RowsStep, ScopeInv,
           NEW s \in Sessions, NEW a \in Admins, NEW p \in Proposals, ReadScope(s, a, p)
    PROVE  ScopeInv'
<1>1. PICK sc : sc = request[p].payload.scope
  OBVIOUS
<1>2. /\ Start(s, "replace", [p |-> p, admin |-> a, old |-> InScope(sc)])
      /\ stacked' = stacked \cup ({sc} \cap Filling) /\ request' = request /\ live' = live
  BY <1>1 DEF ReadScope
<1>3. /\ pc'[s] = "replace" /\ job'[s] = [p |-> p, admin |-> a, old |-> InScope(sc)]
      /\ \A t \in Sessions \ {s} : pc'[t] = pc[t] /\ job'[t] = job[t]
  BY <1>2 DEF Start, Goto, Typed, Tables
<1>4. Filling' \subseteq Filling
  BY <1>3, FillingShrinks
<1>5. ReadAfresh(s)
  <2>1. job'[s].p = p /\ job'[s].old = {r \in live' : r.scope = sc}
    BY <1>2, <1>3 DEF InScope
  <2>2. request'[p].payload.scope = sc /\ (sc \notin stacked' => sc \notin Filling')
    BY <1>1, <1>2, <1>4
  <2> QED
    BY <2>1, <2>2 DEF ReadAfresh
<1>6. ASSUME NEW t \in Sessions \ {s}, pc'[t] = "replace" PROVE ReadKept(t)
  BY <1>2, <1>3, <1>4 DEF ReadKept
<1>7. stacked \subseteq stacked' /\ Stacked(request') \subseteq stacked'
  BY <1>2 DEF ScopeInv
<1> QED
  BY <1>5, <1>6, <1>7, ScopesKept

\* The bands that replace a schedule have its scope.
LEMMA BandsScope ==
    \A p, i : ConfigRow(p, i).scope = request[p].payload.scope
BY DEF ConfigRow

\* Who replaces a schedule takes it from nobody but in a stacked scope.
LEMMA ScopeReplaced ==
    ASSUME Typed, HeldReady, RowsStep, ScopeInv, NEW s \in Sessions, ReplaceScope(s)
    PROVE  ScopeInv'
<1>1. PICK p : p = job[s].p
  OBVIOUS
<1>2. PICK sp : sp = request[p].payload.scope
  OBVIOUS
<1>3. /\ pc[s] = "replace" /\ Applied(job[s].admin, p) /\ End(s) /\ stacked' = stacked
      /\ live' = (live \ job[s].old) \cup {ConfigRow(p, i) : i \in DOMAIN request[p].payload.bands}
  BY <1>1 DEF ReplaceScope, Replaced
<1>4. /\ p \in Proposals /\ OpenOn(request, p, sp) /\ ReadyToApply(job[s].admin, p, "config")
  BY <1>1, <1>2, <1>3, Replacing DEF HeldReady
<1>5. request'[p].status = "APPLIED" /\ Others(p)
  BY <1>3, <1>4, AppliedNow, OneRow DEF Locked, Applied
<1>6. Stacked(request') \subseteq stacked'
  BY <1>3, <1>4, <1>5, OneCloses DEF ScopeInv, OpenOn, Open
<1>7. pc'[s] = "idle" /\ \A t \in Sessions \ {s} : pc'[t] = pc[t] /\ job'[t] = job[t]
  BY <1>3 DEF End, Goto, Typed, Tables
<1>8. Filling' \subseteq Filling
  BY <1>7, FillingShrinks
<1>9. \A r \in job[s].old : r.scope = sp
  BY <1>1, <1>2, <1>3 DEF ScopeInv, HasRead
<1>10. ASSUME NEW t \in Sessions, pc'[t] = "replace" PROVE ReadKept(t)
  <2>1. t # s /\ pc[t] = "replace" /\ pc'[t] = pc[t] /\ job'[t] = job[t]
    BY <1>7, <1>10
  <2>2. PICK q \in Proposals : q = job[t].p
    BY <2>1, Replacing
  <2>3. q # p
    BY <1>1, <1>3, <1>4, <2>1, <2>2 DEF HeldReady, Holds
  <2>4. ASSUME NEW sc, sc = request[q].payload.scope, sc \notin stacked'
        PROVE  \A r : r.scope = sc => (r \in live' <=> r \in live)
    <3>1. sc # sp
      BY <1>3, <1>4, <2>1, <2>2, <2>3, <2>4, TwoOpen, Replacing
    <3> QED
      BY <1>2, <1>3, <1>9, <3>1, BandsScope
  <2> QED
    BY <1>8, <2>1, <2>2, <2>4 DEF ReadKept
<1> QED
  BY <1>3, <1>6, <1>10, ScopesKept

\* The steps of the queue of configuration requests keep the schedules'
\* invariant.
LEMMA ScopesStep ==
    ASSUME Typed, HeldReady, RowsStep, ScopeInv, ConfigNext PROVE ScopeInv'
<1>1. ASSUME NEW s \in Sessions, NEW a \in Admins, CheckConfig(s, a) PROVE ScopeInv'
  <2>1. /\ request' = request /\ live' = live /\ stacked' = stacked
        /\ \E work : Start(s, "config", work)
    BY <1>1 DEF CheckConfig, configVars
  <2>2. \A t \in Sessions : pc'[t] \in {"replace", "bands"} => pc'[t] = pc[t] /\ job'[t] = job[t]
    BY <2>1 DEF Start, Goto, Typed, Tables
  <2> QED
    BY <2>1, <2>2, ScopesQuiet DEF ScopeInv
<1>2. ASSUME NEW s \in Sessions, NEW p \in Proposals, ProposeConfig(s, p) PROVE ScopeInv'
  <2>1. /\ live' = live /\ stacked' = stacked \cup Stacked(request') /\ End(s)
    BY <1>2 DEF ProposeConfig
  <2>2. \A t \in Sessions : pc'[t] \in {"replace", "bands"} => pc'[t] = pc[t] /\ job'[t] = job[t]
    BY <2>1 DEF End, Goto, Typed, Tables
  <2> QED
    BY <2>1, <2>2, ScopesQuiet
<1>3. ASSUME NEW s \in Sessions, BandCollides(s) PROVE ScopeInv'
  <2>1. /\ request' = request /\ live' = live /\ stacked' = stacked /\ End(s)
    BY <1>3 DEF BandCollides, configVars
  <2>2. \A t \in Sessions : pc'[t] \in {"replace", "bands"} => pc'[t] = pc[t] /\ job'[t] = job[t]
    BY <2>1 DEF End, Goto, Typed, Tables
  <2> QED
    BY <2>1, <2>2, ScopesQuiet DEF ScopeInv
<1>4. ASSUME NEW p \in Proposals, ReviseConfig(p) PROVE ScopeInv'
  <2>1. /\ live' = live /\ stacked' = stacked \cup Stacked(request') /\ pc' = pc /\ job' = job
    BY <1>4 DEF ReviseConfig, Revise
  <2> QED
    BY <2>1, ScopesQuiet
<1>5. ASSUME NEW p \in Proposals,
             (\E a \in Admins : RequestConfigChanges(a, p)) \/ ResubmitConfig(p) \/ WithdrawConfig(p)
      PROVE  ScopeInv'
  <2>1. PICK a : SendBack(a, p, "config") \/ Resubmit(p, "config") \/ Withdraw(p, "config")
    BY <1>5 DEF RequestConfigChanges, ResubmitConfig, WithdrawConfig
  <2>2. /\ live' = live /\ stacked' = stacked /\ pc' = pc /\ job' = job
    BY <1>5 DEF RequestConfigChanges, ResubmitConfig, WithdrawConfig, SendBack, Resubmit, Withdraw,
                configVars
  <2>3. /\ Of(p, "config") /\ Others(p) /\ request[p].status \in Open
        /\ request'[p].payload = request[p].payload
    <3>1. ~Revise(p, "config", request[p].payload) \/ request'[p].payload = request[p].payload
      BY <2>1, SharedQuiet DEF Locked
    <3> QED
      BY <2>1, <3>1, SharedQuiet DEF Locked
  <2>4. \A q \in Proposals : \A sc : OpenOn(request', q, sc) => OpenOn(request, q, sc)
    BY <2>3 DEF Others, OpenOn, Of
  <2>5. Stacked(request') \subseteq stacked'
    BY <2>2, <2>4, NoMoreStacked DEF ScopeInv
  <2> QED
    BY <2>2, <2>5, ScopesQuiet
<1> QED
  BY <1>1, <1>2, <1>3, <1>4, <1>5, FirstBand, NextBand, ScopeRead, ScopeReplaced DEF ConfigNext

\* A schedule loses rows to a replacement only.
LEMMA WholeReplacement ==
    ASSUME Typed, HeldReady, ScopeInv, ConfigNext \/ live' = live PROVE ReplacedWhole
<1>1. ASSUME NEW s \in Sessions, ReplaceScope(s) PROVE ReplacedWhole
  <2> SUFFICES ASSUME NEW sc \in {r.scope : r \in live \ live'} \ stacked
               PROVE  \E p \in Proposals :
                          /\ request[p] # None /\ request[p].kind = "config"
                          /\ request[p].status # "APPLIED" /\ request'[p].status = "APPLIED"
                          /\ Fees({r \in live' : r.scope = sc}) = Range(request[p].payload.bands)
    BY DEF ReplacedWhole
  <2>1. PICK p : p = job[s].p
    OBVIOUS
  <2>2. PICK bands : bands = request[p].payload.bands
    OBVIOUS
  <2>3. /\ pc[s] = "replace" /\ Applied(job[s].admin, p)
        /\ live' = (live \ job[s].old) \cup {ConfigRow(p, i) : i \in DOMAIN bands}
    BY <1>1, <2>1, <2>2 DEF ReplaceScope, Replaced
  <2>4. p \in Proposals /\ Of(p, "config") /\ ReadyToApply(job[s].admin, p, "config")
    BY <2>1, <2>3, Replacing DEF HeldReady
  <2>5. request[p].status # "APPLIED" /\ request'[p].status = "APPLIED"
    BY <2>3, <2>4, AppliedNow DEF Locked, ReadyToApply
  <2>6. PICK lost \in live \ live' : lost.scope = sc
    OBVIOUS
  <2>7. lost \in job[s].old
    BY <2>3, <2>6
  <2>8. request[p].payload.scope = sc /\ job[s].old = {r \in live : r.scope = sc}
    BY <2>1, <2>3, <2>6, <2>7 DEF ScopeInv, HasRead, InScope
  <2>9. \A i : ConfigRow(p, i) = [scope |-> sc, from |-> bands[i].from, fee |-> bands[i].fee, by |-> p]
    BY <2>2, <2>8 DEF ConfigRow
  <2>10. {r \in live' : r.scope = sc} = {ConfigRow(p, i) : i \in DOMAIN bands}
    <3>1. \A i : ConfigRow(p, i).scope = sc
      BY <2>9
    <3> QED
      BY <2>3, <2>8, <3>1
  <2>11. \A i \in DOMAIN bands : bands[i] = [from |-> bands[i].from, fee |-> bands[i].fee]
    <3>1. bands \in Seq([from: Nat, fee: Nat])
      BY <2>2, <2>4, ConfigRowType DEF Of
    <3>2. ASSUME NEW i \in DOMAIN bands PROVE bands[i] \in [from: Nat, fee: Nat]
      BY <3>1, SeqElements
    <3> QED
      BY <3>2
  <2>12. \A i \in DOMAIN bands : [from |-> ConfigRow(p, i).from, fee |-> ConfigRow(p, i).fee] = bands[i]
    BY <2>9, <2>11
  <2>13. Fees({ConfigRow(p, i) : i \in DOMAIN bands}) = Range(bands)
    BY <2>12 DEF Fees, Range
  <2> QED
    BY <2>2, <2>4, <2>5, <2>10, <2>13 DEF Of
<1>2. ASSUME live \subseteq live' PROVE ReplacedWhole
  BY <1>2 DEF ReplacedWhole
<1>3. CASE live' = live
  BY <1>2, <1>3
<1>4. ASSUME ConfigNext, \A s \in Sessions : ~ReplaceScope(s) PROVE live \subseteq live'
  BY <1>4
     DEF ConfigNext, CheckConfig, ApplyFirstBand, ReadScope, ProposeConfig, ApplyNextBand,
         BandCollides, RequestConfigChanges, ReviseConfig, ResubmitConfig, WithdrawConfig, configVars
<1> QED
  BY <1>1, <1>2, <1>3, <1>4

-----------------------------------------------------------------------------
(* What a session knows                                                    *)

JobFits(s) ==
    /\ IF pc[s] = "idle" THEN job[s] = None ELSE job[s] \in Work
    /\ pc[s] = "bands" => job[s] \in [p: Proposals, next: Nat]
    /\ pc[s] \in {"decide", "row", "pay"} => job[s] \in BatchWork

\* What JobsInv says, session by session.
LEMMA JobsFit == JobsInv <=> \A s \in Sessions : JobFits(s)
BY DEF JobsInv, JobFits

\* Sessions start, stop, go on and stay with the locals of their program.
LEMMA JobStarts ==
    ASSUME Typed, JobsInv, NEW s \in Sessions, NEW label, NEW work \in Work, Start(s, label, work),
           label \notin {"idle", "bands", "decide", "row", "pay"}
    PROVE  JobsInv'
<1>1. /\ pc'[s] = label /\ job'[s] = work
      /\ \A t \in Sessions \ {s} : pc'[t] = pc[t] /\ job'[t] = job[t]
  BY DEF Start, Goto, Typed, Tables
<1>2. \A t \in Sessions : JobFits(t)'
  BY <1>1, JobsFit DEF JobFits
<1> QED
  BY <1>2 DEF JobsInv, JobFits

LEMMA JobStops ==
    ASSUME Typed, JobsInv, NEW s \in Sessions, End(s) PROVE JobsInv'
<1>1. /\ pc'[s] = "idle" /\ job'[s] = None
      /\ \A t \in Sessions \ {s} : pc'[t] = pc[t] /\ job'[t] = job[t]
  BY DEF End, Goto, Typed, Tables
<1>2. \A t \in Sessions : JobFits(t)'
  BY <1>1, JobsFit DEF JobFits
<1> QED
  BY <1>2 DEF JobsInv, JobFits

LEMMA JobGoesOn ==
    ASSUME Typed, JobsInv, NEW s \in Sessions, pc[s] # "idle", Goto(s, "link") \/ Goto(s, "record"), job' = job
    PROVE  JobsInv'
<1>1. /\ pc'[s] \in {"link", "record"} /\ job'[s] = job[s]
      /\ \A t \in Sessions \ {s} : pc'[t] = pc[t] /\ job'[t] = job[t]
  BY DEF Goto, Typed, Tables
<1>2. \A t \in Sessions : JobFits(t)'
  BY <1>1, JobsFit DEF JobFits
<1> QED
  BY <1>2 DEF JobsInv, JobFits

LEMMA JobStays == ASSUME JobsInv, pc' = pc, job' = job PROVE JobsInv'
BY DEF JobsInv

\* The locals of the sessions through the steps of the four queues.
LEMMA MoneyJobsFit ==
    ASSUME Typed, HeldReady, Ledgered, JobsInv, MoneyNext PROVE JobsInv'
<1>1. ASSUME NEW s \in Sessions, NEW a \in Admins, NEW p \in Proposals,
             ApplyFund(s, a, p) \/ ApplyFirstFund(s, a, p) \/ ApplyAdjustment(s, a, p)
      PROVE  JobsInv'
  <2>1. Start(s, "link", [p |-> p]) \/ Start(s, "post", [p |-> p])
    BY <1>1 DEF ApplyFund, ApplyFirstFund, ApplyAdjustment
  <2>2. [p |-> p] \in Work
    BY DEF Work
  <2> QED
    BY <2>1, <2>2, JobStarts
<1>2. ASSUME NEW s \in Sessions, NEW a \in Admins, NEW p \in Proposals, ReadWithdrawal(s, a, p)
      PROVE  JobsInv'
  <2> DEFINE pl == request[p].payload
             n == IF pl.amount = All THEN Available(book[pl.account]) ELSE pl.amount
  <2>1. /\ Runs(a, p, "withdraw") /\ 0 < n /\ n <= Available(book[pl.account])
        /\ Start(s, "withdraw", [p |-> p, admin |-> a, amount |-> n])
    BY <1>2 DEF ReadWithdrawal
  <2>2. pl \in MoneyOffers
    BY <2>1, RowTyped DEF Runs, Decides, MayApprove, Is, Locked, OffersOf
  <2>3. pl.op = "withdraw" /\ pl.account \in Accounts /\ pl.amount \in Int \cup {All}
    BY <2>1, <2>2, MoneyAssumption, DataAssumption DEF Runs
  <2>4. n \in Int
    BY <2>3 DEF Ledgered, Row, Available
  <2>5. [p |-> p, admin |-> a, amount |-> n] \in Work
    BY <2>4 DEF Work
  <2> HIDE DEF n
  <2> QED
    BY <2>1, <2>5, JobStarts
<1>3. ASSUME NEW s \in Sessions, PostFirstFund(s) \/ PostWithdrawal(s)
      PROVE  JobsInv'
  BY <1>3, JobGoesOn DEF PostFirstFund, PostWithdrawal
<1>4. ASSUME NEW s \in Sessions, RefuseFirstFund(s) \/ RefuseWithdrawal(s) \/ LinkMoney(s)
      PROVE  JobsInv'
  BY <1>4, JobStops DEF RefuseFirstFund, RefuseWithdrawal, LinkMoney, Link
<1>5. ASSUME pc' = pc, job' = job PROVE JobsInv'
  BY <1>5, JobStays
<1>6. ASSUME NEW a \in Admins, NEW p \in Proposals,
             ApproveMoney(a, p) \/ RequestMoneyChanges(a, p) \/ CreateBankMirror(a, p) \/ ProposeMoney(a, p)
      PROVE  JobsInv'
  BY <1>5, <1>6
     DEF ApproveMoney, Progress, RequestMoneyChanges, SendBack, CreateBankMirror, ProposeMoney
<1>7. ASSUME NEW p \in Proposals, ReviseMoney(p) \/ ResubmitMoney(p) \/ WithdrawMoney(p)
      PROVE  JobsInv'
  BY <1>5, <1>7 DEF ReviseMoney, Revise, ResubmitMoney, Resubmit, WithdrawMoney, Withdraw
<1>8. CASE RenameBankMirror
  BY <1>5, <1>8 DEF RenameBankMirror, threads
<1> QED
  BY <1>1, <1>2, <1>3, <1>4, <1>6, <1>7, <1>8 DEF MoneyNext

LEMMA UserJobsFit ==
    ASSUME Typed, JobsInv, UserNext PROVE JobsInv'
<1>1. ASSUME NEW s \in Sessions, NEW a \in Admins, NEW p \in Proposals,
             ApplyCreate(s, a, p) \/ ApplyUpdate(s, a, p)
      PROVE  JobsInv'
  <2>1. Start(s, "link", [p |-> p])
    BY <1>1 DEF ApplyCreate, ApplyUpdate
  <2>2. [p |-> p] \in Work
    BY DEF Work
  <2> QED
    BY <2>1, <2>2, JobStarts
<1>2. ASSUME NEW s \in Sessions, NEW a \in Admins, CheckUser(s, a)
      PROVE  JobsInv'
  <2>1. PICK pl \in UserOffers : Start(s, "user", [admin |-> a, payload |-> pl])
    BY <1>2 DEF CheckUser
  <2>2. [admin |-> a, payload |-> pl] \in Work
    BY DEF Work
  <2> QED
    BY <2>1, <2>2, JobStarts
<1>3. ASSUME NEW s \in Sessions, NEW k \in PartnerKeys, NEW i \in ApiKeys, ReceivePartner(s, k, i)
      PROVE  JobsInv'
  <2>1. Start(s, "partner", [key |-> k, with |-> i])
    BY <1>3 DEF ReceivePartner
  <2>2. [key |-> k, with |-> i] \in Work
    BY DEF Work
  <2> QED
    BY <2>1, <2>2, JobStarts
<1>4. ASSUME NEW s \in Sessions, CreatePartnerUser(s) PROVE JobsInv'
  BY <1>4, JobGoesOn DEF CreatePartnerUser
<1>5. ASSUME NEW s \in Sessions,
             RefusePartner(s) \/ RecordKey(s) \/ LinkUser(s) \/ \E p \in Proposals : ProposeUser(s, p)
      PROVE  JobsInv'
  BY <1>5, JobStops DEF RefusePartner, RecordKey, LinkUser, Link, ProposeUser
<1>6. ASSUME NEW p \in Proposals,
             \/ \E a \in Admins : RequestUserChanges(a, p)
             \/ ReviseUser(p) \/ ResubmitUser(p) \/ WithdrawUser(p)
      PROVE  JobsInv'
  BY <1>6, JobStays
     DEF RequestUserChanges, SendBack, ReviseUser, Revise, ResubmitUser, Resubmit, WithdrawUser,
         Withdraw
<1>7. ASSUME \/ \E i \in ApiKeys : CreateApiKey(i) \/ RevokeApiKey(i)
             \/ CreateDirectly
             \/ \E u \in users : \E i : AddIdentifier(u, i) \/ VerifyIdentifier(u, i)
      PROVE  JobsInv'
  BY <1>7, JobStays
     DEF CreateApiKey, RevokeApiKey, CreateDirectly, AddIdentifier, VerifyIdentifier, threads
<1> QED
  BY <1>1, <1>2, <1>3, <1>4, <1>5, <1>6, <1>7 DEF UserNext

LEMMA ConfigJobsFit ==
    ASSUME Typed, HeldReady, JobsInv, ConfigNext PROVE JobsInv'
<1>1. ASSUME NEW s \in Sessions, NEW a \in Admins, CheckConfig(s, a)
      PROVE  JobsInv'
  <2>1. PICK pl \in ConfigOffers, target \in live \cup {None} :
            Start(s, "config", [admin |-> a, payload |-> pl, target |-> target])
    BY <1>1 DEF CheckConfig
  <2>2. [admin |-> a, payload |-> pl, target |-> target] \in Work
    BY DEF Work, Typed, Tables
  <2> QED
    BY <2>1, <2>2, JobStarts
<1>2. ASSUME NEW s \in Sessions, NEW a \in Admins, NEW p \in Proposals, ApplyFirstBand(s, a, p)
      PROVE  JobsInv'
  <2>1. CASE Start(s, "bands", [p |-> p, next |-> 2])
    <3>1. /\ pc'[s] = "bands" /\ job'[s] = [p |-> p, next |-> 2]
          /\ \A t \in Sessions \ {s} : pc'[t] = pc[t] /\ job'[t] = job[t]
      BY <2>1 DEF Start, Goto, Typed, Tables
    <3>2. [p |-> p, next |-> 2] \in Work
      BY DEF Work
    <3>3. \A t \in Sessions : JobFits(t)'
      BY <3>1, <3>2, JobsFit DEF JobFits
    <3> QED
      BY <3>3 DEF JobsInv, JobFits
  <2>2. CASE UNCHANGED <<pc, job>>
    BY <2>2, JobStays
  <2> QED
    BY <1>2, <2>1, <2>2 DEF ApplyFirstBand
<1>3. ASSUME NEW s \in Sessions, ApplyNextBand(s)
      PROVE  JobsInv'
  <2>1. CASE job' = [job EXCEPT ![s].next = @ + 1] /\ UNCHANGED pc
    <3>1. pc[s] = "bands" /\ pc' = pc
      BY <1>3, <2>1 DEF ApplyNextBand
    <3>2. job[s] \in [p: Proposals, next: Nat]
      BY <3>1 DEF JobsInv
    <3>3. job' = [job EXCEPT ![s] = [job[s] EXCEPT !.next = @ + 1]]
      BY <2>1
    <3>4. [job[s] EXCEPT !.next = @ + 1] \in [p: Proposals, next: Nat]
      BY <3>2
    <3>5. /\ job'[s] \in [p: Proposals, next: Nat]
          /\ \A t \in Sessions \ {s} : job'[t] = job[t]
      BY <3>3, <3>4 DEF Typed, Tables
    <3>6. [p: Proposals, next: Nat] \subseteq Work
      BY DEF Work
    <3>7. \A t \in Sessions : JobFits(t)'
      BY <3>1, <3>5, <3>6, JobsFit DEF JobFits
    <3> QED
      BY <3>7 DEF JobsInv, JobFits
  <2>2. CASE End(s)
    BY <2>2, JobStops
  <2> QED
    BY <1>3, <2>1, <2>2 DEF ApplyNextBand
<1>4. ASSUME NEW s \in Sessions, NEW a \in Admins, NEW p \in Proposals, ReadScope(s, a, p)
      PROVE  JobsInv'
  <2>1. PICK old \in SUBSET live : Start(s, "replace", [p |-> p, admin |-> a, old |-> old])
    BY <1>4 DEF ReadScope, InScope
  <2>2. [p |-> p, admin |-> a, old |-> old] \in Work
    BY DEF Work, Typed, Tables
  <2> QED
    BY <2>1, <2>2, JobStarts
<1>5. ASSUME NEW s \in Sessions,
             BandCollides(s) \/ ReplaceScope(s) \/ \E p \in Proposals : ProposeConfig(s, p)
      PROVE  JobsInv'
  BY <1>5, JobStops DEF BandCollides, ReplaceScope, ProposeConfig
<1>6. ASSUME NEW p \in Proposals,
             \/ \E a \in Admins : RequestConfigChanges(a, p)
             \/ ReviseConfig(p) \/ ResubmitConfig(p) \/ WithdrawConfig(p)
      PROVE  JobsInv'
  BY <1>6, JobStays
     DEF RequestConfigChanges, SendBack, ReviseConfig, Revise, ResubmitConfig, Resubmit,
         WithdrawConfig, Withdraw
<1> QED
  BY <1>1, <1>2, <1>3, <1>4, <1>5, <1>6 DEF ConfigNext

\* A session at work on a batch goes on with what it knows by now.
LEMMA BatchGoes ==
    ASSUME Typed, JobsInv, NEW s \in Sessions, NEW label \in {"row", "pay"}, NEW work \in BatchWork,
           (pc' = pc /\ pc[s] = label) \/ pc' = [pc EXCEPT ![s] = label],
           job' = [job EXCEPT ![s] = work]
    PROVE  JobsInv'
<1>1. /\ pc'[s] = label /\ job'[s] = work
      /\ \A t \in Sessions \ {s} : pc'[t] = pc[t] /\ job'[t] = job[t]
  BY DEF Typed, Tables
<1>2. \A t \in Sessions : JobFits(t)'
  BY <1>1, JobsFit DEF JobFits, Work
<1> QED
  BY <1>2 DEF JobsInv, JobFits

\* A mark on a row of the files.
LEMMA StageFits ==
    ASSUME NEW s \in Sessions, job[s] \in BatchWork, NEW i \in RowNumbers,
           NEW status \in {"posted", "failed"}
    PROVE  /\ Stage(s, i, status) \in BatchWork
           /\ [Stage(s, i, status) EXCEPT !.fresh = FALSE] \in BatchWork
<1> DEFINE marks == With(job[s].staged, i, status)
           rest == job[s].todo \ {i}
<1>1. PICK I \in SUBSET RowNumbers : job[s].staged \in [I -> {"posted", "failed"}]
  BY DEF BatchWork
<1>2. marks \in [I \cup {i} -> {"posted", "failed"}]
  BY <1>1 DEF With
<1>3. marks \in UNION {[J -> {"posted", "failed"}] : J \in SUBSET RowNumbers}
  <2>1. I \cup {i} \in SUBSET RowNumbers
    OBVIOUS
  <2> HIDE DEF marks
  <2> QED
    BY <1>2, <2>1
<1>4. rest \in SUBSET RowNumbers
  BY DEF BatchWork
<1>5. Stage(s, i, status) = [[job[s] EXCEPT !.todo = rest] EXCEPT !.staged = marks]
  BY DEF Stage, BatchWork
<1> HIDE DEF marks, rest
<1> QED
  BY <1>3, <1>4, <1>5 DEF BatchWork

LEMMA BatchJobsFit ==
    ASSUME Typed, BatchInv, JobsInv, BatchNext PROVE JobsInv'
<1>1. ASSUME NEW s \in Sessions, NEW a \in Admins, NEW p \in Proposals, OpenBatch(s, a, p)
      PROVE  JobsInv'
  <2> DEFINE work == [p |-> p, admin |-> a, approvers |-> Approvers(request[p].reviews) \cup {a},
                      todo |-> {}, row |-> None, staged |-> <<>>, fresh |-> TRUE]
  <2>1. Start(s, "decide", work) /\ Of(p, "batch")
    BY <1>1 DEF OpenBatch, MayApprove, Is, Of
  <2>2. Approvers(request[p].reviews) \subseteq Admins
    <3>1. request[p].reviews \in Seq(CommissionBatchReview)
      BY <2>1, BatchTyped, BatchEdits
    <3>2. ASSUME NEW i \in DOMAIN request[p].reviews PROVE request[p].reviews[i].by \in Admins
      <4>1. request[p].reviews[i] \in CommissionBatchReview
        BY <3>1, SeqElements
      <4> QED
        BY <4>1 DEF CommissionBatchReview
    <3>3. \A v \in CurrentRound(request[p].reviews) : v.by \in Admins
      BY <3>2 DEF CurrentRound
    <3> QED
      BY <3>3 DEF Approvers
  <2>3. <<>> \in UNION {[I -> {"posted", "failed"}] : I \in SUBSET RowNumbers}
    <3>1. <<>> \in [{} -> {"posted", "failed"}]
      OBVIOUS
    <3> QED
      BY <3>1
  <2>4. work \in BatchWork
    BY <2>2, <2>3 DEF BatchWork
  <2> HIDE DEF work
  <2>5. /\ pc'[s] = "decide" /\ job'[s] = work
        /\ \A t \in Sessions \ {s} : pc'[t] = pc[t] /\ job'[t] = job[t]
    BY <2>1 DEF Start, Goto, Typed, Tables
  <2>6. \A t \in Sessions : JobFits(t)'
    BY <2>4, <2>5, JobsFit DEF JobFits, Work
  <2> QED
    BY <2>6 DEF JobsInv, JobFits
<1>2. ASSUME NEW s \in Sessions, NEW a \in Admins, NEW p \in Proposals, OpenRejection(s, a, p)
      PROVE  JobsInv'
  <2>1. Start(s, "reject", [p |-> p, admin |-> a])
    BY <1>2 DEF OpenRejection
  <2>2. [p |-> p, admin |-> a] \in Work
    BY DEF Work
  <2> QED
    BY <2>1, <2>2, JobStarts
<1>3. ASSUME NEW s \in Sessions,
             \/ SecondReview(s) \/ RejectBatch(s) \/ RecordApproval(s) \/ PayRowConflict(s)
             \/ FinishBatch(s)
      PROVE  JobsInv'
  BY <1>3, JobStops DEF SecondReview, RejectBatch, RecordApproval, PayRowConflict, FinishBatch
<1>4. ASSUME NEW s \in Sessions, pc[s] \in {"decide", "row", "pay"}
      PROVE  /\ job[s] \in BatchWork /\ Of(job[s].p, "batch")
             /\ DOMAIN request[job[s].p].rows \subseteq RowNumbers
             /\ Paying(s) => job[s].todo \subseteq RowNumbers
             /\ pc[s] = "pay" => job[s].row \in RowNumbers
  <2>1. PICK p \in Proposals : p = job[s].p
    BY <1>4, BatchSession DEF BatchAt
  <2>2. Of(p, "batch")
    BY <1>4, <2>1, BatchSession, BatchEdits DEF BatchAt, Of
  <2>3. DOMAIN request[p].rows \subseteq RowNumbers /\ Accepted(p) \subseteq RowNumbers
    BY <2>2, AcceptedRows DEF BatchInv
  <2>4. /\ Paying(s) => job[s].todo \subseteq Accepted(p)
        /\ pc[s] = "pay" => Paying(s) /\ job[s].row \in job[s].todo
    BY <2>1 DEF BatchInv, OnRows, Paying
  <2> QED
    BY <1>4, <2>1, <2>2, <2>3, <2>4 DEF JobsInv
<1>5. ASSUME NEW s \in Sessions, ReadRows(s)
      PROVE  JobsInv'
  <2>1. PICK valid \in SUBSET DOMAIN request[job[s].p].rows :
            job' = [job EXCEPT ![s] = [job[s] EXCEPT !.todo = valid]]
    BY <1>5 DEF ReadRows
  <2>2. pc[s] = "decide" /\ pc' = [pc EXCEPT ![s] = "row"]
    BY <1>5 DEF ReadRows, Goto
  <2>3. [job[s] EXCEPT !.todo = valid] \in BatchWork
    BY <1>4, <2>2 DEF BatchWork
  <2> QED
    BY <2>1, <2>2, <2>3, BatchGoes
<1>6. ASSUME NEW s \in Sessions, LookUpRow(s)
      PROVE  JobsInv'
  <2>1. pc[s] = "row" /\ job[s] \in BatchWork /\ job[s].todo \subseteq RowNumbers
    BY <1>4, <1>6 DEF LookUpRow, Paying
  <2>2. PICK i \in RowNumbers :
            \/ job' = [job EXCEPT ![s] = Stage(s, i, "posted")] /\ pc' = pc
            \/ job' = [job EXCEPT ![s] = [job[s] EXCEPT !.row = i]] /\ pc' = [pc EXCEPT ![s] = "pay"]
    BY <1>6, <2>1 DEF LookUpRow, Goto
  <2>3. Stage(s, i, "posted") \in BatchWork
    BY <2>1, StageFits
  <2>4. [job[s] EXCEPT !.row = i] \in BatchWork
    BY <2>1 DEF BatchWork
  <2> QED
    BY <2>1, <2>2, <2>3, <2>4, BatchGoes
<1>7. ASSUME NEW s \in Sessions, PayRow(s) \/ FailRow(s)
      PROVE  JobsInv'
  <2>1. /\ pc[s] = "pay" /\ pc' = [pc EXCEPT ![s] = "row"]
        /\ \/ job' = [job EXCEPT ![s] = [Stage(s, job[s].row, "posted") EXCEPT !.fresh = FALSE]]
           \/ job' = [job EXCEPT ![s] = Stage(s, job[s].row, "failed")]
    BY <1>7 DEF PayRow, FailRow, Goto
  <2>2. job[s] \in BatchWork /\ job[s].row \in RowNumbers
    BY <1>4, <2>1
  <2>3. /\ Stage(s, job[s].row, "failed") \in BatchWork
        /\ [Stage(s, job[s].row, "posted") EXCEPT !.fresh = FALSE] \in BatchWork
    BY <2>2, StageFits
  <2> QED
    BY <2>1, <2>3, BatchGoes
<1>8. ASSUME NEW a \in Admins, NEW p \in Proposals, UploadBatch(a, p)
      PROVE  JobsInv'
  BY <1>8, JobStays DEF UploadBatch
<1> QED
  BY <1>1, <1>2, <1>3, <1>5, <1>6, <1>7, <1>8 DEF BatchNext

-----------------------------------------------------------------------------
(* All of it                                                               *)

QueuesInv == MoneyInv /\ UserInv /\ BatchInv /\ ScopeInv /\ JobsInv

FullInv == IInv /\ QueuesInv

\* The invariant holds at the start.
LEMMA FullStarts == Init => FullInv
<1> SUFFICES ASSUME Init PROVE FullInv
  OBVIOUS
<1>1. /\ \A p \in Proposals : request[p] = None
      /\ \A s \in Sessions : pc[s] = "idle" /\ job[s] = None
      /\ \A k \in Keys : txn[k] = None
      /\ disturbed = {}
  BY DEF Init, MakerCheckerInit, AbsInit
<1>2. Ledgered
  BY DataAssumption DEF Init, MakerCheckerInit, AbsInit, Ledgered, Row
<1>3. /\ \A p \in Proposals : txn[MoneyKey(p)] = None
      /\ \A p \in Proposals : \A i \in RowNumbers : ~Paid(p, i)
  BY <1>1, ApprovalsAssumption DEF Paid
<1>4. MoneyInv
  <2>1. /\ floats \subseteq Floats /\ bare = {}
        /\ mirrors = [m \in DOMAIN Mirrored |-> [name |-> Mirrored[m], by |-> None]]
    BY DEF Init, MoneyInit
  <2>2. MoneyTypeOK
    BY <2>1, MoneyAssumption DEF MoneyTypeOK, Mirror
  <2>3. \A p \in Proposals : {m \in DOMAIN mirrors : mirrors[m].by = p} = {}
    BY <2>1, MakerCheckerAssumption
  <2>4. AppliedMoneyMoved
    BY <1>1, <1>3, <2>3 DEF AppliedMoneyMoved
  <2> QED
    BY <1>1, <1>2, <2>2, <2>4 DEF MoneyInv, Of, MoneyWork
<1>5. UserInv
  <2>1. /\ users = {[identifiers |-> {i}, verified |-> {i}, status |-> "active", by |-> None] :
                        i \in People}
        /\ recorded = {} /\ apiKeys = [i \in ApiKeys |-> None] /\ lastUsed = {}
    BY DEF Init, UserInit
  <2>2. ASSUME NEW u \in users
        PROVE  u.by = None /\ u \in User /\ \E i \in People : u = [identifiers |-> {i}, verified |-> {i}, status |-> "active", by |-> None]
    BY <2>1 DEF User, Identifiers
  <2>3. \A u, v \in users : u # v => u.identifiers \cap v.identifiers = {}
    BY <2>2
  <2>4. UsersFit
    BY <2>2, <2>3, UserAssumption DEF UsersFit
  <2>5. KeysFit
    BY <2>1 DEF KeysFit, ExternalUserCreation, ApiKey
  <2>6. \A p \in Proposals : RequestFits(p)
    BY <1>1, <2>2, MakerCheckerAssumption DEF RequestFits, HasCreated, Of
  <2> QED
    BY <1>1, <2>4, <2>5, <2>6 DEF UserInv, OnUser
<1>6. BatchInv
  <2>1. \A p \in Proposals : BatchFits(p)
    BY <1>1, <1>3 DEF BatchFits, Of
  <2> QED
    BY <1>1, <1>2, <2>1 DEF BatchInv, OnRows, Paying
<1>7. ScopeInv
  BY <1>1 DEF ScopeInv, Stacked, OpenOn
<1>8. JobsInv
  BY <1>1 DEF JobsInv
<1> QED
  BY <1>4, <1>5, <1>6, <1>7, <1>8, Starts DEF FullInv, QueuesInv

-----------------------------------------------------------------------------
(* What each queue posts                                                   *)

\* Every posting of a money request has its own key.
LEMMA MoneyPostsOnly ==
    ASSUME Typed, HeldReady, MoneyInv, MoneyNext
    PROVE  \/ UNCHANGED absVars
           \/ \E r \in Request : \E p \in Proposals : r.key = MoneyKey(p) /\ Post(r)
<1>1. ASSUME NEW s \in Sessions, NEW a \in Admins, NEW p \in Proposals,
             ApplyFund(s, a, p) \/ ApplyAdjustment(s, a, p)
      PROVE  \E r \in Request : \E q \in Proposals : r.key = MoneyKey(q) /\ Post(r)
  <2>1. Of(p, "money")
    BY <1>1, DecidesReady DEF ApplyFund, ApplyAdjustment, Runs, Locked, ReadyToApply, Of
  <2>2. CASE ApplyFund(s, a, p)
    <3>1. request[p].payload.op = "fund" /\ Post(Fund(p, request[p].payload))
      BY <2>2 DEF ApplyFund, Runs
    <3> QED
      BY <2>1, <3>1, MoneyPostings
  <2>3. CASE ApplyAdjustment(s, a, p)
    <3>1. request[p].payload.op = "adjust" /\ Post(Adjustment(p, request[p].payload))
      BY <2>3 DEF ApplyAdjustment, Runs
    <3> QED
      BY <2>1, <3>1, MoneyPostings
  <2> QED
    BY <1>1, <2>2, <2>3
<1>2. ASSUME NEW s \in Sessions, PostFirstFund(s)
      PROVE  \E r \in Request : \E q \in Proposals : r.key = MoneyKey(q) /\ Post(r)
  <2>1. pc[s] = "post" /\ Post(Fund(job[s].p, request[job[s].p].payload))
    BY <1>2 DEF PostFirstFund
  <2>2. PICK p \in Proposals : p = job[s].p
    BY <2>1 DEF Typed, JobsTyped, JobTyped, OnRequest
  <2>3. Of(p, "money") /\ request[p].payload.op = "fund"
    BY <2>1, <2>2 DEF MoneyInv, MoneyWork
  <2> QED
    BY <2>1, <2>2, <2>3, MoneyPostings
<1>3. ASSUME NEW s \in Sessions, PostWithdrawal(s)
      PROVE  \E r \in Request : \E q \in Proposals : r.key = MoneyKey(q) /\ Post(r)
  <2>1. pc[s] = "withdraw" /\ Post(Withdrawal(job[s].p, request[job[s].p].payload, job[s].amount))
    BY <1>3 DEF PostWithdrawal
  <2>2. PICK p \in Proposals : p = job[s].p
    BY <2>1 DEF Typed, JobsTyped, JobTyped, OnRequest
  <2>3. request[p] # None /\ job[s].amount \in Int
    BY <2>1, <2>2 DEF Typed, JobsTyped, JobTyped, OnRequest, MoneyInv, MoneyWork
  <2>4. Of(p, "money")
    BY <2>1, <2>2 DEF HeldReady, ReadyToApply, Of
  <2> QED
    BY <2>1, <2>2, <2>3, <2>4, MoneyPostings
<1>4. ASSUME NEW s \in Sessions, NEW a \in Admins, NEW p \in Proposals,
             ApplyFirstFund(s, a, p) \/ ReadWithdrawal(s, a, p)
      PROVE  UNCHANGED absVars
  BY <1>4 DEF ApplyFirstFund, ReadWithdrawal
<1>5. ASSUME NEW s \in Sessions, RefuseFirstFund(s) \/ RefuseWithdrawal(s) \/ LinkMoney(s)
      PROVE  UNCHANGED absVars
  BY <1>5 DEF RefuseFirstFund, RefuseWithdrawal, LinkMoney, Link
<1>6. ASSUME NEW a \in Admins, NEW p \in Proposals,
             \/ ProposeMoney(a, p) \/ ApproveMoney(a, p) \/ CreateBankMirror(a, p)
             \/ RequestMoneyChanges(a, p)
      PROVE  UNCHANGED absVars
  BY <1>6 DEF ProposeMoney, ApproveMoney, CreateBankMirror, RequestMoneyChanges, Progress, SendBack
<1>7. ASSUME NEW p \in Proposals, ReviseMoney(p) \/ ResubmitMoney(p) \/ WithdrawMoney(p)
      PROVE  UNCHANGED absVars
  BY <1>7 DEF ReviseMoney, ResubmitMoney, WithdrawMoney, Revise, Resubmit, Withdraw
<1>8. CASE RenameBankMirror
  BY <1>8 DEF RenameBankMirror
<1> QED
  BY <1>1, <1>2, <1>3, <1>4, <1>5, <1>6, <1>7, <1>8 DEF MoneyNext

\* Every payout of a batch has the key of its row.
LEMMA BatchPostsOnly ==
    ASSUME Typed, BatchInv, BatchNext
    PROVE  \/ UNCHANGED absVars
           \/ \E r \in Request : \E p \in Proposals : \E i \in RowNumbers :
                  r.key = RowKey(p, i) /\ Post(r)
<1>1. ASSUME NEW s \in Sessions, PayRow(s)
      PROVE  \E r \in Request : \E p \in Proposals : \E i \in RowNumbers :
                 r.key = RowKey(p, i) /\ Post(r)
  <2>1. pc[s] = "pay" /\ Post(Posting(s))
    BY <1>1 DEF PayRow
  <2>2. BatchAt(s) /\ Paying(s)
    BY <2>1 DEF BatchAt, Paying
  <2>3. PICK p \in Proposals : p = job[s].p
    BY <2>2, BatchSession
  <2>4. Of(p, "batch") /\ BatchFits(p)
    BY <2>2, <2>3, BatchSession, BatchEdits DEF Of, BatchInv
  <2>5. PICK i : i = job[s].row
    OBVIOUS
  <2>6. i \in Accepted(p) /\ i \in RowNumbers
    BY <2>1, <2>2, <2>3, <2>4, <2>5, AcceptedRows DEF BatchInv, OnRows
  <2>7. Posting(s) = RowRequest(p, i, request[p].payload)
    BY <2>3, <2>5 DEF Posting
  <2>8. Posting(s) \in Request /\ Posting(s).key = RowKey(p, i)
    BY <2>4, <2>6, <2>7, RowPosting
  <2> QED
    BY <2>1, <2>6, <2>8
<1>2. ASSUME NEW s \in Sessions, NEW a \in Admins, NEW p \in Proposals,
             OpenBatch(s, a, p) \/ OpenRejection(s, a, p)
      PROVE  UNCHANGED absVars
  BY <1>2 DEF OpenBatch, OpenRejection
<1>3. ASSUME NEW s \in Sessions,
             \/ SecondReview(s) \/ RejectBatch(s) \/ RecordApproval(s) \/ ReadRows(s) \/ LookUpRow(s)
             \/ PayRowConflict(s) \/ FailRow(s) \/ FinishBatch(s)
      PROVE  UNCHANGED absVars
  BY <1>3 DEF SecondReview, RejectBatch, RecordApproval, ReadRows, LookUpRow, PayRowConflict,
              FailRow, FinishBatch
<1>4. ASSUME NEW a \in Admins, NEW p \in Proposals, UploadBatch(a, p)
      PROVE  UNCHANGED absVars
  BY <1>4 DEF UploadBatch
<1> QED
  BY <1>1, <1>2, <1>3, <1>4 DEF BatchNext

\* The other two post nothing.
LEMMA UserPostsNothing == UserNext => UNCHANGED absVars
<1>1. ASSUME NEW s \in Sessions, NEW a \in Admins,
             CheckUser(s, a) \/ \E p \in Proposals : ApplyCreate(s, a, p) \/ ApplyUpdate(s, a, p)
      PROVE  UNCHANGED absVars
  BY <1>1 DEF CheckUser, ApplyCreate, ApplyUpdate
<1>2. ASSUME NEW s \in Sessions,
             \/ \E p \in Proposals : ProposeUser(s, p)
             \/ LinkUser(s)
             \/ \E k \in PartnerKeys, i \in ApiKeys : ReceivePartner(s, k, i)
             \/ CreatePartnerUser(s) \/ RefusePartner(s) \/ RecordKey(s)
      PROVE  UNCHANGED absVars
  BY <1>2 DEF ProposeUser, LinkUser, Link, ReceivePartner, CreatePartnerUser, RefusePartner, RecordKey
<1>3. ASSUME NEW i \in ApiKeys, CreateApiKey(i) \/ RevokeApiKey(i)
      PROVE  UNCHANGED absVars
  BY <1>3 DEF CreateApiKey, RevokeApiKey
<1>4. ASSUME CreateDirectly PROVE UNCHANGED absVars
  BY <1>4 DEF CreateDirectly
<1>5. ASSUME NEW u \in users,
             \/ \E i \in Extras : AddIdentifier(u, i)
             \/ \E i \in AccountNumbers : VerifyIdentifier(u, i)
      PROVE  UNCHANGED absVars
  BY <1>5 DEF AddIdentifier, VerifyIdentifier
<1>6. ASSUME NEW p \in Proposals,
             \/ \E a \in Admins : RequestUserChanges(a, p)
             \/ ReviseUser(p) \/ ResubmitUser(p) \/ WithdrawUser(p)
      PROVE  UNCHANGED absVars
  BY <1>6 DEF RequestUserChanges, ReviseUser, ResubmitUser, WithdrawUser, SendBack, Revise,
              Resubmit, Withdraw
<1> QED
  BY <1>1, <1>2, <1>3, <1>4, <1>5, <1>6 DEF UserNext

LEMMA ConfigPostsNothing == ConfigNext => UNCHANGED absVars
<1>1. ASSUME NEW s \in Sessions, NEW a \in Admins,
             CheckConfig(s, a) \/ \E p \in Proposals : ApplyFirstBand(s, a, p) \/ ReadScope(s, a, p)
      PROVE  UNCHANGED absVars
  BY <1>1 DEF CheckConfig, ApplyFirstBand, ReadScope
<1>2. ASSUME NEW s \in Sessions,
             \/ \E p \in Proposals : ProposeConfig(s, p)
             \/ ApplyNextBand(s) \/ BandCollides(s) \/ ReplaceScope(s)
      PROVE  UNCHANGED absVars
  BY <1>2 DEF ProposeConfig, ApplyNextBand, BandCollides, ReplaceScope
<1>3. ASSUME NEW p \in Proposals,
             \/ \E a \in Admins : RequestConfigChanges(a, p)
             \/ ReviseConfig(p) \/ ResubmitConfig(p) \/ WithdrawConfig(p)
      PROVE  UNCHANGED absVars
  BY <1>3 DEF RequestConfigChanges, ReviseConfig, ResubmitConfig, WithdrawConfig, SendBack, Revise,
              Resubmit, Withdraw
<1> QED
  BY <1>1, <1>2, <1>3 DEF ConfigNext

\* So no queue pays what another has to.
LEMMA MoneyPaysNoRow ==
    ASSUME Typed, HeldReady, MoneyInv, MoneyNext
    PROVE  \A p \in Proposals : \A i \in RowNumbers : txn'[RowKey(p, i)] = txn[RowKey(p, i)]
<1>1. CASE UNCHANGED absVars
  BY <1>1 DEF absVars
<1>2. ASSUME NEW r \in Request, NEW q \in Proposals, r.key = MoneyKey(q), Post(r)
      PROVE  \A p \in Proposals : \A i \in RowNumbers : txn'[RowKey(p, i)] = txn[RowKey(p, i)]
  <2>1. \A k \in Keys \ {r.key} : txn'[k] = txn[k]
    BY <1>2, PostEffect DEF MoneyInv
  <2> QED
    BY <1>2, <2>1, KeysApart, ApprovalsAssumption
<1> QED
  BY <1>1, <1>2, MoneyPostsOnly

\* A payout is nobody's request.
LEMMA BatchPaysNoRequest ==
    ASSUME Typed, BatchInv, BatchNext
    PROVE  /\ Ledgered'
           /\ \A p \in Proposals : txn'[MoneyKey(p)] = txn[MoneyKey(p)]
<1>1. CASE UNCHANGED absVars
  BY <1>1 DEF absVars, BatchInv, Ledgered
<1>2. ASSUME NEW r \in Request, NEW q \in Proposals, NEW i \in RowNumbers, r.key = RowKey(q, i), Post(r)
      PROVE  /\ Ledgered'
             /\ \A p \in Proposals : txn'[MoneyKey(p)] = txn[MoneyKey(p)]
  <2>1. Ledgered' /\ \A k \in Keys \ {r.key} : txn'[k] = txn[k]
    BY <1>2, PostEffect DEF BatchInv
  <2> QED
    BY <1>2, <2>1, KeysApart, ApprovalsAssumption
<1> QED
  BY <1>1, <1>2, BatchPostsOnly

-----------------------------------------------------------------------------
(* The steps, taken together                                               *)

\* A step of one queue keeps its own invariant, and the others see nothing of
\* it but the ledger.
LEMMA MoneyStepKept ==
    ASSUME FullInv, RowsStep, MoneyNext, UNCHANGED <<userTables, configVars, disturbed>>
    PROVE  QueuesInv'
<1>1. Typed /\ HeldReady /\ MoneyInv /\ UserInv /\ BatchInv /\ ScopeInv /\ JobsInv /\ Ledgered
  BY DEF FullInv, QueuesInv, IInv, MoneyInv
<1>2. \A kind \in Kinds \ {"money"} : Fixed(kind) /\ Still(kind)
  BY <1>1, MoneyStep, OthersSee DEF Kinds, Locked
<1>3. MoneyInv'
  BY <1>1, MoneyKept
<1>4. UserInv'
  BY <1>1, <1>2, UserElsewhere DEF Kinds, Locked
<1>5. BatchInv'
  <2>1. /\ Fixed("batch") /\ Still("batch") /\ disturbed' = disturbed /\ Ledgered'
        /\ \A p \in Proposals : \A i \in RowNumbers : txn'[RowKey(p, i)] = txn[RowKey(p, i)]
    BY <1>1, <1>2, <1>3, MoneyPaysNoRow DEF Kinds, Locked, MoneyInv
  <2> QED
    BY <1>1, <2>1, BatchElsewhere
<1>6. ScopeInv'
  <2>1. Fixed("config") /\ Still("config") /\ UNCHANGED configVars
    BY <1>2 DEF Kinds, Locked
  <2> QED
    BY <1>1, <2>1, ScopesElsewhere
<1>7. JobsInv'
  BY <1>1, MoneyJobsFit
<1> QED
  BY <1>3, <1>4, <1>5, <1>6, <1>7 DEF QueuesInv

LEMMA UserStepKept ==
    ASSUME FullInv, RowsStep, UserNext, UNCHANGED <<moneyVars, configVars, disturbed>>
    PROVE  QueuesInv'
<1>1. Typed /\ HeldReady /\ MoneyInv /\ UserInv /\ BatchInv /\ ScopeInv /\ JobsInv /\ Ledgered
  BY DEF FullInv, QueuesInv, IInv, MoneyInv
<1>2. \A kind \in Kinds \ {"user"} : Fixed(kind) /\ Still(kind)
  BY <1>1, UserStep, OthersSee DEF Kinds, Locked
<1>3. txn' = txn /\ book' = book /\ Ledgered'
  BY <1>1, UserPostsNothing DEF absVars, Ledgered
<1>4. MoneyInv'
  <2>1. Fixed("money") /\ Still("money") /\ UNCHANGED moneyVars
    BY <1>2 DEF Kinds, Locked
  <2> QED
    BY <1>1, <1>3, <2>1, MoneyElsewhere
<1>5. UserInv'
  BY <1>1, UserKept
<1>6. BatchInv'
  <2>1. Fixed("batch") /\ Still("batch") /\ disturbed' = disturbed
    BY <1>2 DEF Kinds, Locked
  <2> QED
    BY <1>1, <1>3, <2>1, BatchElsewhere
<1>7. ScopeInv'
  <2>1. Fixed("config") /\ Still("config") /\ UNCHANGED configVars
    BY <1>2 DEF Kinds, Locked
  <2> QED
    BY <1>1, <2>1, ScopesElsewhere
<1>8. JobsInv'
  BY <1>1, UserJobsFit
<1> QED
  BY <1>4, <1>5, <1>6, <1>7, <1>8 DEF QueuesInv

LEMMA ConfigStepKept ==
    ASSUME FullInv, RowsStep, ConfigNext, UNCHANGED <<moneyVars, userTables, disturbed>>
    PROVE  QueuesInv'
<1>1. Typed /\ HeldReady /\ MoneyInv /\ UserInv /\ BatchInv /\ ScopeInv /\ JobsInv /\ Ledgered
  BY DEF FullInv, QueuesInv, IInv, MoneyInv
<1>2. \A kind \in Kinds \ {"config"} : Fixed(kind) /\ Still(kind)
  BY <1>1, ConfigStep, OthersSee DEF Kinds, Locked
<1>3. txn' = txn /\ book' = book /\ Ledgered'
  BY <1>1, ConfigPostsNothing DEF absVars, Ledgered
<1>4. MoneyInv'
  <2>1. Fixed("money") /\ Still("money") /\ UNCHANGED moneyVars
    BY <1>2 DEF Kinds, Locked
  <2> QED
    BY <1>1, <1>3, <2>1, MoneyElsewhere
<1>5. UserInv'
  BY <1>1, <1>2, UserElsewhere DEF Kinds, Locked
<1>6. BatchInv'
  <2>1. Fixed("batch") /\ Still("batch") /\ disturbed' = disturbed
    BY <1>2 DEF Kinds, Locked
  <2> QED
    BY <1>1, <1>3, <2>1, BatchElsewhere
<1>7. ScopeInv'
  BY <1>1, ScopesStep
<1>8. JobsInv'
  BY <1>1, ConfigJobsFit
<1> QED
  BY <1>4, <1>5, <1>6, <1>7, <1>8 DEF QueuesInv

LEMMA BatchStepKept ==
    ASSUME FullInv, RowsStep, BatchNext, UNCHANGED <<moneyVars, userTables, configVars>>
    PROVE  QueuesInv'
<1>1. Typed /\ HeldReady /\ MoneyInv /\ UserInv /\ BatchInv /\ ScopeInv /\ JobsInv /\ Ledgered
  BY DEF FullInv, QueuesInv, IInv, MoneyInv
<1>2. \A kind \in Kinds \ {"batch"} : Fixed(kind) /\ Still(kind)
  BY <1>1, BatchStep, OthersSee DEF Kinds, Locked
<1>3. MoneyInv'
  <2>1. /\ Fixed("money") /\ Still("money") /\ UNCHANGED moneyVars /\ Ledgered'
        /\ \A p \in Proposals : txn'[MoneyKey(p)] = txn[MoneyKey(p)]
    BY <1>1, <1>2, BatchPaysNoRequest DEF Kinds, Locked
  <2> QED
    BY <1>1, <2>1, MoneyElsewhere
<1>4. UserInv'
  BY <1>1, <1>2, UserElsewhere DEF Kinds, Locked
<1>5. BatchInv'
  BY <1>1, BatchKept
<1>6. ScopeInv'
  <2>1. Fixed("config") /\ Still("config") /\ UNCHANGED configVars
    BY <1>2 DEF Kinds, Locked
  <2> QED
    BY <1>1, <2>1, ScopesElsewhere
<1>7. JobsInv'
  BY <1>1, BatchJobsFit
<1> QED
  BY <1>3, <1>4, <1>5, <1>6, <1>7 DEF QueuesInv

\* A session dies.
LEMMA CutKept ==
    ASSUME FullInv, RowsStep, NEW s \in Sessions, Cut(s)
    PROVE  QueuesInv'
<1>1. Typed /\ HeldReady /\ MoneyInv /\ UserInv /\ BatchInv /\ ScopeInv /\ JobsInv
  BY DEF FullInv, QueuesInv, IInv
<1>2. MoneyInv' /\ UserInv' /\ BatchInv'
  BY <1>1, MoneyCut, UserCut, BatchCut
<1>3. End(s) /\ request' = request /\ live' = live /\ stacked' = stacked
  BY DEF Cut, configVars
<1>4. ScopeInv'
  <2>1. \A t \in Sessions : pc'[t] \in {"replace", "bands"} => pc'[t] = pc[t] /\ job'[t] = job[t]
    BY <1>1, <1>3 DEF End, Goto, Typed, Tables
  <2> QED
    BY <1>1, <1>3, <2>1, ScopesQuiet DEF ScopeInv
<1>5. JobsInv'
  BY <1>1, <1>3, JobStops
<1> QED
  BY <1>2, <1>4, <1>5 DEF QueuesInv

\* Nothing happens.
LEMMA RestKept ==
    ASSUME FullInv, RowsStep, UNCHANGED vars
    PROVE  QueuesInv'
<1>1. Typed /\ HeldReady /\ MoneyInv /\ UserInv /\ BatchInv /\ ScopeInv /\ JobsInv
  BY DEF FullInv, QueuesInv, IInv
<1>2. /\ request' = request /\ pc' = pc /\ job' = job /\ txn' = txn /\ book' = book
      /\ disturbed' = disturbed /\ UNCHANGED configVars
  BY DEF vars, threads, absVars
<1>3. \A kind \in Kinds : Fixed(kind) /\ Still(kind)
  BY <1>2 DEF Fixed, Still
<1>4. MoneyInv' /\ UserInv'
  BY <1>1, MoneyCut, UserCut
<1>5. BatchInv'
  <2>1. Fixed("batch") /\ Still("batch") /\ Ledgered'
    BY <1>1, <1>2, <1>3 DEF Kinds, Locked, BatchInv, Ledgered
  <2> QED
    BY <1>1, <1>2, <2>1, BatchElsewhere
<1>6. ScopeInv'
  <2>1. Fixed("config") /\ Still("config")
    BY <1>3 DEF Kinds, Locked
  <2> QED
    BY <1>1, <1>2, <2>1, ScopesElsewhere
<1>7. JobsInv'
  BY <1>1, <1>2, JobStays
<1> QED
  BY <1>4, <1>5, <1>6, <1>7 DEF QueuesInv

\* The invariant is inductive.
LEMMA FullKept == FullInv /\ [Next]_vars => FullInv' /\ RowsStep
<1> SUFFICES ASSUME FullInv, [Next]_vars PROVE FullInv' /\ RowsStep
  OBVIOUS
<1>1. IInv' /\ RowsStep
  BY Preserved DEF FullInv
<1>2. QueuesInv'
  BY <1>1, MoneyStepKept, UserStepKept, ConfigStepKept, BatchStepKept, CutKept, RestKept DEF Next
<1> QED
  BY <1>1, <1>2 DEF FullInv

-----------------------------------------------------------------------------
(* What the queues promise                                                 *)

\* What each of the four queues has committed, and what every session at work
\* in it knows, is never out of step with the ledger, the users, the batches'
\* rows and the schedules.
THEOREM QueuesAgree == Spec => []FullInv
<1>1. FullInv /\ [Next]_vars => FullInv'
  BY FullKept
<1> QED
  BY <1>1, FullStarts, PTL DEF Spec

\* What an applied request says it has done took effect exactly once, for any
\* number of requests, sessions and partners: its posting under its own key,
\* its mirror, or its user, whose identifiers nobody else has.
THEOREM AppliedTakesEffect == Spec => []AppliedTookEffect
<1>1. FullInv => AppliedTookEffect
  BY UsersAreOne DEF FullInv, QueuesInv, MoneyInv, AppliedTookEffect
<1> QED
  BY <1>1, QueuesAgree, PTL

\* What a batch says of a row is what was paid, for files of any length and
\* however sessions overlap and die; and a batch worked on by one session at a
\* time says of every row whether it was paid.
THEOREM BatchesTellTheTruth == Spec => []BatchTruthful
<1>1. FullInv => PostedRowIsPaid
  BY DEF FullInv, QueuesInv, BatchInv, BatchFits, PaidAsTold, PostedRowIsPaid, IsBatch, Of
<1>2. FullInv => BatchToldAsItIs
  <2> SUFFICES ASSUME FullInv, NEW p \in Proposals, IsBatch(p), p \notin disturbed, AtWork(p) = {}
               PROVE  LET status == request[p].status
                          row == request[p].rows
                          accepted == {i \in DOMAIN row : row[i] # "rejected"}
                      IN  /\ status \in {"PENDING", "REJECTED"} => \A i \in DOMAIN row : ~Paid(p, i)
                          /\ status \in {"APPLIED", "APPLIED_PARTIAL"} =>
                                /\ \A i \in accepted : row[i] = IF Paid(p, i) THEN "posted" ELSE "failed"
                                /\ status = "APPLIED" <=> \A i \in accepted : Paid(p, i)
    BY DEF BatchToldAsItIs
  <2>1. PaidAsTold(p) /\ Calm(p)
    BY DEF FullInv, QueuesInv, BatchInv, BatchFits, IsBatch, Of
  <2>2. Untouched(p) /\ Settled(p)
    BY <2>1 DEF Calm
  <2>3. request[p].status \in {"PENDING", "REJECTED"} => \A i \in DOMAIN request[p].rows : ~Paid(p, i)
    BY <2>1, <2>2 DEF Untouched, PaidAsTold, Accepted
  <2> QED
    BY <2>2, <2>3 DEF Settled, Accepted
<1>3. FullInv => BatchTruthful
  BY <1>1, <1>2 DEF BatchTruthful
<1> QED
  BY <1>3, QueuesAgree, PTL

\* A schedule that never has two requests at work loses rows to an approved
\* change only, and is left with exactly the bands of that change.
THEOREM SchedulesReplacedWhole == Spec => ScheduleReplacedWhole
<1>1. FullInv /\ [Next]_vars => ReplacedWhole
  <2> SUFFICES ASSUME FullInv, [Next]_vars PROVE ReplacedWhole
    OBVIOUS
  <2>1. Typed /\ HeldReady /\ ScopeInv
    BY DEF FullInv, QueuesInv, IInv
  <2>2. ConfigNext \/ live' = live
    BY DEF Next, Cut, vars, configVars
  <2> QED
    BY <2>1, <2>2, WholeReplacement
<1>2. FullInv /\ [Next]_vars => [ReplacedWhole]_vars
  BY <1>1
<1> QED
  BY <1>2, QueuesAgree, PTL DEF Spec, ScheduleReplacedWhole

\* The rows of every table the queues share keep their types, the ledger's
\* included, and no request waits with the approvals it needs.
THEOREM TypeCorrect == Spec => []TypeOK
<1>1. FullInv => TypeOK
  <2> SUFFICES ASSUME FullInv PROVE TypeOK
    OBVIOUS
  <2>1. Ledgered /\ MoneyTypeOK /\ UserTypeOK /\ disturbed \subseteq Proposals
    BY UsersAreOne DEF FullInv, QueuesInv, MoneyInv, BatchInv
  <2>2. ASSUME NEW p \in Proposals, request[p] # None
        PROVE  /\ request[p] \in MoneyOperationRequest \cup UserOperationRequest
                                    \cup ConfigChangeRequest \cup CommissionBatch
               /\ request[p].kind # "batch" /\ request[p].status = "PENDING" =>
                     Cardinality(Approvers(request[p].reviews)) < request[p].required
    <3>1. request[p].kind \in Kinds /\ request[p] \in RequestOf(request[p].kind)
      BY <2>2 DEF FullInv, IInv, Typed, RowsTyped
    <3>2. request[p] \in MoneyOperationRequest \cup UserOperationRequest
                             \cup ConfigChangeRequest \cup CommissionBatch
      BY <3>1 DEF RequestOf, Kinds, Locked
    <3>3. Considered(p)
      BY DEF FullInv, IInv, AllConsidered
    <3> QED
      BY <2>2, <3>1, <3>2, <3>3 DEF Considered, Kinds
  <2>3. live \subseteq ConfigRows
    BY DEF FullInv, IInv, Typed, Tables
  <2>4. \A s \in Sessions : IF pc[s] = "idle" THEN job[s] = None ELSE job[s] \in Work
    BY DEF FullInv, QueuesInv, JobsInv
  <2> QED
    BY <2>1, <2>2, <2>3, <2>4 DEF TypeOK, Ledgered
<1> QED
  BY <1>1, QueuesAgree, PTL

=============================================================================
