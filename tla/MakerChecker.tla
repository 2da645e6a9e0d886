---------------------------- MODULE MakerChecker ----------------------------
(***************************************************************************)
(* What the maker-checker queues of the back office share: requests with   *)
(* their review threads, and admins who work on them through sessions.     *)
(* MoneyOperations, UserOperations and ConfigRequests lock the request row *)
(* for every transition, CommissionBatches does not.  The ledger is the    *)
(* atomic one, and a posting commits all its session has staged.           *)
(*                                                                         *)
(* A refused call (409, 422, insufficient funds) rolls back and leaves no  *)
(* trace, so it is no step, except where something was committed before.   *)
(***************************************************************************)
EXTENDS AtomicLedger, Sequences, SequencesExt

CONSTANTS
    Admins,
    Sessions,     \* requests of the admins in progress
    Proposals,    \* ids of requests and batches
    Policy,       \* approval_policies: per operation, and "any", None without a row
    MaxRounds     \* bound: how often one request is resubmitted

Open == {"PENDING", "CHANGES_REQUESTED"}

Operations == {"fund", "withdraw", "adjust", "mirror", "commission_disbursement",
               "commission_withdrawal"}

\* A row per operation and one for any, or none of them.
ApprovalPolicy ==
    UNION {[ops -> {None, 1, 2}] : ops \in {o \in SUBSET (Operations \cup {"any"}) : "any" \in o}}

ASSUME MakerCheckerAssumption ==
    /\ None \notin Proposals \cup Admins \cup Sessions
    /\ Policy \in ApprovalPolicy
    /\ MaxRounds \in Nat

VARIABLES
    request,   \* per id, the request or batch with its review thread
    pc, job    \* the sessions' program

threads == <<request, pc, job>>

MakerCheckerInit ==
    /\ AbsInit
    /\ request = [p \in Proposals |-> None]
    /\ pc = [s \in Sessions |-> "idle"]
    /\ job = [s \in Sessions |-> None]

\* The function f with one more argument, or another value.
With(f, x, y) == [z \in DOMAIN f \cup {x} |-> IF z = x THEN y ELSE f[z]]

-----------------------------------------------------------------------------
(* Postings                                                                *)

Transfer(key, from, to, n, exempt) ==
    [key |-> key,
     delta |-> [a \in Accounts |-> IF a = from THEN -n ELSE IF a = to THEN n ELSE 0],
     status |-> "COMPLETED", exempt |-> exempt, trigger |-> FALSE]

\* The ledger's floor and ceiling.
Covered(r) == \A a \in Guarded : r.delta[a] < 0 => Available(book[a]) + r.delta[a] >= 0

Fits(r) ==
    \A a \in Capped : r.delta[a] > 0 /\ ~r.exempt /\ Cap[a] # None =>
        book[a].bal + r.delta[a] <= Cap[a]

Post(r) == Fits(r) /\ AbsPost(r)

-----------------------------------------------------------------------------
(* The review thread                                                       *)

\* Mutant: approvals given before a resubmission still count.
WholeThread(reviews) == Range(reviews)

\* The reviews after the latest resubmission.
CurrentRound(reviews) ==
    {reviews[i] : i \in {j \in DOMAIN reviews :
        \A k \in DOMAIN reviews : reviews[k].action = "resubmitted" => k < j}}

Approvers(reviews) == {r.by : r \in {v \in CurrentRound(reviews) : v.action = "approved"}}

\* about is what the request said when the review was written.
Review(a, action, p) == [by |-> a, action |-> action, about |-> request[p].payload]

Reviewed(a, action, p) == [request[p] EXCEPT !.reviews = Append(@, Review(a, action, p))]

Resubmissions(p) == Cardinality({i \in DOMAIN request[p].reviews :
                                    request[p].reviews[i].action = "resubmitted"})

-----------------------------------------------------------------------------
(* Sessions                                                                *)

Goto(s, label) == pc' = [pc EXCEPT ![s] = label]

Start(s, label, work) ==
    /\ pc[s] = "idle"
    /\ Goto(s, label)
    /\ job' = [job EXCEPT ![s] = work]

End(s) == Goto(s, "idle") /\ job' = [job EXCEPT ![s] = None]

\* The transitions that hold their request row across a step.
Unlocked(p) == \A s \in Sessions : pc[s] \in {"replace", "withdraw"} => job[s].p # p

Is(p, kind, statuses) ==
    /\ request[p] # None
    /\ request[p].kind = kind
    /\ request[p].status \in statuses
    /\ Unlocked(p)

-----------------------------------------------------------------------------
(* Transitions, the same in every queue that has them                      *)

\* A policy of the operation, else the tenant's default, else one approval.
Required(op) ==
    IF op \in DOMAIN Policy /\ Policy[op] # None THEN Policy[op]
    ELSE IF Policy["any"] # None THEN Policy["any"] ELSE 1

Filed(kind, a, payload, target, required) ==
    [kind |-> kind, maker |-> a, payload |-> payload, target |-> target,
     status |-> "PENDING", required |-> required, reviews |-> <<>>, linked |-> FALSE,
     rows |-> <<>>]

File(p, row) ==
    /\ request[p] = None
    /\ request' = [request EXCEPT ![p] = row]

MayApprove(a, p, kind) ==
    /\ Is(p, kind, {"PENDING"})
    /\ a # request[p].maker
    /\ a \notin Approvers(request[p].reviews)

\* Mutant: one approval more than required.
QuorumPassed(a, p) ==
    Cardinality(Approvers(request[p].reviews) \cup {a}) > request[p].required

Quorum(a, p) ==
    Cardinality(Approvers(request[p].reviews) \cup {a}) >= request[p].required

Decides(a, p, kind) == MayApprove(a, p, kind) /\ Quorum(a, p)

\* Too few approvals so far: this one is kept as progress.
Progress(a, p, kind) ==
    /\ MayApprove(a, p, kind)
    /\ ~Quorum(a, p)
    /\ request' = [request EXCEPT ![p] = Reviewed(a, "approved", p)]
    /\ UNCHANGED <<absVars, pc, job>>

Applied(a, p) ==
    request' = [request EXCEPT ![p] = [Reviewed(a, "approved", p) EXCEPT !.status = "APPLIED"]]

SendBack(a, p, kind) ==
    /\ Is(p, kind, {"PENDING"})
    /\ a # request[p].maker
    /\ request' = [request EXCEPT ![p].status = "CHANGES_REQUESTED"]
    /\ UNCHANGED <<absVars, pc, job>>

\* The maker edits the payload.
Revise(p, kind, payload) ==
    /\ Is(p, kind, {"CHANGES_REQUESTED"})
    /\ request' = [request EXCEPT ![p].payload = payload]
    /\ UNCHANGED <<absVars, pc, job>>

Resubmit(p, kind) ==
    /\ Is(p, kind, {"CHANGES_REQUESTED"})
    /\ Resubmissions(p) < MaxRounds
    /\ request' = [request EXCEPT ![p] =
           [Reviewed(request[p].maker, "resubmitted", p) EXCEPT !.status = "PENDING"]]
    /\ UNCHANGED <<absVars, pc, job>>

Withdraw(p, kind) ==
    /\ Is(p, kind, Open)
    /\ request' = [request EXCEPT ![p].status = "WITHDRAWN"]
    /\ UNCHANGED <<absVars, pc, job>>

\* The second commit: applied_transaction_id or applied_user_id.
Link(s, kind) ==
    /\ pc[s] = "link"
    /\ request[job[s].p].kind = kind
    /\ request' = [request EXCEPT ![job[s].p].linked = TRUE]
    /\ End(s)
    /\ UNCHANGED absVars

=============================================================================
