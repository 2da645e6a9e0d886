----------------------------- MODULE Schedules ------------------------------
(***************************************************************************)
(* The tenant's schedules: what a payment costs, earns and is taxed, how   *)
(* far it may go and when it takes a PIN (app/modules/pricing, limits,     *)
(* commissions, taxes, step_up, redemption/rates), written by approved     *)
(* requests (app/modules/config_requests/apply.py; their review is module  *)
(* Approvals) and resolved by payments with no lock.                       *)
(*                                                                         *)
(* A row is [kind, code, type, from, to, terms, parent, pays]: the service *)
(* and the user type it is for, None for any; its band, None for open; the *)
(* amount it charges, pays or allows, and where a commission goes.  One    *)
(* currency.  A limit row is its maximum; the rolling caps are module      *)
(* Payments'.  User types, which have one row each, are module Catalogue's.*)
(***************************************************************************)
EXTENDS Catalogue, Services, Sequences, Functions

CONSTANTS
    Plans,      \* bound: payloads of config requests, [op, rows], rows a sequence
    Booked      \* the rows at the start, in a tenant that has any

AnyType == Types \cup {None}
Bound == Nat \cup {None}

PricingConfig ==
    [kind: {"pricing"}, code: Codes, type: AnyType, from: Bound, to: Bound, terms: Nat,
     parent: {0}, pays: {None}]

CommissionConfig ==
    [kind: {"commission"}, code: Codes, type: AnyType, from: Bound, to: Bound, terms: Nat,
     parent: Nat, pays: {"main", "commission"}]

LimitConfig ==
    [kind: {"limit"}, code: Codes, type: AnyType, from: {None}, to: {None}, terms: Bound,
     parent: {0}, pays: {None}]

WalletLimitConfig ==
    [kind: {"wallet_limit"}, code: {None}, type: AnyType, from: {None}, to: {None}, terms: Bound,
     parent: {0}, pays: {None}]

TaxConfig ==
    [kind: {"tax"}, code: {None}, type: {None}, from: {None}, to: {None}, terms: Nat,
     parent: {0}, pays: {None}]

StepUpPolicy ==
    [kind: {"step_up"}, code: Codes, type: {None}, from: {None}, to: {None}, terms: Nat,
     parent: {0}, pays: {None}]

PointsConversionRate ==
    [kind: {"rate"}, code: {None}, type: {None}, from: {None}, to: {None}, terms: Nat \ {0},
     parent: {0}, pays: {None}]

ScheduleRow ==
    PricingConfig \cup CommissionConfig \cup LimitConfig \cup WalletLimitConfig
        \cup TaxConfig \cup StepUpPolicy \cup PointsConversionRate

\* What a row is about; its columns that a kind has not are None.
Scope(r) == <<r.kind, r.code, r.type>>

\* Both bounds belong to a band.
Overlap(r, q) ==
    /\ r.to = None \/ q.from = None \/ q.from <= r.to
    /\ q.to = None \/ r.from = None \/ r.from <= q.to

ASSUME SchedulesAssumption ==
    /\ \A p \in Plans : p.op \in {"create", "update", "delete"} /\ p.rows \in Seq(ScheduleRow)
    /\ Booked \subseteq ScheduleRow
    /\ \A r \in Booked : r.from # None /\ r.to # None => r.from < r.to
    /\ \A r, q \in Booked : r # q /\ Scope(r) = Scope(q) =>
           r.from # q.from /\ (r.from # None /\ q.from # None => ~Overlap(r, q))
    /\ None \notin Nat

VARIABLES
    rows,
    \* history
    layered     \* scopes a request has added to, or two have worked on at once

schedulesVars == <<rows, layered>>

Banded == {"pricing", "commission"}

SchedulesInit ==
    /\ rows = IF left.pay + left.config > 0 THEN Booked ELSE {}
    /\ layered = {}

-----------------------------------------------------------------------------
(* Payloads                                                                *)

SharedScope(rs) == \A i, j \in DOMAIN rs : Scope(rs[i]) = Scope(rs[j])

\* Bands are sorted by their lower bounds, the open ones last.
Precedes(rs, i, j) ==
    \/ rs[i].from # None /\ (rs[j].from = None \/ rs[i].from < rs[j].from)
    \/ rs[i].from = rs[j].from /\ i < j

\* Mutant: the upper bound is taken not to belong to the band.
BandsTouching(rs) ==
    /\ \A i \in DOMAIN rs : rs[i].from # None /\ rs[i].to # None => rs[i].from < rs[i].to
    /\ \A i, j \in DOMAIN rs : Precedes(rs, i, j) =>
          rs[i].to # None /\ (rs[j].from # None => rs[i].to <= rs[j].from)

BandsOrdered(rs) ==
    /\ \A i \in DOMAIN rs : rs[i].from # None /\ rs[i].to # None => rs[i].from < rs[i].to
    /\ \A i, j \in DOMAIN rs : Precedes(rs, i, j) =>
          rs[i].to # None /\ (rs[j].from # None => rs[i].to < rs[j].from)

ValidBands(rs) ==
    /\ rs # <<>>
    /\ IF rs[1].kind \in Banded THEN SharedScope(rs) /\ BandsOrdered(rs) ELSE Len(rs) = 1

\* A user type in a row must be live when the row is written.
TypeLive(r) == r.type \in {None} \cup {t \in Types : Valid(t)}

\* Commission wallets are there for some tenants and some types, retired ones
\* included, so the row has to name its type.
DestinationAvailable(r) == r.pays = "commission" => Commissions /\ Eligible(r.type)

-----------------------------------------------------------------------------
(* Approved requests.  job is [todo, old]: the rows to write and those     *)
(* found in the scope.  A row is checked in the step that writes or reads. *)

InScope(r) == {q \in rows : Scope(q) = Scope(r)}

\* uq_*_scope
Taken(r) == \E q \in rows : Scope(q) = Scope(r) /\ q.from = r.from

Label == [create |-> "add", update |-> "replace", delete |-> "remove"]

\* The sessions at work on a scope.
On(scope) == {t \in Sessions : pc[t] \in {"add", "replace", "remove"} /\ Scope(Head(job[t].todo)) = scope}

\* Creates write and commit row by row; an update or delete has read the
\* scope, and commits once.
Apply(s) ==
    /\ Request(s, "config")
    /\ \E p \in Plans :
          LET first == Head(p.rows)
          IN  /\ p.op # "delete" => ValidBands(p.rows)
              /\ p.op = "update" => TypeLive(first) /\ DestinationAvailable(first)
              /\ p.op = "delete" => first \in rows
              /\ Work(s, Label[p.op], [todo |-> p.rows, old |-> InScope(first)])
              /\ layered' = IF On(Scope(first)) # {} \/ (p.op = "create" /\ InScope(first) # {})
                            THEN layered \cup {Scope(first)} ELSE layered
    /\ UNCHANGED <<catalogueVars, servicesVars, rows>>

Due(s) == Head(job[s].todo)

\* One row goes in, or a refusal ends the request where it is.
Insert(s, kind, allowed) ==
    LET r == Due(s)
        rest == Tail(job[s].todo)
    IN  /\ pc[s] = "add" /\ r.kind = kind
        /\ IF allowed /\ ~Taken(r)
           THEN /\ rows' = rows \cup {r}
                /\ IF rest = <<>> THEN End(s) ELSE Work(s, "add", [job[s] EXCEPT !.todo = rest])
           ELSE End(s) /\ UNCHANGED rows
        /\ UNCHANGED <<left, catalogueVars, servicesVars, layered>>

CreatePricing(s) == Insert(s, "pricing", TypeLive(Due(s)))
CreateLimit(s) == Insert(s, "limit", TypeLive(Due(s)))
CreateWalletLimit(s) == Insert(s, "wallet_limit", TypeLive(Due(s)))
CreateCommission(s) ==
    Insert(s, "commission", TypeLive(Due(s)) /\ DestinationAvailable(Due(s)))
CreateTax(s) == Insert(s, "tax", TRUE)
CreatePolicy(s) == Insert(s, "step_up", TRUE)
CreateRate(s) == Insert(s, "rate", TRUE)

\* uq_*_scope takes two bands with no lower bound for one.
Collide(rs, kept) ==
    \/ \E i \in DOMAIN rs, q \in kept : Scope(q) = Scope(rs[i]) /\ q.from = rs[i].from
    \/ \E i, j \in DOMAIN rs : i # j /\ rs[i].from = rs[j].from

\* The rows found go and the new ones come, in one transaction, unless two of
\* them collide, or one with a row another request has put there meanwhile.
Replace(s, kind) ==
    LET kept == rows \ job[s].old
        scope == Scope(Head(job[s].todo))
    IN  /\ pc[s] = "replace" /\ Head(job[s].todo).kind = kind
        /\ IF Collide(job[s].todo, kept)
           THEN UNCHANGED <<rows, layered>>
           ELSE /\ rows' = kept \cup Range(job[s].todo)
                /\ layered' = IF On(scope) = {s} /\ \A q \in kept : Scope(q) # scope
                              THEN layered \ {scope} ELSE layered
        /\ End(s)
        /\ UNCHANGED <<left, catalogueVars, servicesVars>>

ReplacePricing(s) == Replace(s, "pricing")
ReplaceLimit(s) == Replace(s, "limit")
ReplaceWalletLimit(s) == Replace(s, "wallet_limit")
ReplaceCommission(s) == Replace(s, "commission")
ReplaceTax(s) == Replace(s, "tax")
ReplacePolicy(s) == Replace(s, "step_up")
ReplaceRate(s) == Replace(s, "rate")

\* The whole scope of the named row goes.
Delete(s, kind) ==
    /\ pc[s] = "remove" /\ Head(job[s].todo).kind = kind
    /\ rows' = rows \ job[s].old
    /\ End(s)
    /\ UNCHANGED <<left, catalogueVars, servicesVars, layered>>

DeletePricing(s) == Delete(s, "pricing")
DeleteLimit(s) == Delete(s, "limit")
DeleteWalletLimit(s) == Delete(s, "wallet_limit")
DeleteCommission(s) == Delete(s, "commission")
DeleteTax(s) == Delete(s, "tax")
DeletePolicy(s) == Delete(s, "step_up")
DeleteRate(s) == Delete(s, "rate")

-----------------------------------------------------------------------------
(* Resolution.  A typed row beats the one for any type; of several bands   *)
(* that hold the amount the lowest is taken, an open one last.             *)

Sized(r, n) == (r.from = None \/ r.from <= n) /\ (r.to = None \/ n <= r.to)

Beats(a, b) ==
    IF (a.type = None) # (b.type = None)
    THEN a.type # None
    ELSE b.from = None \/ (a.from # None /\ a.from <= b.from)

First(rs) == IF rs = {} THEN None ELSE CHOOSE a \in rs : \A b \in rs : Beats(a, b)

For(kind, code, type) ==
    {r \in rows : r.kind = kind /\ r.code = code /\ r.type \in {type, None}}

FindPricing(code, type, n) == First({r \in For("pricing", code, type) : Sized(r, n)})
FindCommission(code, type, n) == First({r \in For("commission", code, type) : Sized(r, n)})
FindLimit(code, type) == First(For("limit", code, type))
FindWalletLimit(type) == First(For("wallet_limit", None, type))
FindPolicy(code) == First(For("step_up", code, None))

PricingExists(code, type) == For("pricing", code, type) # {}
LimitExists(code, type) == FindLimit(code, type) # None

SchedulesNext ==
    \E s \in Sessions :
        \/ Apply(s)
        \/ CreatePricing(s)
        \/ CreateLimit(s)
        \/ CreateWalletLimit(s)
        \/ CreateCommission(s)
        \/ CreateTax(s)
        \/ CreatePolicy(s)
        \/ CreateRate(s)
        \/ ReplacePricing(s)
        \/ ReplaceLimit(s)
        \/ ReplaceWalletLimit(s)
        \/ ReplaceCommission(s)
        \/ ReplaceTax(s)
        \/ ReplacePolicy(s)
        \/ ReplaceRate(s)
        \/ DeletePricing(s)
        \/ DeleteLimit(s)
        \/ DeleteWalletLimit(s)
        \/ DeleteCommission(s)
        \/ DeleteTax(s)
        \/ DeletePolicy(s)
        \/ DeleteRate(s)

-----------------------------------------------------------------------------
(* Properties                                                              *)

SchedulesLabels == {"add", "replace", "remove"}

\* No two rows of a scope start at one amount, and a band is not empty.
SchedulesTypeOK ==
    /\ rows \subseteq ScheduleRow
    /\ \A r, q \in rows : Scope(r) = Scope(q) /\ r.from = q.from => r = q
    /\ \A r \in rows : r.from # None /\ r.to # None => r.from < r.to

\* Every amount has one price and one commission (config_requests/apply.py:359):
\* bands of one scope do not overlap, however edits fail or die half way,
\* unless a creation came upon rows of its scope, or two requests were at
\* work on it at once, and until one alone replaces it.  A row with no lower
\* bound, of which a scope has one, is what no band holds (pricing/service.py:71).
BandsDisjoint ==
    \A r, q \in rows :
        /\ r # q /\ Scope(r) = Scope(q) /\ Scope(r) \notin layered
        /\ r.from # None /\ q.from # None
        => ~Overlap(r, q)

=============================================================================
