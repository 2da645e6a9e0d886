--------------------------- MODULE ConfigRequests ----------------------------
(***************************************************************************)
(* Changes of the configuration (app/modules/config_requests): proposal    *)
(* against the other open requests of the scope, review, and the           *)
(* application to the rows of the scope.  Schedules.tla has the kinds of   *)
(* rows; here a row is a band of one schedule.                             *)
(***************************************************************************)
EXTENDS MakerChecker

CONSTANTS
    ConfigOffers, \* payloads: [op, scope, bands], a band [from, fee]
    Seeded        \* config rows older than the model

ASSUME ConfigAssumption ==
    /\ \A c \in ConfigOffers :
           /\ c.bands \in Seq([from: Nat, fee: Nat])
           /\ c.op \in {"create", "update", "delete"}
           /\ (c.bands = <<>>) = (c.op = "delete")
    /\ \A r \in Seeded : r \in [scope: {r.scope}, from: Nat, fee: Nat, by: {None}]

VARIABLES
    live,      \* config rows: [scope, from, fee, by]
    \* history
    stacked    \* scopes that had two requests at work at once

configVars == <<live, stacked>>

ConfigInit == live = Seeded /\ stacked = {}

-----------------------------------------------------------------------------
InScope(sc) == {r \in live : r.scope = sc}

\* The bands of a payload start at different amounts.
ValidBands(pl) == \A i, j \in DOMAIN pl.bands : i # j => pl.bands[i].from # pl.bands[j].from

\* An update names a row of the scope it writes.
ScopeMatchesTarget(pl, target) == pl.op = "update" => target \in InScope(pl.scope)

\* The scope an open request occupies: that of its payload, or, for a delete,
\* of the row it names, as long as the row is there.
RequestScope(q) ==
    IF request[q].payload.op = "delete" /\ request[q].target \notin live
    THEN None ELSE request[q].payload.scope

Occupied(sc) ==
    \E q \in Proposals :
        /\ request[q] # None /\ request[q].kind = "config" /\ request[q].status \in Open
        /\ RequestScope(q) = sc

\* A delete whose target is gone occupies no scope, and conflicts with none.
CheckConfig(s, a) ==
    /\ \E pl \in ConfigOffers, target \in live \cup {None} :
          /\ ValidBands(pl)
          /\ ScopeMatchesTarget(pl, target)
          /\ pl.op = "create" => target = None
          /\ pl.op = "delete" => target \in InScope(pl.scope) \cup {None}
          /\ (pl.op = "delete" /\ target = None) \/ ~Occupied(pl.scope)
          /\ Start(s, "config", [admin |-> a, payload |-> pl, target |-> target])
    /\ UNCHANGED <<absVars, request, configVars>>

Scopes == {r.scope : r \in Seeded} \cup {c.scope : c \in ConfigOffers}

OpenOn(req, q, sc) ==
    /\ req[q] # None /\ req[q].kind = "config" /\ req[q].status \in Open
    /\ req[q].payload.scope = sc

\* The scopes with two open requests.
Stacked(req) ==
    {sc \in Scopes : \E q, r \in Proposals : q # r /\ OpenOn(req, q, sc) /\ OpenOn(req, r, sc)}

\* No policy is asked: one approval is enough.
ProposeConfig(s, p) ==
    /\ pc[s] = "config"
    /\ File(p, Filed("config", job[s].admin, job[s].payload, job[s].target, 1))
    /\ stacked' = stacked \cup Stacked(request')
    /\ End(s)
    /\ UNCHANGED <<absVars, live>>

RequestConfigChanges(a, p) == SendBack(a, p, "config") /\ UNCHANGED configVars
ResubmitConfig(p) == Resubmit(p, "config") /\ UNCHANGED configVars
WithdrawConfig(p) == Withdraw(p, "config") /\ UNCHANGED configVars

\* Checked as a proposal is, but for the scope's other open requests; the
\* operation and its target stay, and a delete has nothing to revise.
ReviseConfig(p) ==
    /\ \E pl \in ConfigOffers :
          /\ request[p] # None => /\ pl.op = request[p].payload.op /\ pl.op # "delete"
                                  /\ ScopeMatchesTarget(pl, request[p].target)
          /\ ValidBands(pl)
          /\ Revise(p, "config", pl)
    /\ stacked' = stacked \cup Stacked(request')
    /\ UNCHANGED live

-----------------------------------------------------------------------------
(* Applying                                                                *)

ConfigRow(p, i) ==
    LET c == request[p].payload
    IN  [scope |-> c.scope, from |-> c.bands[i].from, fee |-> c.bands[i].fee, by |-> p]

\* uq_*_configs_scope: one row per scope and amount_from.
Collides(r, rs) == \E o \in rs : o.scope = r.scope /\ o.from = r.from

\* The create services commit band by band, the first with the transition.
ApplyFirstBand(s, a, p) ==
    /\ Decides(a, p, "config")
    /\ request[p].payload.op = "create"
    /\ ~Collides(ConfigRow(p, 1), live)
    /\ live' = live \cup {ConfigRow(p, 1)}
    /\ Applied(a, p)
    /\ IF Len(request[p].payload.bands) > 1
       THEN Start(s, "bands", [p |-> p, next |-> 2])
       ELSE pc[s] = "idle" /\ UNCHANGED <<pc, job>>
    /\ UNCHANGED <<absVars, stacked>>

ApplyNextBand(s) ==
    LET p == job[s].p
        r == ConfigRow(p, job[s].next)
    IN  /\ pc[s] = "bands"
        /\ ~Collides(r, live)
        /\ live' = live \cup {r}
        /\ IF job[s].next < Len(request[p].payload.bands)
           THEN job' = [job EXCEPT ![s].next = @ + 1] /\ UNCHANGED pc
           ELSE End(s)
        /\ UNCHANGED <<absVars, request, stacked>>

\* The 409 of a later band: nothing is taken back.
BandCollides(s) ==
    /\ pc[s] = "bands"
    /\ Collides(ConfigRow(job[s].p, job[s].next), live)
    /\ End(s)
    /\ UNCHANGED <<absVars, request, configVars>>

\* The scopes that a creation, applied by now, still has bands to add to.
Filling == {request[job[w].p].payload.scope : w \in {v \in Sessions : pc[v] = "bands"}}

\* An update or delete reads the rows of the scope.  A delete whose target is
\* gone is refused.
ReadScope(s, a, p) ==
    LET sc == request[p].payload.scope
    IN  /\ Decides(a, p, "config")
        /\ request[p].payload.op # "create"
        /\ request[p].payload.op = "delete" => request[p].target \in live
        /\ Start(s, "replace", [p |-> p, admin |-> a, old |-> InScope(sc)])
        /\ stacked' = stacked \cup ({sc} \cap Filling)
        /\ UNCHANGED <<absVars, request, live>>

\* Mutant: only the band the maker named goes.
ReplaceTarget(p, old) ==
    (live \ {request[p].target}) \cup {ConfigRow(p, i) : i \in DOMAIN request[p].payload.bands}

Replaced(p, old) ==
    (live \ old) \cup {ConfigRow(p, i) : i \in DOMAIN request[p].payload.bands}

ReplaceScope(s) ==
    LET p == job[s].p
    IN  /\ pc[s] = "replace"
        /\ \A i \in DOMAIN request[p].payload.bands :
               ~Collides(ConfigRow(p, i), live \ job[s].old)
        /\ live' = Replaced(p, job[s].old)
        /\ Applied(job[s].admin, p)
        /\ End(s)
        /\ UNCHANGED <<absVars, stacked>>

-----------------------------------------------------------------------------
ConfigNext ==
    \/ \E s \in Sessions, a \in Admins :
           \/ CheckConfig(s, a)
           \/ \E p \in Proposals : ApplyFirstBand(s, a, p) \/ ReadScope(s, a, p)
    \/ \E s \in Sessions :
           \/ \E p \in Proposals : ProposeConfig(s, p)
           \/ ApplyNextBand(s)
           \/ BandCollides(s)
           \/ ReplaceScope(s)
    \/ \E p \in Proposals :
           \/ \E a \in Admins : RequestConfigChanges(a, p)
           \/ ReviseConfig(p)
           \/ ResubmitConfig(p)
           \/ WithdrawConfig(p)

-----------------------------------------------------------------------------
(* Properties                                                              *)

ConfigChangeReview ==
    [by: Admins, action: {"approved", "resubmitted"}, about: ConfigOffers]

\* target_config_id names a row, which may be gone since.
ConfigChangeRequest ==
    [kind: {"config"}, maker: Admins, payload: ConfigOffers,
     target: {None} \cup [scope: Scopes, from: Nat, fee: Nat, by: Proposals \cup {None}],
     status: Open \cup {"APPLIED", "WITHDRAWN"}, required: {1},
     reviews: Seq(ConfigChangeReview), linked: {FALSE}, rows: {<<>>}]

Fees(rs) == {[from |-> r.from, fee |-> r.fee] : r \in rs}

\* As long as a scope never has two requests at work, open or with bands still
\* to add, its schedule is replaced whole: it loses rows only to an approved
\* change, and is left with exactly the bands of that change.
ReplacedWhole ==
    \A sc \in {r.scope : r \in live \ live'} \ stacked :
        \E p \in Proposals :
            /\ request[p] # None /\ request[p].kind = "config"
            /\ request[p].status # "APPLIED" /\ request'[p].status = "APPLIED"
            /\ Fees({r \in live' : r.scope = sc}) = Range(request[p].payload.bands)

=============================================================================
