------------------------------ MODULE Segments ------------------------------
(***************************************************************************)
(* Segments of one tenant and their membership (app/modules/segments):     *)
(* admins create, edit and delete them and assign users by hand, and       *)
(* recomputes (celery beat, or on request) assign users by criteria, one   *)
(* segment of each group per user.  A recompute locks the segments it      *)
(* evaluates; the admin's requests read first and write later.  The last   *)
(* part adds the reward rules and multipliers that target segments.        *)
(*                                                                         *)
(* A refused call leaves no trace and is no step.  Segments are numbered   *)
(* in the order of created_at.                                             *)
(***************************************************************************)
EXTENDS Integers, FiniteSets

CONSTANTS
    None,
    Users, Ids, Groups,
    System,      \* seeded segments: they keep their group and are not deleted
    SystemGroups,
    Metrics, MaxValue,
    Criteria,    \* documents: [op, conditions], a condition [metric, gte, lte, eq]
    Broken,      \* a stored document that no longer parses
    Priorities,
    Seeded,      \* the segments at the start: a function from some of Ids
    Evaluators, Admins,
    RuleIds,
    Launched,    \* the rules there may be at the start
    Keys,        \* Idempotency-Keys of new multipliers
    MaxEdits     \* bound: changes made by admins

Sources == {"manual", "criteria"}

Row == [group: Groups, priority: Priorities, criteria: Criteria \cup {None, Broken},
        stamped: BOOLEAN]

ASSUME SegmentsAssumption ==
    /\ Ids \subseteq Nat /\ System \subseteq Ids /\ SystemGroups \subseteq Groups
    /\ DOMAIN Seeded \subseteq Ids
    /\ \A s \in DOMAIN Seeded : Seeded[s] \in Row /\ ~Seeded[s].stamped
    /\ Priorities \subseteq Int
    /\ {None, Broken} \cap Criteria = {} /\ None # Broken
    /\ None \notin Row \cup Ids \cup Groups \cup Sources \cup Evaluators \cup Admins
    /\ \A d \in Criteria : d.op \in {"AND", "OR"} /\ \A c \in d.conditions : c.metric \in Metrics
    /\ MaxValue \in Nat /\ MaxEdits \in Nat

VARIABLES
    \* committed rows
    groups, segs,  \* stamped: last_evaluated_at is not NULL
    member,        \* per segment and user, the source of the user_segments row
    rules,         \* per id, the reward rule
    boosts,        \* per key, the bonus multiplier
    \* the sessions
    locked,        \* the recompute that holds the segment's row FOR UPDATE
    pc, job, edits,
    \* history
    lens,          \* the group a segment's criteria rows were computed in, while
                   \* it stays in it, dynamic and seen by the group's recomputes
    basis, wanted, \* the document and the users its last evaluation stands for
    outrun         \* segments edited on a read older than their first stamp

bindings == <<rules, boosts>>
rows == <<groups, segs, member, bindings>>
history == <<lens, basis, wanted, outrun>>
vars == <<rows, locked, pc, job, edits, history>>

Sessions == Evaluators \cup Admins

SegmentsInit ==
    /\ groups = Groups
    /\ segs = [s \in Ids |-> IF s \in DOMAIN Seeded THEN Seeded[s] ELSE None]
    /\ member = [s \in Ids |-> [u \in Users |-> None]]
    /\ boosts = [k \in Keys |-> None]
    /\ locked = [s \in Ids |-> None]
    /\ pc = [p \in Sessions |-> "idle"]
    /\ job = [p \in Sessions |-> None]
    /\ edits = 0
    /\ lens = [s \in Ids |-> None]
    /\ basis = [s \in Ids |-> None]
    /\ wanted = [s \in Ids |-> {}]
    /\ outrun = {}

Goto(p, label, j) == pc' = [pc EXCEPT ![p] = label] /\ job' = [job EXCEPT ![p] = j]
End(p) == Goto(p, "idle", None)

-----------------------------------------------------------------------------
(* Criteria.  v[m][u] is the value of metric m for user u; a user without a *)
(* value is absent from the metric's map and counts as 0.                   *)

Met(c, x) ==
    IF c.eq # None THEN x = c.eq
    ELSE (c.gte # None => x >= c.gte) /\ (c.lte # None => x <= c.lte)

Matches(d, profile) ==
    IF d.op = "AND" THEN \A c \in d.conditions : Met(c, profile[c.metric])
    ELSE \E c \in d.conditions : Met(c, profile[c.metric])

Profile(v, u) == [m \in Metrics |-> v[m][u]]

MatchesAbsentProfile(d) == Matches(d, [m \in Metrics |-> 0])

Candidates(docs, v) ==
    IF \E d \in docs : MatchesAbsentProfile(d) THEN Users
    ELSE {u \in Users : \E d \in docs : \E c \in d.conditions : v[c.metric][u] # 0}

\* Highest priority first, then the oldest.
Outranks(s, t) ==
    \/ segs[s].priority > segs[t].priority
    \/ segs[s].priority = segs[t].priority /\ s < t

\* The first matching segment of a group wins the user for the group.
Winners(s, valid, v) ==
    {u \in Candidates({segs[t].criteria : t \in valid}, v) :
        /\ Matches(segs[s].criteria, Profile(v, u))
        /\ \A t \in valid :
               segs[t].group = segs[s].group /\ Outranks(t, s)
                   => ~Matches(segs[t].criteria, Profile(v, u))}

\* The reference: of all the users of the tenant, those for whom the segment
\* is the foremost of the recompute's segments of its group that match.
Chosen(s, ids, v) ==
    {u \in Users :
        LET matching == {t \in ids : /\ segs[t].group = segs[s].group /\ segs[t].criteria # Broken
                                     /\ Matches(segs[t].criteria, Profile(v, u))}
        IN  s \in matching /\ \A t \in matching \ {s} : Outranks(s, t)}

-----------------------------------------------------------------------------
(* Recomputes                                                              *)

Dynamic == {s \in Ids : segs[s] # None /\ segs[s].criteria # None}

Begin(e) ==
    /\ pc[e] = "idle" /\ Dynamic # {}
    /\ Goto(e, "lock", [ids |-> Dynamic])
    /\ UNCHANGED <<rows, locked, edits, history>>

\* SELECT .. FOR UPDATE waits for the rows of its snapshot and returns those
\* that still are dynamic, as they are then.
LockSegments(e) ==
    /\ pc[e] = "lock"
    /\ \A s \in job[e].ids : locked[s] = None
    /\ LET ids == job[e].ids \cap Dynamic
       IN  /\ locked' = [s \in Ids |-> IF s \in ids THEN e ELSE locked[s]]
           /\ Goto(e, "evaluate", [ids |-> ids])
    /\ UNCHANGED <<rows, edits, history>>

\* Mutant: a segment that does not parse is left out on its own.
ParsedOf(ids) == {s \in ids : segs[s].criteria # Broken}

\* A group is evaluated whole or not at all.
ValidOf(ids) ==
    {s \in ids : \A t \in ids : segs[t].group = segs[s].group => segs[t].criteria # Broken}

ByCriteria(s) == {u \in Users : member[s][u] = "criteria"}
ByHand(s) == {u \in Users : member[s][u] = "manual"}

\* A user's rows of this segment are deleted by an open transaction.
Dropping(s) == \E a \in Admins : pc[a] = "drop" /\ job[a].id = s

\* The metrics are read and each segment's rows compared with its winners; the
\* deletes wait for rows another transaction has deleted.
Evaluate(e, v) ==
    LET valid == ValidOf(job[e].ids)
        desired == [s \in valid |-> Winners(s, valid, v)]
        delta == [s \in valid |-> [add |-> (desired[s] \ ByCriteria(s)) \ ByHand(s),
                                   remove |-> ByCriteria(s) \ desired[s]]]
    IN  /\ pc[e] = "evaluate"
        /\ \A s \in valid : delta[s].remove # {} => ~Dropping(s)
        /\ Goto(e, "commit", [delta |-> delta, chosen |-> [s \in valid |-> Chosen(s, job[e].ids, v)],
                              docs |-> [s \in valid |-> segs[s].criteria],
                              group |-> [s \in valid |-> segs[s].group],
                              ids |-> job[e].ids])
        /\ UNCHANGED <<rows, locked, edits, history>>

Release(e) == locked' = [s \in Ids |-> IF locked[s] = e THEN None ELSE locked[s]]

\* A segment that joined a group after the snapshot of the recompute that has
\* evaluated the group.
Missed(e, s) == s \notin job[e].ids /\ \E t \in DOMAIN job[e].group : job[e].group[t] = lens[s]

Commit(e) ==
    LET valid == DOMAIN job[e].delta
        Now(f, g) == [s \in Ids |-> IF s \in valid THEN g[s] ELSE f[s]]
    IN  /\ pc[e] = "commit"
        /\ member' = [s \in Ids |-> [u \in Users |->
                          IF s \in valid /\ u \in job[e].delta[s].add THEN "criteria"
                          ELSE IF s \in valid /\ u \in job[e].delta[s].remove THEN None
                          ELSE member[s][u]]]
        /\ segs' = [s \in Ids |-> IF s \in valid THEN [segs[s] EXCEPT !.stamped = TRUE]
                                  ELSE segs[s]]
        /\ lens' = [s \in Ids |-> IF s \in valid THEN job[e].group[s]
                                  ELSE IF Missed(e, s) THEN None ELSE lens[s]]
        /\ basis' = Now(basis, job[e].docs)
        /\ wanted' = Now(wanted, job[e].chosen)
        /\ outrun' = outrun \ valid
        /\ Release(e) /\ End(e)
        /\ UNCHANGED <<bindings, groups, edits>>

\* A time limit, a lost connection, a deadlock's victim, nothing to evaluate.
Abort(e) ==
    /\ pc[e] # "idle"
    /\ Release(e) /\ End(e)
    /\ UNCHANGED <<rows, edits, history>>

-----------------------------------------------------------------------------
(* Admins                                                                  *)

Edit == edits < MaxEdits /\ edits' = edits + 1

CreateGroup(g) ==
    /\ g \notin groups /\ Edit
    /\ groups' = groups \cup {g}
    /\ UNCHANGED <<bindings, segs, member, locked, pc, job, history>>

\* A segment that arrives meanwhile keeps its group by foreign key.
DeleteGroup(g) ==
    /\ g \in groups \ SystemGroups /\ Edit
    /\ \A s \in Ids : segs[s] # None => segs[s].group # g
    /\ groups' = groups \ {g}
    /\ UNCHANGED <<bindings, segs, member, locked, pc, job, history>>

CreateSegment(s, row) ==
    /\ segs[s] = None /\ row.group \in groups /\ ~row.stamped /\ row.criteria # Broken
    /\ Edit
    /\ segs' = [segs EXCEPT ![s] = row]
    /\ UNCHANGED <<bindings, groups, member, locked, pc, job, history>>

ReadForUpdate(a, s) ==
    /\ pc[a] = "idle" /\ segs[s] # None /\ Edit
    /\ Goto(a, "update", [id |-> s, row |-> segs[s]])
    /\ UNCHANGED <<rows, locked, history>>

\* Only the fields that differ from the row as it was read are written, and
\* new criteria take the stamp away, if the read had seen one.
Written(read, row, now) ==
    [group |-> IF row.group = read.group THEN now.group ELSE row.group,
     priority |-> IF row.priority = read.priority THEN now.priority ELSE row.priority,
     criteria |-> IF row.criteria = read.criteria THEN now.criteria ELSE row.criteria,
     stamped |-> now.stamped /\ (row.criteria # read.criteria => ~read.stamped)]

Update(a, row) ==
    LET s == job[a].id
        read == job[a].row
        new == Written(read, row, segs[s])
    IN  /\ pc[a] = "update" /\ segs[s] # None /\ locked[s] = None
        /\ row.criteria # Broken \/ read.criteria = Broken
        /\ row.group # read.group => s \notin System /\ row.group \in groups
        /\ segs' = [segs EXCEPT ![s] = new]
        /\ lens' = IF new.group # segs[s].group \/ new.criteria = None
                   THEN [lens EXCEPT ![s] = None] ELSE lens
        /\ outrun' = IF row.criteria # read.criteria /\ segs[s].stamped /\ ~read.stamped
                     THEN outrun \cup {s} ELSE outrun
        /\ End(a)
        /\ UNCHANGED <<bindings, groups, member, locked, edits, basis, wanted>>

ReadMember(a, s, u) ==
    /\ pc[a] = "idle" /\ segs[s] # None /\ member[s][u] = None /\ Edit
    /\ Goto(a, "add", [id |-> s, user |-> u])
    /\ UNCHANGED <<rows, locked, history>>

\* The insert shares a lock on the segment's row by foreign key, so it waits
\* for a recompute.
InsertMember(a) ==
    LET s == job[a].id
    IN  /\ pc[a] = "add" /\ locked[s] = None
        /\ segs[s] # None /\ member[s][job[a].user] = None
        /\ member' = [member EXCEPT ![s][job[a].user] = "manual"]
        /\ End(a)
        /\ UNCHANGED <<bindings, groups, segs, locked, edits, history>>

Targeting(row, s) == row # None /\ row.segment = s

\* By a rule, active or not, or by a multiplier.
Targeted(s) ==
    \/ \E r \in RuleIds : Targeting(rules[r], s)
    \/ \E k \in Keys : Targeting(boosts[k], s)

\* Refused while something targets the segment (409).  The deletes wait for
\* rows a recompute has deleted.
DropMembers(a, s) ==
    /\ pc[a] = "idle" /\ segs[s] # None /\ s \notin System /\ Edit
    /\ ~Targeted(s)
    /\ ~Dropping(s)
    /\ \A e \in Evaluators :
           pc[e] = "commit" /\ s \in DOMAIN job[e].delta => job[e].delta[s].remove = {}
    /\ Goto(a, "drop", [id |-> s, users |-> {u \in Users : member[s][u] # None}])
    /\ UNCHANGED <<rows, locked, history>>

\* Mutant: the segment goes whoever has joined meanwhile.
DropSegmentAnyway(a) ==
    LET s == job[a].id
    IN  /\ pc[a] = "drop" /\ locked[s] = None
        /\ segs' = [segs EXCEPT ![s] = None]
        /\ member' = [member EXCEPT ![s] = [u \in Users |->
                          IF u \in job[a].users THEN None ELSE member[s][u]]]
        /\ lens' = [lens EXCEPT ![s] = None]
        /\ End(a)
        /\ UNCHANGED <<bindings, groups, locked, edits, basis, wanted, outrun>>

\* The segment's row goes with the members that were deleted; a member who
\* joined meanwhile, and a rule or multiplier bound to it, keep it by foreign
\* key.
DropSegment(a) ==
    LET s == job[a].id
    IN  /\ pc[a] = "drop" /\ locked[s] = None
        /\ {u \in Users : member[s][u] # None} \subseteq job[a].users
        /\ ~Targeted(s)
        /\ segs' = [segs EXCEPT ![s] = None]
        /\ member' = [member EXCEPT ![s] = [u \in Users |-> None]]
        /\ lens' = [lens EXCEPT ![s] = None]
        /\ outrun' = outrun \ {s}
        /\ End(a)
        /\ UNCHANGED <<bindings, groups, locked, edits, basis, wanted>>

\* An error ends the request: a row gone, a key taken, a foreign key, a dead
\* process, a deadlock's victim.
Fail(a) ==
    /\ pc[a] # "idle"
    /\ End(a)
    /\ UNCHANGED <<rows, locked, edits, history>>

\* A release or a hand-edited row leaves a document that does not parse.
Corrupt(s) ==
    /\ segs[s] # None /\ segs[s].criteria \notin {None, Broken} /\ locked[s] = None
    /\ Edit
    /\ segs' = [segs EXCEPT ![s].criteria = Broken]
    /\ UNCHANGED <<bindings, groups, member, locked, pc, job, history>>

SegmentsNext ==
    \/ \E e \in Evaluators :
          \/ Begin(e) \/ LockSegments(e) \/ Commit(e) \/ Abort(e)
          \/ \E v \in [Metrics -> [Users -> 0..MaxValue]] : Evaluate(e, v)
    \/ \E a \in Admins :
          \/ InsertMember(a) \/ DropSegment(a) \/ Fail(a)
          \/ \E row \in Row : Update(a, row)
          \/ \E s \in Ids : \/ ReadForUpdate(a, s) \/ DropMembers(a, s)
                            \/ \E u \in Users : ReadMember(a, s, u)
    \/ \E g \in Groups : CreateGroup(g) \/ DeleteGroup(g)
    \/ \E s \in Ids : Corrupt(s) \/ \E row \in Row : CreateSegment(s, row)

-----------------------------------------------------------------------------
(* Properties                                                              *)

\* Types; a segment has its group and a membership its segment, and a
\* recompute past its lock holds what it evaluates.
SegmentsTypeOK ==
    /\ groups \subseteq Groups
    /\ segs \in [Ids -> Row \cup {None}]
    /\ member \in [Ids -> [Users -> Sources \cup {None}]]
    /\ \A s \in Ids : segs[s] # None => segs[s].group \in groups
    /\ \A s \in Ids : segs[s] = None => locked[s] = None /\ \A u \in Users : member[s][u] = None
    /\ locked \in [Ids -> Evaluators \cup {None}]
    /\ pc \in [Sessions -> {"idle", "lock", "evaluate", "commit", "update", "add", "drop",
                           "rule", "edit", "boost"}]
    /\ \A e \in Evaluators : pc[e] = "evaluate" => \A s \in job[e].ids : locked[s] = e
    /\ edits \in 0..MaxEdits
    /\ lens \in [Ids -> Groups \cup {None}]
    /\ outrun \subseteq Ids

\* The tiers of a group exclude each other: no user belongs by criteria to two
\* segments that were evaluated in one group and have stayed in it, although
\* recomputes overlap with each other and with edits, are cut, and skip groups
\* with a document that does not parse.
\* A segment that a later recompute of its group did not have in its snapshot
\* (Missed) no longer counts as evaluated with the others: it keeps its members
\* of before, and may share users with the new ones until the next recompute.
TierExclusive ==
    \A s, t \in Ids :
        s # t /\ lens[s] # None /\ lens[s] = lens[t] => ByCriteria(s) \cap ByCriteria(t) = {}

\* A dynamic segment that says it has been evaluated holds exactly the users
\* that its present criteria chose, those without any activity included, next
\* to those assigned by hand; unless its criteria were edited on a read older
\* than the stamp.
MembershipExact ==
    \A s \in Ids \ outrun :
        segs[s] # None /\ segs[s].stamped /\ segs[s].criteria \notin {None, Broken} =>
            /\ basis[s] = segs[s].criteria
            /\ ByCriteria(s) = wanted[s] \ ByHand(s)

-----------------------------------------------------------------------------
(* Campaigns: reward rules and bonus multipliers that target segments      *)
(* (app/modules/rules/service.py, app/modules/multipliers/service.py).     *)
(* Admins read first and write later, without a lock; the foreign keys to  *)
(* segments and rules and the unique idempotency key are the database's.   *)

Targets == Ids \cup {None}

Rule == [segment: Targets, status: {"active", "inactive"}]

BonusMultiplier == [rule: RuleIds \cup {None}, segment: Targets]

ASSUME CampaignsAssumption ==
    /\ None \notin RuleIds \cup Rule \cup BonusMultiplier
    /\ \A start \in Launched :
           /\ start \in [RuleIds -> Rule \cup {None}]
           /\ \A r \in RuleIds : start[r] # None => start[r].segment \in DOMAIN Seeded \cup {None}

Init ==
    /\ SegmentsInit
    /\ rules \in Launched

\* _assert_segment_in_tenant
SegmentFound(s) == s # None => segs[s] # None

\* The foreign key, whose check waits for a recompute that has the row.
SegmentHeld(s) == s # None => segs[s] # None /\ locked[s] = None

-----------------------------------------------------------------------------
(* Rules                                                                   *)

\* create_rule: the segment is looked up, and the rule inserted later.
ReceiveRule(a) ==
    /\ pc[a] = "idle" /\ Edit
    /\ \E s \in Targets :
          /\ SegmentFound(s)
          /\ Goto(a, "rule", [row |-> [segment |-> s, status |-> "active"]])
    /\ UNCHANGED <<rows, locked, history>>

InsertRule(a, r) ==
    /\ pc[a] = "rule" /\ rules[r] = None
    /\ SegmentHeld(job[a].row.segment)
    /\ rules' = [rules EXCEPT ![r] = job[a].row]
    /\ End(a)
    /\ UNCHANGED <<groups, segs, member, boosts, locked, edits, history>>

\* update_rule: the rule is read, and the fields that differ from what was
\* read are written.  A trigger condition is never one of them.
ReadRule(a, r) ==
    /\ pc[a] = "idle" /\ rules[r] # None /\ Edit
    /\ Goto(a, "edit", [id |-> r, row |-> rules[r]])
    /\ UNCHANGED <<rows, locked, history>>

Patched(read, row, now) ==
    [segment |-> IF row.segment = read.segment THEN now.segment ELSE row.segment,
     status |-> IF row.status = read.status THEN now.status ELSE row.status]

UpdateRule(a, row) ==
    LET r == job[a].id
    IN  /\ pc[a] = "edit" /\ row # job[a].row
        /\ row.segment # job[a].row.segment => SegmentHeld(row.segment)
        /\ rules' = [rules EXCEPT ![r] = Patched(job[a].row, row, rules[r])]
        /\ End(a)
        /\ UNCHANGED <<groups, segs, member, boosts, locked, edits, history>>

\* Rules are not deleted: their rewards refer to them.
DeactivateRule(r) ==
    /\ rules[r] # None /\ rules[r].status = "active" /\ Edit
    /\ rules' = [rules EXCEPT ![r].status = "inactive"]
    /\ UNCHANGED <<groups, segs, member, boosts, locked, pc, job, history>>

-----------------------------------------------------------------------------
(* Multipliers                                                             *)

\* A key that has its row replays it.
ReceiveMultiplier(a, k) ==
    /\ pc[a] = "idle" /\ boosts[k] = None /\ Edit
    /\ \E row \in BonusMultiplier : Goto(a, "boost", [key |-> k, row |-> row])
    /\ UNCHANGED <<rows, locked, history>>

\* No look-up but the foreign keys and the unique key, all at the flush.
InsertMultiplier(a) ==
    LET row == job[a].row
    IN  /\ pc[a] = "boost" /\ boosts[job[a].key] = None
        /\ row.rule # None => rules[row.rule] # None
        /\ SegmentHeld(row.segment)
        /\ boosts' = [boosts EXCEPT ![job[a].key] = row]
        /\ End(a)
        /\ UNCHANGED <<groups, segs, member, rules, locked, edits, history>>

DeleteMultiplier(k) ==
    /\ boosts[k] # None /\ Edit
    /\ boosts' = [boosts EXCEPT ![k] = None]
    /\ UNCHANGED <<groups, segs, member, rules, locked, pc, job, history>>

-----------------------------------------------------------------------------
CampaignsNext ==
    \/ \E a \in Admins :
          \/ ReceiveRule(a) \/ InsertMultiplier(a)
          \/ \E row \in Rule : UpdateRule(a, row)
          \/ \E r \in RuleIds : InsertRule(a, r) \/ ReadRule(a, r)
          \/ \E k \in Keys : ReceiveMultiplier(a, k)
    \/ \E r \in RuleIds : DeactivateRule(r)
    \/ \E k \in Keys : DeleteMultiplier(k)

Next == SegmentsNext \/ CampaignsNext

Spec == Init /\ [][Next]_vars

-----------------------------------------------------------------------------
(* Properties                                                              *)

\* Every variable keeps its type; a segment has its group and a membership its
\* segment, and a recompute past its lock holds what it evaluates.
TypeOK ==
    /\ SegmentsTypeOK
    /\ rules \in [RuleIds -> Rule \cup {None}]
    /\ boosts \in [Keys -> BonusMultiplier \cup {None}]

\* No rule or multiplier, active or not, is left targeting a segment or a rule
\* that is not there, whoever binds one while the segment is being deleted.
BindingsKept ==
    /\ \A r \in RuleIds : rules[r] # None => SegmentFound(rules[r].segment)
    /\ \A k \in Keys : boosts[k] # None =>
           /\ SegmentFound(boosts[k].segment)
           /\ boosts[k].rule # None => rules[boosts[k].rule] # None

\* Segments tell the truth about their members (segments/evaluator.py:425):
\* one tier per group, and the users that the criteria chose; and what targets
\* a segment finds it (segments/service.py:340).
SegmentsExact == TierExclusive /\ MembershipExact /\ BindingsKept

=============================================================================
