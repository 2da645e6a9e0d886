--------------------------- MODULE SegmentsProofs ---------------------------
(***************************************************************************)
(* Proofs about Segments and Campaigns, for any segments, criteria, users, *)
(* values of the metrics, recomputes and admins: one tier per group, the   *)
(* users that the criteria chose, and no rule that targets what is gone.   *)
(***************************************************************************)
EXTENDS Segments, TLAPS

-----------------------------------------------------------------------------
(* Criteria                                                                *)

\* The foremost of a group's segments comes before another or after it.
LEMMA RankTotal ==
    ASSUME NEW s \in Ids, NEW t \in Ids, s # t, segs[s] \in Row, segs[t] \in Row
    PROVE  /\ Outranks(s, t) \/ Outranks(t, s)
           /\ ~(Outranks(s, t) /\ Outranks(t, s))
<1>1. s \in Nat /\ t \in Nat /\ segs[s].priority \in Int /\ segs[t].priority \in Int
  BY SegmentsAssumption DEF Row
<1> QED
  BY <1>1 DEF Outranks

\* A document that a user without any value does not match is matched only by
\* users with a value of one of its metrics.
LEMMA MatchNeedsValue ==
    ASSUME NEW d \in Criteria, NEW v \in [Metrics -> [Users -> 0..MaxValue]], NEW u \in Users,
           Matches(d, Profile(v, u)), ~MatchesAbsentProfile(d)
    PROVE  \E c \in d.conditions : v[c.metric][u] # 0
<1> DEFINE absent == [m \in Metrics |-> 0]
<1> SUFFICES ASSUME \A c \in d.conditions : v[c.metric][u] = 0 PROVE FALSE
  OBVIOUS
<1>1. d.op \in {"AND", "OR"} /\ \A c \in d.conditions : c.metric \in Metrics
  BY SegmentsAssumption
<1>2. \A c \in d.conditions : Profile(v, u)[c.metric] = absent[c.metric]
  BY <1>1 DEF Profile
<1> HIDE DEF absent
<1>3. \A c \in d.conditions : Met(c, Profile(v, u)[c.metric]) <=> Met(c, absent[c.metric])
  BY <1>2
<1>4. Matches(d, absent)
  BY <1>3 DEF Matches
<1> QED
  BY <1>4 DEF MatchesAbsentProfile, absent

\* The candidates leave out nobody that a document of a valid segment matches,
\* so the winners are, of all users, those the segment is the foremost for.
LEMMA WinnersChosen ==
    ASSUME NEW ids \in SUBSET Ids, \A s \in ids : segs[s] \in Row /\ segs[s].criteria # None,
           NEW v \in [Metrics -> [Users -> 0..MaxValue]], NEW s \in ValidOf(ids)
    PROVE  Winners(s, ValidOf(ids), v) = Chosen(s, ids, v)
<1> DEFINE valid == ValidOf(ids)
           docs == {segs[t].criteria : t \in valid}
           hits(t, u) == Matches(segs[t].criteria, Profile(v, u))
<1>1. valid \subseteq ids /\ s \in ids /\ s \in valid
  BY DEF ValidOf
<1>2. \A t \in valid : segs[t].criteria \in Criteria
  BY <1>1, SegmentsAssumption DEF ValidOf, Row
<1>3. \A t \in ids : segs[t].group = segs[s].group <=> t \in valid /\ segs[t].group = segs[s].group
  BY DEF ValidOf
<1>4. ASSUME NEW u \in Users, hits(s, u)
      PROVE  u \in Candidates(docs, v)
  <2>1. segs[s].criteria \in docs /\ segs[s].criteria \in Criteria
    BY <1>1, <1>2
  <2>2. CASE MatchesAbsentProfile(segs[s].criteria)
    BY <2>1, <2>2 DEF Candidates
  <2>3. CASE ~MatchesAbsentProfile(segs[s].criteria)
    <3>1. \E c \in segs[s].criteria.conditions : v[c.metric][u] # 0
      BY <1>4, <2>1, <2>3, MatchNeedsValue
    <3> QED
      BY <2>1, <3>1 DEF Candidates
  <2> QED
    BY <2>2, <2>3
<1>5. ASSUME NEW u \in Users
      PROVE  u \in Winners(s, valid, v) <=> u \in Chosen(s, ids, v)
  <2> DEFINE matching == {t \in ids : /\ segs[t].group = segs[s].group /\ segs[t].criteria # Broken
                                      /\ hits(t, u)}
  <2>1. \A t \in ids : t \in matching <=> t \in valid /\ segs[t].group = segs[s].group /\ hits(t, u)
    BY <1>1, <1>2, <1>3, SegmentsAssumption
  <2>2. u \in Chosen(s, ids, v) <=> s \in matching /\ \A t \in matching \ {s} : Outranks(s, t)
    BY DEF Chosen
  <2>3. u \in Winners(s, valid, v) <=>
            hits(s, u) /\ \A t \in valid : segs[t].group = segs[s].group /\ Outranks(t, s) => ~hits(t, u)
    BY <1>4 DEF Winners, Candidates
  <2>4. ~Outranks(s, s)
    <3>1. s \in Nat /\ segs[s].priority \in Int
      BY <1>1, SegmentsAssumption DEF Row
    <3> QED
      BY <3>1 DEF Outranks
  <2>5. \A t \in ids : t # s => (Outranks(s, t) <=> ~Outranks(t, s))
    BY <1>1, RankTotal
  <2> HIDE DEF matching, hits
  <2>6. ASSUME u \in Winners(s, valid, v)
        PROVE  u \in Chosen(s, ids, v)
    <3>1. s \in matching
      BY <1>1, <2>1, <2>3, <2>6
    <3>2. ASSUME NEW t \in matching \ {s}
          PROVE  Outranks(s, t)
      <4>1. t \in ids
        BY DEF matching
      <4> QED
        BY <2>1, <2>3, <2>5, <2>6, <4>1
    <3> QED
      BY <2>2, <3>1, <3>2
  <2>7. ASSUME u \in Chosen(s, ids, v)
        PROVE  u \in Winners(s, valid, v)
    <3>1. hits(s, u)
      BY <1>1, <2>1, <2>2, <2>7
    <3>2. ASSUME NEW t \in valid, segs[t].group = segs[s].group, Outranks(t, s), hits(t, u)
          PROVE  FALSE
      <4>1. t \in ids /\ t # s
        BY <1>1, <2>4, <3>2
      <4>2. t \in matching
        BY <2>1, <3>2, <4>1
      <4> QED
        BY <2>2, <2>5, <2>7, <3>2, <4>1, <4>2
    <3> QED
      BY <2>3, <3>1, <3>2
  <2> QED
    BY <2>6, <2>7
<1>6. Winners(s, valid, v) \subseteq Users /\ Chosen(s, ids, v) \subseteq Users
  BY DEF Winners, Candidates, Chosen
<1> QED
  BY <1>5, <1>6

\* Two segments of a group are not both chosen for a user.
LEMMA ChosenApart ==
    ASSUME NEW ids \in SUBSET Ids, \A s \in ids : segs[s] \in Row,
           NEW v, NEW s \in ids, NEW t \in ids, s # t, segs[s].group = segs[t].group
    PROVE  Chosen(s, ids, v) \cap Chosen(t, ids, v) = {}
<1> SUFFICES ASSUME NEW u \in Chosen(s, ids, v), u \in Chosen(t, ids, v) PROVE FALSE
  OBVIOUS
<1>1. Outranks(s, t) /\ Outranks(t, s)
  BY DEF Chosen
<1> QED
  BY <1>1, RankTotal

-----------------------------------------------------------------------------
(* The invariant                                                           *)

\* The evaluation a recompute is about to commit: of rows it holds, of groups
\* whole or not at all, and still the difference between the members and the
\* users the criteria chose.
Decided(e) ==
    LET valid == DOMAIN job[e].delta
    IN  /\ job[e].ids \subseteq Ids /\ valid \subseteq job[e].ids /\ DOMAIN job[e].group = valid
        /\ \A s \in job[e].ids : locked[s] = e /\ segs[s] \in Row
        /\ \A s \in valid, t \in job[e].ids : segs[t].group = segs[s].group => t \in valid
        /\ \A s \in valid :
              /\ segs[s].criteria \in Criteria
              /\ job[e].docs[s] = segs[s].criteria
              /\ job[e].group[s] = segs[s].group
              /\ job[e].chosen[s] \subseteq Users
              /\ job[e].delta[s].add = (job[e].chosen[s] \ ByCriteria(s)) \ ByHand(s)
              /\ job[e].delta[s].remove = ByCriteria(s) \ job[e].chosen[s]
        /\ \A s, t \in valid :
              s # t /\ segs[s].group = segs[t].group => job[e].chosen[s] \cap job[e].chosen[t] = {}

\* What a session carries from its read to its write.
JobOK(p) ==
    /\ pc[p] = "lock" => job[p].ids \subseteq Ids
    /\ pc[p] = "evaluate" =>
          /\ job[p].ids \subseteq Ids
          /\ \A s \in job[p].ids : locked[s] = p /\ segs[s] \in Row /\ segs[s].criteria # None
    /\ pc[p] = "commit" => Decided(p)
    /\ pc[p] = "update" => job[p].id \in Ids /\ job[p].row \in Row
    /\ pc[p] = "add" => job[p].id \in Ids /\ job[p].user \in Users
    /\ pc[p] = "drop" => job[p].id \in Ids
    /\ pc[p] = "rule" => job[p].row \in Rule
    /\ pc[p] = "edit" => job[p].id \in RuleIds /\ job[p].row \in Rule /\ rules[job[p].id] # None
    /\ pc[p] = "boost" => job[p].key \in Keys /\ job[p].row \in BonusMultiplier

Jobs == DOMAIN job = Sessions /\ \A p \in Sessions : JobOK(p)

\* A segment seen through a group is a dynamic segment of that group.
LensesTrue ==
    \A s \in Ids :
        lens[s] # None =>
            segs[s] # None /\ segs[s].group = lens[s] /\ segs[s].criteria # None

IInv == TypeOK /\ Jobs /\ LensesTrue /\ SegmentsExact

Labels == {"idle", "lock", "evaluate", "commit", "update", "add", "drop", "rule", "edit", "boost"}

-----------------------------------------------------------------------------
(* Frames                                                                  *)

LEMMA GotoFrame ==
    ASSUME TypeOK, Jobs, NEW p \in Sessions, NEW l \in Labels, NEW j, Goto(p, l, j)
    PROVE  /\ pc' \in [Sessions -> Labels] /\ pc'[p] = l
           /\ DOMAIN job' = Sessions /\ job'[p] = j
           /\ \A q \in Sessions \ {p} : pc'[q] = pc[q] /\ job'[q] = job[q]
BY DEF TypeOK, SegmentsTypeOK, Jobs, Goto, Labels

LEMMA EndFrame ==
    ASSUME TypeOK, Jobs, NEW p \in Sessions, End(p)
    PROVE  /\ pc' \in [Sessions -> Labels] /\ pc'[p] = "idle"
           /\ DOMAIN job' = Sessions
           /\ \A q \in Sessions \ {p} : pc'[q] = pc[q] /\ job'[q] = job[q]
<1>1. Goto(p, "idle", None) /\ "idle" \in Labels
  BY DEF End, Labels
<1> QED
  BY <1>1, GotoFrame

\* A session's job stays good while the rows it holds and the rules stay.
LEMMA JobStays ==
    ASSUME NEW p \in Sessions, JobOK(p), pc'[p] = pc[p], job'[p] = job[p],
           \A s \in Ids : locked[s] = p =>
               locked'[s] = p /\ segs'[s] = segs[s] /\ member'[s] = member[s],
           \A r \in RuleIds : rules[r] # None => rules'[r] # None
    PROVE  JobOK(p)'
<1>1. CASE pc[p] = "commit"
  <2>1. Decided(p) /\ \A s \in job[p].ids : s \in Ids /\ locked[s] = p
    BY <1>1 DEF JobOK, Decided
  <2>2. \A s \in job[p].ids : locked'[s] = p /\ segs'[s] = segs[s] /\ ByCriteria(s)' = ByCriteria(s)
                              /\ ByHand(s)' = ByHand(s)
    BY <2>1 DEF ByCriteria, ByHand
  <2>3. Decided(p)'
    BY <2>1, <2>2 DEF Decided
  <2> QED
    BY <1>1, <2>3 DEF JobOK
<1>2. CASE pc[p] = "evaluate"
  <2>1. \A s \in job[p].ids : s \in Ids /\ locked'[s] = p /\ segs'[s] = segs[s]
    BY <1>2 DEF JobOK
  <2> QED
    BY <1>2, <2>1 DEF JobOK
<1>3. CASE pc[p] \notin {"commit", "evaluate"}
  BY <1>3 DEF JobOK
<1> QED
  BY <1>1, <1>2, <1>3

\* The same for all the sessions but the one whose step it is.
LEMMA JobsStay ==
    ASSUME Jobs, DOMAIN job' = Sessions, NEW p \in Sessions, JobOK(p)',
           \A q \in Sessions \ {p} : pc'[q] = pc[q] /\ job'[q] = job[q],
           \A q \in Sessions \ {p} : \A s \in Ids : locked[s] = q =>
               locked'[s] = q /\ segs'[s] = segs[s] /\ member'[s] = member[s],
           \A r \in RuleIds : rules[r] # None => rules'[r] # None
    PROVE  Jobs'
<1>1. ASSUME NEW q \in Sessions \ {p}
      PROVE  JobOK(q)'
  <2>1. JobOK(q) /\ pc'[q] = pc[q] /\ job'[q] = job[q]
    BY DEF Jobs
  <2>2. \A s \in Ids : locked[s] = q => locked'[s] = q /\ segs'[s] = segs[s] /\ member'[s] = member[s]
    OBVIOUS
  <2> QED
    BY <2>1, <2>2, JobStays
<1> QED
  BY <1>1 DEF Jobs

\* A step of nobody's program: the jobs are what they were.
LEMMA JobsUntouched ==
    ASSUME Jobs, UNCHANGED <<pc, job>>,
           \A s \in Ids : locked[s] # None =>
               locked'[s] = locked[s] /\ segs'[s] = segs[s] /\ member'[s] = member[s],
           \A r \in RuleIds : rules[r] # None => rules'[r] # None
    PROVE  Jobs'
<1>1. ASSUME NEW q \in Sessions
      PROVE  JobOK(q)'
  <2>1. JobOK(q) /\ pc'[q] = pc[q] /\ job'[q] = job[q]
    BY DEF Jobs
  <2>2. q # None
    BY SegmentsAssumption DEF Sessions
  <2>3. \A s \in Ids : locked[s] = q => locked'[s] = q /\ segs'[s] = segs[s] /\ member'[s] = member[s]
    BY <2>2
  <2> QED
    BY <2>1, <2>3, JobStays
<1> QED
  BY <1>1 DEF Jobs

\* Steps that write no row disturb nothing that is said of rows.
LEMMA RowsStay ==
    ASSUME LensesTrue, SegmentsExact, UNCHANGED <<rows, history>>
    PROVE  LensesTrue' /\ SegmentsExact'
<1> USE DEF rows, history, bindings
<1>1. LensesTrue'
  BY DEF LensesTrue
<1>2. TierExclusive' /\ MembershipExact'
  BY DEF SegmentsExact, TierExclusive, MembershipExact, ByCriteria, ByHand
<1>3. BindingsKept'
  BY DEF SegmentsExact, BindingsKept, SegmentFound
<1> QED
  BY <1>1, <1>2, <1>3 DEF SegmentsExact

LEMMA StillTyped ==
    ASSUME TypeOK, UNCHANGED <<rows, history>>, pc' \in [Sessions -> Labels],
           locked' \in [Ids -> Evaluators \cup {None}], edits' \in 0..MaxEdits,
           \A s \in Ids : segs[s] = None => locked'[s] = None,
           \A e \in Evaluators : pc'[e] = "evaluate" => \A s \in job'[e].ids : locked'[s] = e
    PROVE  TypeOK'
BY DEF TypeOK, SegmentsTypeOK, rows, history, bindings, Labels

\* A read: the session alone moves, to a label that is not of a recompute.
LEMMA ReadKeeps ==
    ASSUME IInv, NEW p \in Sessions, UNCHANGED <<rows, history, locked>>,
           edits' \in 0..MaxEdits, NEW l \in Labels \ {"evaluate"}, NEW j, Goto(p, l, j),
           JobOK(p)'
    PROVE  IInv'
<1>1. TypeOK /\ Jobs /\ LensesTrue /\ SegmentsExact
  BY DEF IInv
<1>2. /\ pc' \in [Sessions -> Labels] /\ pc'[p] = l
      /\ DOMAIN job' = Sessions /\ job'[p] = j
      /\ \A q \in Sessions \ {p} : pc'[q] = pc[q] /\ job'[q] = job[q]
  BY <1>1, GotoFrame
<1>3. TypeOK'
  <2>1. \A e \in Evaluators : pc'[e] = "evaluate" => \A s \in job'[e].ids : locked'[s] = e
    BY <1>1, <1>2 DEF TypeOK, SegmentsTypeOK, Sessions
  <2>2. /\ locked' \in [Ids -> Evaluators \cup {None}]
        /\ \A s \in Ids : segs[s] = None => locked'[s] = None
    BY <1>1 DEF TypeOK, SegmentsTypeOK
  <2> QED
    BY <1>1, <1>2, <2>1, <2>2, StillTyped
<1>4. LensesTrue' /\ SegmentsExact'
  BY <1>1, RowsStay
<1>5. Jobs'
  BY <1>1, <1>2, JobsStay DEF rows, bindings
<1> QED
  BY <1>3, <1>4, <1>5 DEF IInv

\* The change a request of an admin counts for.
LEMMA EditType ==
    ASSUME TypeOK, Edit
    PROVE  edits' \in 0..MaxEdits
BY SegmentsAssumption DEF TypeOK, SegmentsTypeOK, Edit

-----------------------------------------------------------------------------
(* Reads and ends                                                          *)

LEMMA BeginKeeps ==
    ASSUME IInv, NEW e \in Evaluators, Begin(e)
    PROVE  IInv'
<1>1. e \in Sessions /\ TypeOK /\ Jobs
  BY DEF Sessions, IInv
<1>2. /\ Goto(e, "lock", [ids |-> Dynamic]) /\ "lock" \in Labels \ {"evaluate"}
      /\ UNCHANGED <<rows, history, locked>> /\ edits' \in 0..MaxEdits
  BY <1>1 DEF Begin, Labels, TypeOK, SegmentsTypeOK
<1>3. pc'[e] = "lock" /\ job'[e] = [ids |-> Dynamic]
  BY <1>1, <1>2, GotoFrame
<1>4. JobOK(e)'
  BY <1>3 DEF JobOK, Dynamic
<1> QED
  BY <1>1, <1>2, <1>4, ReadKeeps

LEMMA ReadsKeep ==
    ASSUME IInv, NEW a \in Admins,
           \/ \E s \in Ids : ReadForUpdate(a, s)
           \/ \E s \in Ids : DropMembers(a, s)
           \/ \E s \in Ids, u \in Users : ReadMember(a, s, u)
           \/ ReceiveRule(a)
           \/ \E r \in RuleIds : ReadRule(a, r)
           \/ \E k \in Keys : ReceiveMultiplier(a, k)
    PROVE  IInv'
<1>1. a \in Sessions /\ TypeOK /\ Jobs
  BY DEF Sessions, IInv
<1>2. ASSUME NEW l \in {"update", "drop", "add", "rule", "edit", "boost"}, NEW j, Goto(a, l, j),
             UNCHANGED <<rows, history, locked>>, Edit,
             pc'[a] = l /\ job'[a] = j => JobOK(a)'
      PROVE  IInv'
  <2>1. l \in Labels \ {"evaluate"}
    BY DEF Labels
  <2>2. pc'[a] = l /\ job'[a] = j
    BY <1>1, <1>2, <2>1, GotoFrame
  <2> QED
    BY <1>1, <1>2, <2>1, <2>2, EditType, ReadKeeps
<1>3. ASSUME NEW s \in Ids, ReadForUpdate(a, s)
      PROVE  IInv'
  <2>1. segs[s] \in Row
    BY <1>1, <1>3 DEF ReadForUpdate, TypeOK, SegmentsTypeOK
  <2>2. pc'[a] = "update" /\ job'[a] = [id |-> s, row |-> segs[s]] => JobOK(a)'
    BY <2>1 DEF JobOK
  <2> QED
    BY <1>2, <1>3, <2>2 DEF ReadForUpdate
<1>4. ASSUME NEW s \in Ids, DropMembers(a, s)
      PROVE  IInv'
  <2>1. pc'[a] = "drop" /\ job'[a] = [id |-> s, users |-> {u \in Users : member[s][u] # None}] => JobOK(a)'
    BY DEF JobOK
  <2> QED
    BY <1>2, <1>4, <2>1 DEF DropMembers
<1>5. ASSUME NEW s \in Ids, NEW u \in Users, ReadMember(a, s, u)
      PROVE  IInv'
  <2>1. pc'[a] = "add" /\ job'[a] = [id |-> s, user |-> u] => JobOK(a)'
    BY DEF JobOK
  <2> QED
    BY <1>2, <1>5, <2>1 DEF ReadMember
<1>6. ASSUME ReceiveRule(a)
      PROVE  IInv'
  <2>1. PICK s \in Targets : Goto(a, "rule", [row |-> [segment |-> s, status |-> "active"]])
    BY <1>6 DEF ReceiveRule
  <2>2. pc'[a] = "rule" /\ job'[a] = [row |-> [segment |-> s, status |-> "active"]] => JobOK(a)'
    BY DEF JobOK, Rule
  <2> QED
    BY <1>2, <1>6, <2>1, <2>2 DEF ReceiveRule
<1>7. ASSUME NEW r \in RuleIds, ReadRule(a, r)
      PROVE  IInv'
  <2>1. rules[r] \in Rule /\ rules' = rules
    BY <1>1, <1>7 DEF ReadRule, TypeOK, rows, bindings
  <2>2. pc'[a] = "edit" /\ job'[a] = [id |-> r, row |-> rules[r]] => JobOK(a)'
    BY <1>7, <2>1 DEF JobOK, ReadRule
  <2> QED
    BY <1>2, <1>7, <2>2 DEF ReadRule
<1>8. ASSUME NEW k \in Keys, ReceiveMultiplier(a, k)
      PROVE  IInv'
  <2>1. PICK row \in BonusMultiplier : Goto(a, "boost", [key |-> k, row |-> row])
    BY <1>8 DEF ReceiveMultiplier
  <2>2. pc'[a] = "boost" /\ job'[a] = [key |-> k, row |-> row] => JobOK(a)'
    BY DEF JobOK
  <2> QED
    BY <1>2, <1>8, <2>1, <2>2 DEF ReceiveMultiplier
<1> QED
  BY <1>3, <1>4, <1>5, <1>6, <1>7, <1>8

\* An end without a write.
LEMMA FailKeeps ==
    ASSUME IInv, NEW a \in Admins, Fail(a)
    PROVE  IInv'
<1>1. a \in Sessions /\ TypeOK /\ Jobs
  BY DEF Sessions, IInv
<1>2. /\ Goto(a, "idle", None) /\ "idle" \in Labels \ {"evaluate"}
      /\ UNCHANGED <<rows, history, locked>> /\ edits' \in 0..MaxEdits
  BY <1>1 DEF Fail, End, Labels, TypeOK, SegmentsTypeOK
<1>3. pc'[a] = "idle"
  BY <1>1, <1>2, GotoFrame
<1>4. JobOK(a)'
  BY <1>3 DEF JobOK
<1> QED
  BY <1>1, <1>2, <1>4, ReadKeeps

\* What a recompute leaves when it ends: its own locks are free, and no other.
LEMMA ReleaseFrame ==
    ASSUME TypeOK, NEW e \in Evaluators, Release(e)
    PROVE  /\ locked' \in [Ids -> Evaluators \cup {None}]
           /\ \A s \in Ids : locked[s] # e => locked'[s] = locked[s]
           /\ \A s \in Ids : locked[s] = None => locked'[s] = None
           /\ \A s \in Ids : locked[s] = e => locked'[s] = None
BY SegmentsAssumption DEF TypeOK, SegmentsTypeOK, Release

LEMMA AbortKeeps ==
    ASSUME IInv, NEW e \in Evaluators, Abort(e)
    PROVE  IInv'
<1>1. e \in Sessions /\ TypeOK /\ Jobs /\ LensesTrue /\ SegmentsExact
  BY DEF Sessions, IInv
<1>2. UNCHANGED <<rows, history>> /\ edits' = edits /\ Release(e) /\ End(e)
  BY DEF Abort
<1>3. /\ pc' \in [Sessions -> Labels] /\ pc'[e] = "idle" /\ DOMAIN job' = Sessions
      /\ \A q \in Sessions \ {e} : pc'[q] = pc[q] /\ job'[q] = job[q]
  BY <1>1, <1>2, EndFrame
<1>4. /\ locked' \in [Ids -> Evaluators \cup {None}]
      /\ \A s \in Ids : locked[s] # e => locked'[s] = locked[s]
      /\ \A s \in Ids : locked[s] = None => locked'[s] = None
  BY <1>1, <1>2, ReleaseFrame
<1>5. TypeOK'
  <2>1. ASSUME NEW f \in Evaluators, pc'[f] = "evaluate", NEW s \in job'[f].ids
        PROVE  locked'[s] = f
    <3>1. f # e /\ f \in Sessions
      BY <1>3, <2>1 DEF Sessions
    <3>2. pc[f] = "evaluate" /\ s \in job[f].ids
      BY <1>3, <2>1, <3>1
    <3>3. s \in Ids /\ locked[s] = f
      BY <1>1, <3>1, <3>2 DEF Jobs, JobOK
    <3> QED
      BY <1>4, <3>1, <3>3
  <2>2. \A s \in Ids : segs[s] = None => locked'[s] = None
    BY <1>1, <1>4 DEF TypeOK, SegmentsTypeOK
  <2>3. edits' \in 0..MaxEdits
    BY <1>1, <1>2 DEF TypeOK, SegmentsTypeOK
  <2> QED
    BY <1>1, <1>2, <1>3, <1>4, <2>1, <2>2, <2>3, StillTyped
<1>6. LensesTrue' /\ SegmentsExact'
  BY <1>1, <1>2, RowsStay
<1>7. Jobs'
  <2>1. JobOK(e)'
    BY <1>3 DEF JobOK
  <2> QED
    BY <1>1, <1>2, <1>3, <1>4, <2>1, JobsStay DEF rows, bindings
<1> QED
  BY <1>5, <1>6, <1>7 DEF IInv

-----------------------------------------------------------------------------
(* Recomputes                                                              *)

LEMMA LockKeeps ==
    ASSUME IInv, NEW e \in Evaluators, LockSegments(e)
    PROVE  IInv'
<1> DEFINE ids == job[e].ids \cap Dynamic
<1>1. e \in Sessions /\ TypeOK /\ Jobs /\ LensesTrue /\ SegmentsExact /\ e # None
  BY SegmentsAssumption DEF Sessions, IInv
<1>2. /\ pc[e] = "lock" /\ \A s \in job[e].ids : locked[s] = None
      /\ locked' = [s \in Ids |-> IF s \in ids THEN e ELSE locked[s]]
      /\ Goto(e, "evaluate", [ids |-> ids])
      /\ UNCHANGED <<rows, history>> /\ edits' = edits
  BY DEF LockSegments
<1>3. /\ pc' \in [Sessions -> Labels] /\ pc'[e] = "evaluate"
      /\ DOMAIN job' = Sessions /\ job'[e] = [ids |-> ids]
      /\ \A q \in Sessions \ {e} : pc'[q] = pc[q] /\ job'[q] = job[q]
  <2>1. "evaluate" \in Labels
    BY DEF Labels
  <2> QED
    BY <1>1, <1>2, <2>1, GotoFrame
<1>4. /\ ids \subseteq Ids /\ \A s \in ids : segs[s] \in Row /\ segs[s].criteria # None
      /\ \A s \in ids : locked[s] = None
  BY <1>1, <1>2 DEF Dynamic, TypeOK, SegmentsTypeOK
<1> HIDE DEF ids
<1>5. segs' = segs /\ member' = member /\ rules' = rules
  BY <1>2 DEF rows, bindings
<1>6. TypeOK'
  <2>1. ASSUME NEW f \in Evaluators, pc'[f] = "evaluate", NEW s \in job'[f].ids
        PROVE  locked'[s] = f
    <3>1. CASE f = e
      BY <1>2, <1>3, <1>4, <2>1, <3>1
    <3>2. CASE f # e
      <4>1. f \in Sessions /\ pc[f] = "evaluate" /\ s \in job[f].ids
        BY <1>3, <2>1, <3>2 DEF Sessions
      <4>2. s \in Ids /\ locked[s] = f /\ f # None
        BY <1>1, <4>1, SegmentsAssumption DEF Jobs, JobOK
      <4> QED
        BY <1>2, <1>4, <4>2
    <3> QED
      BY <3>1, <3>2
  <2>2. /\ locked' \in [Ids -> Evaluators \cup {None}] /\ edits' \in 0..MaxEdits
        /\ \A s \in Ids : segs[s] = None => locked'[s] = None
    BY <1>1, <1>2, <1>4, SegmentsAssumption DEF TypeOK, SegmentsTypeOK
  <2> QED
    BY <1>1, <1>2, <1>3, <2>1, <2>2, StillTyped
<1>7. LensesTrue' /\ SegmentsExact'
  BY <1>1, <1>2, RowsStay
<1>8. Jobs'
  <2>1. JobOK(e)'
    BY <1>2, <1>3, <1>4, <1>5 DEF JobOK
  <2>2. ASSUME NEW q \in Sessions \ {e}, NEW s \in Ids, locked[s] = q
        PROVE  locked'[s] = q
    <3>1. q # None
      BY SegmentsAssumption DEF Sessions
    <3> QED
      BY <1>2, <1>4, <2>2, <3>1
  <2> QED
    BY <1>1, <1>3, <1>5, <2>1, <2>2, JobsStay
<1> QED
  BY <1>6, <1>7, <1>8 DEF IInv

LEMMA EvaluateKeeps ==
    ASSUME IInv, NEW e \in Evaluators, NEW v \in [Metrics -> [Users -> 0..MaxValue]], Evaluate(e, v)
    PROVE  IInv'
<1> DEFINE ids == job[e].ids
           valid == ValidOf(ids)
           desired == [s \in valid |-> Winners(s, valid, v)]
           delta == [s \in valid |-> [add |-> (desired[s] \ ByCriteria(s)) \ ByHand(s),
                                      remove |-> ByCriteria(s) \ desired[s]]]
           decision == [delta |-> delta, chosen |-> [s \in valid |-> Chosen(s, ids, v)],
                        docs |-> [s \in valid |-> segs[s].criteria],
                        group |-> [s \in valid |-> segs[s].group],
                        ids |-> ids]
<1>1. e \in Sessions /\ TypeOK /\ Jobs /\ pc[e] = "evaluate"
  BY DEF Sessions, IInv, Evaluate
<1>2. /\ Goto(e, "commit", decision) /\ "commit" \in Labels \ {"evaluate"}
      /\ UNCHANGED <<rows, history, locked>> /\ edits' \in 0..MaxEdits
  BY <1>1 DEF Evaluate, Labels, TypeOK, SegmentsTypeOK
<1>3. pc'[e] = "commit" /\ job'[e] = decision
  BY <1>1, <1>2, GotoFrame
<1>4. /\ ids \subseteq Ids
      /\ \A s \in ids : locked[s] = e /\ segs[s] \in Row /\ segs[s].criteria # None
  BY <1>1 DEF Jobs, JobOK
<1>5. valid \subseteq ids
  BY DEF ValidOf
<1>6. \A s \in valid : Winners(s, valid, v) = Chosen(s, ids, v)
  BY <1>4, WinnersChosen
<1>7. \A s \in valid : segs[s].criteria \in Criteria /\ Chosen(s, ids, v) \subseteq Users
  BY <1>4, SegmentsAssumption DEF ValidOf, Row, Chosen
<1>8. \A s \in valid, t \in ids : segs[t].group = segs[s].group => t \in valid
  BY DEF ValidOf
<1>9. ASSUME NEW s \in valid, NEW t \in valid, s # t, segs[s].group = segs[t].group
      PROVE  Chosen(s, ids, v) \cap Chosen(t, ids, v) = {}
  BY <1>4, <1>5, <1>9, ChosenApart
<1>10. \A s \in valid : /\ delta[s].add = (Chosen(s, ids, v) \ ByCriteria(s)) \ ByHand(s)
                        /\ delta[s].remove = ByCriteria(s) \ Chosen(s, ids, v)
  BY <1>6
<1>11. UNCHANGED <<segs, member, locked>>
  BY <1>2 DEF rows
<1> DEFINE d == delta
           c == [s \in valid |-> Chosen(s, ids, v)]
<1>12. /\ job'[e].delta = d /\ job'[e].chosen = c /\ job'[e].ids = ids
       /\ job'[e].docs = [s \in valid |-> segs[s].criteria]
       /\ job'[e].group = [s \in valid |-> segs[s].group]
       /\ DOMAIN d = valid /\ \A s \in valid : c[s] = Chosen(s, ids, v)
  BY <1>3
<1> HIDE DEF delta, d, c, valid, ids, decision, desired
<1>13. Decided(e)'
  BY <1>4, <1>5, <1>7, <1>8, <1>9, <1>10, <1>11, <1>12 DEF Decided, ByCriteria, ByHand, d
<1>14. JobOK(e)'
  BY <1>3, <1>13 DEF JobOK
<1> QED
  BY <1>1, <1>2, <1>14, ReadKeeps

\* What the commit of an evaluation writes: to the segments it evaluated the
\* users the criteria chose, next to those assigned by hand, and to no other.
LEMMA CommitWrites ==
    ASSUME TypeOK, NEW e \in Evaluators, Decided(e), Commit(e)
    PROVE  LET valid == DOMAIN job[e].delta
           IN  /\ \A s \in Ids \ valid : segs'[s] = segs[s] /\ member'[s] = member[s]
               /\ \A s \in valid :
                     /\ s \in Ids /\ locked[s] = e
                     /\ segs[s] \in Row /\ segs[s].criteria \in Criteria
                     /\ segs[s] # None /\ segs'[s] # None
                     /\ segs'[s].group = segs[s].group /\ segs'[s].criteria = segs[s].criteria
                     /\ ByHand(s)' = ByHand(s)
                     /\ ByCriteria(s)' = job[e].chosen[s] \ ByHand(s)
               /\ segs' \in [Ids -> Row \cup {None}]
               /\ member' \in [Ids -> [Users -> Sources \cup {None}]]
<1> DEFINE valid == DOMAIN job[e].delta
<1>1. \A s \in valid : /\ s \in Ids /\ locked[s] = e
                       /\ segs[s] \in Row /\ segs[s].criteria \in Criteria
                       /\ job[e].chosen[s] \subseteq Users
                       /\ job[e].delta[s].add = (job[e].chosen[s] \ ByCriteria(s)) \ ByHand(s)
                       /\ job[e].delta[s].remove = ByCriteria(s) \ job[e].chosen[s]
  BY DEF Decided
<1>2. /\ member' = [s \in Ids |-> [u \in Users |->
                       IF s \in valid /\ u \in job[e].delta[s].add THEN "criteria"
                       ELSE IF s \in valid /\ u \in job[e].delta[s].remove THEN None
                       ELSE member[s][u]]]
      /\ segs' = [s \in Ids |-> IF s \in valid THEN [segs[s] EXCEPT !.stamped = TRUE]
                                ELSE segs[s]]
  BY DEF Commit
<1> HIDE DEF valid
<1>3. segs \in [Ids -> Row \cup {None}] /\ member \in [Ids -> [Users -> Sources \cup {None}]]
  BY DEF TypeOK, SegmentsTypeOK
<1>4. ASSUME NEW s \in Ids, s \notin valid
      PROVE  segs'[s] = segs[s] /\ member'[s] = member[s]
  <2>1. member[s] \in [Users -> Sources \cup {None}] /\ member'[s] = [u \in Users |-> member[s][u]]
    BY <1>2, <1>3, <1>4
  <2>2. member'[s] = member[s]
    BY <2>1
  <2> QED
    BY <1>2, <1>4, <2>2
<1>5. ASSUME NEW s \in valid
      PROVE  ByHand(s)' = ByHand(s) /\ ByCriteria(s)' = job[e].chosen[s] \ ByHand(s)
  <2>1. None # "manual" /\ None # "criteria" /\ s \in Ids /\ member[s] \in [Users -> Sources \cup {None}]
    BY <1>1, <1>3, SegmentsAssumption DEF Sources
  <2>2. \A u \in Users : member'[s][u] = IF u \in job[e].delta[s].add THEN "criteria"
                                         ELSE IF u \in job[e].delta[s].remove THEN None
                                         ELSE member[s][u]
    BY <1>2, <2>1
  <2>3. ByHand(s)' = {u \in Users : member'[s][u] = "manual"}
        /\ ByCriteria(s)' = {u \in Users : member'[s][u] = "criteria"}
    BY DEF ByHand, ByCriteria
  <2>4. ASSUME NEW u \in Users
        PROVE  /\ member'[s][u] = "manual" <=> member[s][u] = "manual"
               /\ member'[s][u] = "criteria" <=> u \in job[e].chosen[s] /\ member[s][u] # "manual"
    <3>1. /\ u \in ByHand(s) <=> member[s][u] = "manual"
          /\ u \in ByCriteria(s) <=> member[s][u] = "criteria"
      BY DEF ByHand, ByCriteria
    <3>2. /\ u \in job[e].delta[s].add <=>
                 u \in job[e].chosen[s] /\ member[s][u] # "criteria" /\ member[s][u] # "manual"
          /\ u \in job[e].delta[s].remove <=> member[s][u] = "criteria" /\ u \notin job[e].chosen[s]
      BY <1>1, <3>1
    <3> QED
      BY <2>1, <2>2, <3>2
  <2>5. job[e].chosen[s] \subseteq Users
    BY <1>1
  <2> QED
    BY <2>3, <2>4, <2>5 DEF ByHand
<1>6. ASSUME NEW s \in valid
      PROVE  /\ segs'[s] \in Row /\ segs[s] # None /\ segs'[s] # None
             /\ segs'[s].group = segs[s].group /\ segs'[s].criteria = segs[s].criteria
  <2>1. segs'[s] = [segs[s] EXCEPT !.stamped = TRUE] /\ segs[s] \in Row
    BY <1>1, <1>2
  <2>2. /\ segs'[s] \in Row
        /\ segs'[s].group = segs[s].group /\ segs'[s].criteria = segs[s].criteria
    BY <2>1 DEF Row
  <2>3. None \notin Row
    BY SegmentsAssumption
  <2> QED
    BY <2>1, <2>2, <2>3
<1>7. member' \in [Ids -> [Users -> Sources \cup {None}]]
  BY <1>2, <1>3 DEF Sources
<1>8. segs' \in [Ids -> Row \cup {None}]
  BY <1>2, <1>3, <1>4, <1>6
<1> QED
  BY <1>1, <1>4, <1>5, <1>6, <1>7, <1>8 DEF valid

LEMMA CommitKeeps ==
    ASSUME IInv, NEW e \in Evaluators, Commit(e)
    PROVE  IInv'
<1> DEFINE valid == DOMAIN job[e].delta
           ids == job[e].ids
<1>1. /\ e \in Sessions /\ TypeOK /\ Jobs /\ LensesTrue
      /\ TierExclusive /\ MembershipExact /\ BindingsKept /\ pc[e] = "commit"
  BY DEF Sessions, IInv, SegmentsExact, Commit
<1>2. Decided(e)
  BY <1>1 DEF Jobs, JobOK
<1>3. /\ \A s \in Ids \ valid : segs'[s] = segs[s] /\ member'[s] = member[s]
      /\ \A s \in valid :
            /\ s \in Ids /\ locked[s] = e
            /\ segs[s] \in Row /\ segs[s].criteria \in Criteria
            /\ segs[s] # None /\ segs'[s] # None
            /\ segs'[s].group = segs[s].group /\ segs'[s].criteria = segs[s].criteria
            /\ ByHand(s)' = ByHand(s)
            /\ ByCriteria(s)' = job[e].chosen[s] \ ByHand(s)
      /\ segs' \in [Ids -> Row \cup {None}]
      /\ member' \in [Ids -> [Users -> Sources \cup {None}]]
  BY <1>1, <1>2, CommitWrites
<1>4. /\ \A s \in valid, t \in ids : segs[t].group = segs[s].group => t \in valid
      /\ \A s \in valid : job[e].docs[s] = segs[s].criteria /\ job[e].group[s] = segs[s].group
      /\ \A s, t \in valid :
            s # t /\ segs[s].group = segs[t].group => job[e].chosen[s] \cap job[e].chosen[t] = {}
      /\ DOMAIN job[e].group = valid
  BY <1>2 DEF Decided
<1>5. /\ Release(e) /\ End(e) /\ UNCHANGED <<rules, boosts, groups, edits>>
      /\ lens' = [s \in Ids |-> IF s \in valid THEN job[e].group[s]
                                ELSE IF Missed(e, s) THEN None ELSE lens[s]]
      /\ basis' = [s \in Ids |-> IF s \in valid THEN job[e].docs[s] ELSE basis[s]]
      /\ wanted' = [s \in Ids |-> IF s \in valid THEN job[e].chosen[s] ELSE wanted[s]]
      /\ outrun' = outrun \ valid
  BY DEF Commit, bindings
<1>6. \A s \in Ids \ valid : lens'[s] # None =>
          /\ lens'[s] = lens[s]
          /\ \A t \in valid : segs[t].group = lens[s] => s \in ids
  BY <1>4, <1>5 DEF Missed
<1> HIDE DEF valid, ids
<1>7. /\ pc' \in [Sessions -> Labels] /\ pc'[e] = "idle" /\ DOMAIN job' = Sessions
      /\ \A q \in Sessions \ {e} : pc'[q] = pc[q] /\ job'[q] = job[q]
  BY <1>1, <1>5, EndFrame
<1>8. /\ locked' \in [Ids -> Evaluators \cup {None}]
      /\ \A s \in Ids : locked[s] # e => locked'[s] = locked[s]
      /\ \A s \in Ids : locked[s] = None => locked'[s] = None
  BY <1>1, <1>5, ReleaseFrame
<1>9. \A s \in Ids : segs'[s] = None <=> segs[s] = None
  BY <1>3
<1>10. \A s \in Ids : segs[s] # None =>
           /\ segs'[s].group = segs[s].group /\ segs'[s].criteria = segs[s].criteria
           /\ s \notin valid => segs'[s].stamped = segs[s].stamped
  BY <1>3
<1>11. TypeOK'
  <2>1. ASSUME NEW f \in Evaluators, pc'[f] = "evaluate", NEW s \in job'[f].ids
        PROVE  locked'[s] = f
    <3>1. f # e /\ f \in Sessions
      BY <1>7, <2>1 DEF Sessions
    <3>2. pc[f] = "evaluate" /\ s \in job[f].ids
      BY <1>7, <2>1, <3>1
    <3>3. s \in Ids /\ locked[s] = f
      BY <1>1, <3>1, <3>2 DEF Jobs, JobOK
    <3> QED
      BY <1>8, <3>1, <3>3
  <2>2. \A s \in Ids : segs'[s] # None => segs'[s].group \in groups'
    BY <1>1, <1>5, <1>9, <1>10 DEF TypeOK, SegmentsTypeOK
  <2>3. \A s \in Ids : segs'[s] = None => locked'[s] = None /\ \A u \in Users : member'[s][u] = None
    <3>1. ASSUME NEW s \in Ids, segs'[s] = None
          PROVE  locked'[s] = None /\ \A u \in Users : member'[s][u] = None
      <4>1. segs[s] = None /\ locked[s] = None /\ \A u \in Users : member[s][u] = None
        BY <1>1, <1>9, <3>1 DEF TypeOK, SegmentsTypeOK
      <4>2. s \notin valid
        BY <1>3, <4>1
      <4> QED
        BY <1>3, <1>8, <4>1, <4>2
    <3> QED
      BY <3>1
  <2>4. lens' \in [Ids -> Groups \cup {None}]
    <3>1. \A s \in valid : job[e].group[s] \in Groups
      BY <1>3, <1>4 DEF Row
    <3> QED
      BY <1>1, <1>5, <3>1 DEF TypeOK, SegmentsTypeOK
  <2>5. outrun' \subseteq Ids
    BY <1>1, <1>5 DEF TypeOK, SegmentsTypeOK
  <2> QED
    BY <1>1, <1>3, <1>5, <1>7, <1>8, <2>1, <2>2, <2>3, <2>4, <2>5 DEF TypeOK, SegmentsTypeOK, Labels
<1>12. LensesTrue'
  <2>1. ASSUME NEW s \in Ids, lens'[s] # None
        PROVE  segs'[s] # None /\ segs'[s].group = lens'[s] /\ segs'[s].criteria # None
    <3>1. CASE s \in valid
      BY <1>3, <1>4, <1>5, <1>9, <1>10, <3>1, SegmentsAssumption
    <3>2. CASE s \notin valid
      BY <1>1, <1>6, <1>9, <1>10, <2>1, <3>2 DEF LensesTrue
    <3> QED
      BY <3>1, <3>2
  <2> QED
    BY <2>1 DEF LensesTrue
<1>13. TierExclusive'
  <2>1. ASSUME NEW s \in valid, NEW t \in Ids \ valid, lens'[t] # None, lens'[s] = lens'[t]
        PROVE  FALSE
    <3>1. lens[t] = segs[s].group /\ lens[t] # None
      BY <1>3, <1>4, <1>5, <1>6, <2>1
    <3>2. t \in ids
      BY <1>6, <2>1, <3>1
    <3>3. segs[t].group = segs[s].group
      BY <1>1, <3>1 DEF LensesTrue
    <3> QED
      BY <1>4, <2>1, <3>2, <3>3
  <2>2. ASSUME NEW s \in Ids, NEW t \in Ids, s # t, lens'[s] # None, lens'[s] = lens'[t]
        PROVE  ByCriteria(s)' \cap ByCriteria(t)' = {}
    <3>1. CASE s \in valid /\ t \in valid
      <4>1. segs[s].group = segs[t].group
        BY <1>4, <1>5, <2>2, <3>1
      <4>2. job[e].chosen[s] \cap job[e].chosen[t] = {}
        BY <1>4, <2>2, <3>1, <4>1
      <4>3. ByCriteria(s)' \subseteq job[e].chosen[s] /\ ByCriteria(t)' \subseteq job[e].chosen[t]
        BY <1>3, <3>1
      <4> QED
        BY <4>2, <4>3
    <3>2. CASE s \notin valid /\ t \notin valid
      <4>1. lens[s] # None /\ lens[s] = lens[t]
        BY <1>6, <2>2, <3>2
      <4>2. ByCriteria(s)' = ByCriteria(s) /\ ByCriteria(t)' = ByCriteria(t)
        BY <1>3, <3>2 DEF ByCriteria
      <4> QED
        BY <1>1, <2>2, <4>1, <4>2 DEF TierExclusive
    <3> QED
      BY <2>1, <2>2, <3>1, <3>2
  <2> QED
    BY <2>2 DEF TierExclusive
<1>14. MembershipExact'
  <2>1. ASSUME NEW s \in Ids \ outrun', segs'[s] # None, segs'[s].stamped,
               segs'[s].criteria \notin {None, Broken}
        PROVE  basis'[s] = segs'[s].criteria /\ ByCriteria(s)' = wanted'[s] \ ByHand(s)'
    <3>1. CASE s \in valid
      BY <1>3, <1>4, <1>5, <1>10, <2>1, <3>1, <1>9
    <3>2. CASE s \notin valid
      <4>1. s \notin outrun /\ segs'[s] = segs[s] /\ basis'[s] = basis[s] /\ wanted'[s] = wanted[s]
        BY <1>3, <1>5, <2>1, <3>2
      <4>2. ByCriteria(s)' = ByCriteria(s) /\ ByHand(s)' = ByHand(s)
        BY <1>3, <3>2 DEF ByCriteria, ByHand
      <4> QED
        BY <1>1, <2>1, <4>1, <4>2 DEF MembershipExact
    <3> QED
      BY <3>1, <3>2
  <2> QED
    BY <2>1 DEF MembershipExact
<1>15. BindingsKept'
  <2>1. ASSUME NEW s \in Targets
        PROVE  SegmentFound(s) => SegmentFound(s)'
    BY <1>9 DEF SegmentFound, Targets
  <2>2. /\ \A r \in RuleIds : rules[r] # None => rules[r].segment \in Targets
        /\ \A k \in Keys : boosts[k] # None => boosts[k].segment \in Targets
    BY <1>1 DEF TypeOK, Rule, BonusMultiplier
  <2> QED
    BY <1>1, <1>5, <2>1, <2>2 DEF BindingsKept, SegmentFound
<1>16. Jobs'
  <2>1. JobOK(e)'
    BY <1>7 DEF JobOK
  <2>2. ASSUME NEW q \in Sessions \ {e}, NEW s \in Ids, locked[s] = q
        PROVE  locked'[s] = q /\ segs'[s] = segs[s] /\ member'[s] = member[s]
    BY <1>3, <1>8, <2>2
  <2> QED
    BY <1>1, <1>5, <1>7, <2>1, <2>2, JobsStay
<1> QED
  BY <1>11, <1>12, <1>13, <1>14, <1>15, <1>16 DEF IInv, SegmentsExact

-----------------------------------------------------------------------------
(* Segments and members                                                    *)

\* A segment that is there is found by those that are bound to it.
LEMMA BindingsStay ==
    ASSUME TypeOK, BindingsKept, \A s \in Ids : segs[s] # None => segs'[s] # None,
           UNCHANGED bindings
    PROVE  BindingsKept'
<1>1. /\ \A r \in RuleIds : rules[r] # None => rules[r].segment \in Targets
      /\ \A k \in Keys : boosts[k] # None => boosts[k].segment \in Targets
  BY DEF TypeOK, Rule, BonusMultiplier
<1>2. \A s \in Targets : SegmentFound(s) => SegmentFound(s)'
  BY DEF SegmentFound, Targets
<1> QED
  BY <1>1, <1>2 DEF BindingsKept, SegmentFound, bindings

\* A session of an admin has ended: recomputes hold what they held.
LEMMA AdminEnds ==
    ASSUME TypeOK, Jobs, NEW a \in Admins, End(a), UNCHANGED locked
    PROVE  /\ pc' \in [Sessions -> Labels] /\ DOMAIN job' = Sessions
           /\ a \in Sessions /\ JobOK(a)'
           /\ \A q \in Sessions \ {a} : pc'[q] = pc[q] /\ job'[q] = job[q]
           /\ \A e \in Evaluators : pc'[e] = "evaluate" => \A s \in job'[e].ids : locked'[s] = e
<1>1. a \in Sessions
  BY DEF Sessions
<1>2. /\ pc' \in [Sessions -> Labels] /\ pc'[a] = "idle" /\ DOMAIN job' = Sessions
      /\ \A q \in Sessions \ {a} : pc'[q] = pc[q] /\ job'[q] = job[q]
  BY <1>1, EndFrame
<1>3. JobOK(a)'
  BY <1>2 DEF JobOK
<1>4. \A e \in Evaluators : pc'[e] = "evaluate" => \A s \in job'[e].ids : locked'[s] = e
  BY <1>2 DEF TypeOK, SegmentsTypeOK, Sessions
<1> QED
  BY <1>1, <1>2, <1>3, <1>4

\* The jobs after a write of an admin that touches no row a recompute holds.
LEMMA AdminJobs ==
    ASSUME TypeOK, Jobs, NEW a \in Admins, End(a), UNCHANGED locked,
           \A s \in Ids : locked[s] # None => segs'[s] = segs[s] /\ member'[s] = member[s],
           \A r \in RuleIds : rules[r] # None => rules'[r] # None
    PROVE  Jobs'
<1>1. /\ DOMAIN job' = Sessions /\ a \in Sessions /\ JobOK(a)'
      /\ \A q \in Sessions \ {a} : pc'[q] = pc[q] /\ job'[q] = job[q]
  BY AdminEnds
<1>2. \A q \in Sessions : q # None
  BY SegmentsAssumption DEF Sessions
<1> QED
  BY <1>1, <1>2, JobsStay

LEMMA GroupsKeep ==
    ASSUME IInv, NEW g \in Groups, CreateGroup(g) \/ DeleteGroup(g)
    PROVE  IInv'
<1>1. TypeOK /\ Jobs /\ LensesTrue /\ SegmentsExact
  BY DEF IInv
<1>2. /\ UNCHANGED <<bindings, segs, member, locked, pc, job, history>>
      /\ Edit /\ groups' \subseteq Groups
      /\ \A s \in Ids : segs[s] # None => segs[s].group \in groups'
  BY <1>1 DEF CreateGroup, DeleteGroup, TypeOK, SegmentsTypeOK
<1>3. TypeOK'
  <2>1. edits' \in 0..MaxEdits
    BY <1>1, <1>2, EditType
  <2> QED
    BY <1>1, <1>2, <2>1 DEF TypeOK, SegmentsTypeOK, bindings, history
<1>4. Jobs'
  BY <1>1, <1>2, JobsUntouched DEF bindings
<1>5. LensesTrue'
  BY <1>1, <1>2 DEF LensesTrue, history
<1>6. SegmentsExact'
  BY <1>1, <1>2, BindingsStay
     DEF SegmentsExact, TierExclusive, MembershipExact, ByCriteria, ByHand, history
<1> QED
  BY <1>3, <1>4, <1>5, <1>6 DEF IInv

LEMMA CreateSegmentKeeps ==
    ASSUME IInv, NEW s \in Ids, NEW row \in Row, CreateSegment(s, row)
    PROVE  IInv'
<1>1. TypeOK /\ Jobs /\ LensesTrue /\ TierExclusive /\ MembershipExact /\ BindingsKept
  BY DEF IInv, SegmentsExact
<1>2. /\ UNCHANGED <<bindings, groups, member, locked, pc, job, history>> /\ Edit
      /\ segs[s] = None /\ row.group \in groups /\ ~row.stamped
      /\ segs' = [segs EXCEPT ![s] = row] /\ row # None
  BY SegmentsAssumption DEF CreateSegment
<1>3. /\ segs'[s] = row /\ \A t \in Ids \ {s} : segs'[t] = segs[t]
      /\ segs' \in [Ids -> Row \cup {None}] /\ locked[s] = None /\ lens[s] = None
  BY <1>1, <1>2 DEF TypeOK, SegmentsTypeOK, LensesTrue
<1>4. TypeOK'
  <2>1. edits' \in 0..MaxEdits
    BY <1>1, <1>2, EditType
  <2>2. \A t \in Ids : segs'[t] # None => segs'[t].group \in groups'
    BY <1>1, <1>2, <1>3 DEF TypeOK, SegmentsTypeOK
  <2>3. \A t \in Ids : segs'[t] = None => locked'[t] = None /\ \A u \in Users : member'[t][u] = None
    BY <1>1, <1>2, <1>3 DEF TypeOK, SegmentsTypeOK
  <2> QED
    BY <1>1, <1>2, <1>3, <2>1, <2>2, <2>3 DEF TypeOK, SegmentsTypeOK, bindings, history
<1>5. Jobs'
  BY <1>1, <1>2, <1>3, JobsUntouched DEF bindings
<1>6. LensesTrue'
  BY <1>1, <1>2, <1>3 DEF LensesTrue, history
<1>7. TierExclusive' /\ MembershipExact'
  BY <1>1, <1>2, <1>3 DEF TierExclusive, MembershipExact, ByCriteria, ByHand, history
<1>8. BindingsKept'
  BY <1>1, <1>2, <1>3, BindingsStay
<1> QED
  BY <1>4, <1>5, <1>6, <1>7, <1>8 DEF IInv, SegmentsExact

\* What an edit makes of a row is a row, and it is still said to have been
\* evaluated only if its criteria are those of the evaluation, or the edit was
\* made on a read older than the stamp.
LEMMA WrittenIsRow ==
    ASSUME NEW read \in Row, NEW row \in Row, NEW now \in Row
    PROVE  /\ Written(read, row, now) \in Row
           /\ Written(read, row, now).group \in {row.group, now.group}
           /\ row.group = read.group => Written(read, row, now).group = now.group
           /\ Written(read, row, now).stamped =>
                 /\ now.stamped
                 /\ \/ Written(read, row, now).criteria = now.criteria
                    \/ row.criteria # read.criteria /\ ~read.stamped
<1> DEFINE stamp == now.stamped /\ (row.criteria # read.criteria => ~read.stamped)
           group == IF row.group = read.group THEN now.group ELSE row.group
           priority == IF row.priority = read.priority THEN now.priority ELSE row.priority
           criteria == IF row.criteria = read.criteria THEN now.criteria ELSE row.criteria
<1>1. stamp \in BOOLEAN
  OBVIOUS
<1>2. group \in Groups /\ priority \in Priorities /\ criteria \in Criteria \cup {None, Broken}
  BY DEF Row
<1>3. Written(read, row, now) = [group |-> group, priority |-> priority, criteria |-> criteria,
                                 stamped |-> stamp]
  BY DEF Written
<1>4. stamp => now.stamped /\ (row.criteria # read.criteria => ~read.stamped)
  OBVIOUS
<1> HIDE DEF stamp
<1>5. Written(read, row, now).stamped = stamp /\ Written(read, row, now).criteria = criteria
      /\ Written(read, row, now).group = group
  BY <1>3
<1>6. Written(read, row, now) \in Row
  BY <1>1, <1>2, <1>3 DEF Row
<1> QED
  BY <1>4, <1>5, <1>6

LEMMA UpdateKeeps ==
    ASSUME IInv, NEW a \in Admins, NEW row \in Row, Update(a, row)
    PROVE  IInv'
<1>1. PICK s : s = job[a].id
  OBVIOUS
<1>2. PICK read : read = job[a].row
  OBVIOUS
<1>3. PICK new : new = Written(read, row, segs[s])
  OBVIOUS
<1>4. TypeOK /\ Jobs /\ LensesTrue /\ TierExclusive /\ MembershipExact /\ BindingsKept
  BY DEF IInv, SegmentsExact
<1>5. /\ pc[a] = "update" /\ segs[s] # None /\ locked[s] = None
      /\ row.group # read.group => row.group \in groups
      /\ segs' = [segs EXCEPT ![s] = new]
      /\ lens' = IF new.group # segs[s].group \/ new.criteria = None
                 THEN [lens EXCEPT ![s] = None] ELSE lens
      /\ outrun' = IF row.criteria # read.criteria /\ segs[s].stamped /\ ~read.stamped
                   THEN outrun \cup {s} ELSE outrun
      /\ End(a)
      /\ UNCHANGED <<bindings, groups, member, locked, edits, basis, wanted>>
  BY <1>1, <1>2, <1>3 DEF Update
<1>6. s \in Ids /\ read \in Row
  BY <1>1, <1>2, <1>4, <1>5 DEF Jobs, JobOK, Sessions
<1>7. segs[s] \in Row /\ segs[s].group \in groups
  BY <1>4, <1>5, <1>6 DEF TypeOK, SegmentsTypeOK
<1>8. /\ new \in Row /\ new.group \in {row.group, segs[s].group}
      /\ row.group = read.group => new.group = segs[s].group
      /\ new.stamped => /\ segs[s].stamped
                        /\ \/ new.criteria = segs[s].criteria
                           \/ row.criteria # read.criteria /\ ~read.stamped
  BY <1>3, <1>6, <1>7, WrittenIsRow
<1>9. new # None /\ new.group \in groups
  BY <1>5, <1>7, <1>8, SegmentsAssumption
<1>10. /\ segs'[s] = new /\ \A t \in Ids \ {s} : segs'[t] = segs[t]
       /\ segs' \in [Ids -> Row \cup {None}]
       /\ lens' \in [Ids -> Groups \cup {None}] /\ outrun' \subseteq Ids /\ outrun \subseteq outrun'
       /\ \A t \in Ids \ {s} : lens'[t] = lens[t]
       /\ lens'[s] # None =>
             lens'[s] = lens[s] /\ new.group = segs[s].group /\ new.criteria # None
  BY <1>4, <1>5, <1>6, <1>8 DEF TypeOK, SegmentsTypeOK
<1>11. /\ pc' \in [Sessions -> Labels]
       /\ \A e \in Evaluators : pc'[e] = "evaluate" => \A t \in job'[e].ids : locked'[t] = e
  BY <1>4, <1>5, AdminEnds
<1>12. TypeOK'
  <2>1. \A t \in Ids : segs'[t] # None => segs'[t].group \in groups'
    BY <1>4, <1>5, <1>9, <1>10 DEF TypeOK, SegmentsTypeOK
  <2>2. \A t \in Ids : segs'[t] = None => locked'[t] = None /\ \A u \in Users : member'[t][u] = None
    BY <1>4, <1>5, <1>9, <1>10 DEF TypeOK, SegmentsTypeOK
  <2> QED
    BY <1>4, <1>5, <1>10, <1>11, <2>1, <2>2 DEF TypeOK, SegmentsTypeOK, bindings, Labels
<1>13. Jobs'
  BY <1>4, <1>5, <1>10, AdminJobs DEF bindings
<1>14. LensesTrue'
  BY <1>4, <1>9, <1>10 DEF LensesTrue
<1>15. \A t \in Ids : ByCriteria(t)' = ByCriteria(t) /\ ByHand(t)' = ByHand(t)
  BY <1>5 DEF ByCriteria, ByHand
<1>16. TierExclusive'
  <2>1. ASSUME NEW t \in Ids, NEW t2 \in Ids, t # t2, lens'[t] # None, lens'[t] = lens'[t2]
        PROVE  ByCriteria(t)' \cap ByCriteria(t2)' = {}
    <3>1. lens[t] = lens'[t] /\ lens[t2] = lens'[t2]
      BY <1>10, <2>1
    <3> QED
      BY <1>4, <1>15, <2>1, <3>1 DEF TierExclusive
  <2> QED
    BY <2>1 DEF TierExclusive
<1>17. MembershipExact'
  <2>1. ASSUME NEW t \in Ids \ outrun', segs'[t] # None, segs'[t].stamped,
               segs'[t].criteria \notin {None, Broken}
        PROVE  basis'[t] = segs'[t].criteria /\ ByCriteria(t)' = wanted'[t] \ ByHand(t)'
    <3>1. t \notin outrun /\ segs[t] # None /\ segs[t].stamped /\ segs[t].criteria = segs'[t].criteria
      <4>1. CASE t # s
        BY <1>10, <2>1, <4>1
      <4>2. CASE t = s
        <5>1. segs[s].stamped /\ ~(row.criteria # read.criteria /\ ~read.stamped)
          BY <1>5, <1>8, <1>10, <2>1, <4>2
        <5> QED
          BY <1>5, <1>8, <1>10, <2>1, <4>2, <5>1
      <4> QED
        BY <4>1, <4>2
    <3>2. basis[t] = segs[t].criteria /\ ByCriteria(t) = wanted[t] \ ByHand(t)
      BY <1>4, <2>1, <3>1 DEF MembershipExact
    <3> QED
      BY <1>5, <1>15, <3>1, <3>2
  <2> QED
    BY <2>1 DEF MembershipExact
<1>18. BindingsKept'
  BY <1>4, <1>5, <1>9, <1>10, BindingsStay
<1> QED
  BY <1>12, <1>13, <1>14, <1>16, <1>17, <1>18 DEF IInv, SegmentsExact

LEMMA InsertMemberKeeps ==
    ASSUME IInv, NEW a \in Admins, InsertMember(a)
    PROVE  IInv'
<1>1. PICK s : s = job[a].id
  OBVIOUS
<1>2. PICK u : u = job[a].user
  OBVIOUS
<1>3. TypeOK /\ Jobs /\ LensesTrue /\ TierExclusive /\ MembershipExact /\ BindingsKept
  BY DEF IInv, SegmentsExact
<1>4. /\ pc[a] = "add" /\ locked[s] = None /\ segs[s] # None /\ member[s][u] = None
      /\ member' = [member EXCEPT ![s][u] = "manual"]
      /\ End(a)
      /\ UNCHANGED <<bindings, groups, segs, locked, edits, history>>
  BY <1>1, <1>2 DEF InsertMember
<1>5. s \in Ids /\ u \in Users
  BY <1>1, <1>2, <1>3, <1>4 DEF Jobs, JobOK, Sessions
<1>6. /\ member' \in [Ids -> [Users -> Sources \cup {None}]]
      /\ \A t \in Ids \ {s} : member'[t] = member[t]
      /\ \A w \in Users \ {u} : member'[s][w] = member[s][w]
      /\ member'[s][u] = "manual"
  BY <1>3, <1>4, <1>5 DEF TypeOK, SegmentsTypeOK, Sources
<1>7. None # "manual" /\ None # "criteria"
  BY SegmentsAssumption DEF Sources
<1>8. /\ \A t \in Ids : ByCriteria(t)' = ByCriteria(t)
      /\ \A t \in Ids \ {s} : ByHand(t)' = ByHand(t)
      /\ ByHand(s)' = ByHand(s) \cup {u} /\ u \notin ByHand(s) /\ u \notin ByCriteria(s)
  BY <1>4, <1>5, <1>6, <1>7 DEF ByCriteria, ByHand
<1>9. /\ pc' \in [Sessions -> Labels]
      /\ \A e \in Evaluators : pc'[e] = "evaluate" => \A t \in job'[e].ids : locked'[t] = e
  BY <1>3, <1>4, AdminEnds
<1>10. TypeOK'
  <2>1. \A t \in Ids : segs'[t] = None => locked'[t] = None /\ \A w \in Users : member'[t][w] = None
    BY <1>3, <1>4, <1>6 DEF TypeOK, SegmentsTypeOK
  <2> QED
    BY <1>3, <1>4, <1>6, <1>9, <2>1 DEF TypeOK, SegmentsTypeOK, bindings, history, Labels
<1>11. Jobs'
  BY <1>3, <1>4, <1>6, AdminJobs DEF bindings
<1>12. LensesTrue'
  BY <1>3, <1>4 DEF LensesTrue, history
<1>13. TierExclusive'
  BY <1>3, <1>4, <1>8 DEF TierExclusive, history
<1>14. MembershipExact'
  <2>1. ASSUME NEW t \in Ids \ outrun, segs[t] # None, segs[t].stamped,
               segs[t].criteria \notin {None, Broken}
        PROVE  basis[t] = segs[t].criteria /\ ByCriteria(t)' = wanted[t] \ ByHand(t)'
    <3>1. basis[t] = segs[t].criteria /\ ByCriteria(t) = wanted[t] \ ByHand(t)
      BY <1>3, <2>1 DEF MembershipExact
    <3> QED
      BY <1>8, <3>1
  <2> QED
    BY <1>4, <2>1 DEF MembershipExact, history
<1>15. BindingsKept'
  BY <1>3, <1>4, BindingsStay
<1> QED
  BY <1>10, <1>11, <1>12, <1>13, <1>14, <1>15 DEF IInv, SegmentsExact

LEMMA DropSegmentKeeps ==
    ASSUME IInv, NEW a \in Admins, DropSegment(a)
    PROVE  IInv'
<1>1. PICK s : s = job[a].id
  OBVIOUS
<1>2. TypeOK /\ Jobs /\ LensesTrue /\ TierExclusive /\ MembershipExact /\ BindingsKept
  BY DEF IInv, SegmentsExact
<1>3. /\ pc[a] = "drop" /\ locked[s] = None /\ ~Targeted(s)
      /\ segs' = [segs EXCEPT ![s] = None]
      /\ member' = [member EXCEPT ![s] = [u \in Users |-> None]]
      /\ lens' = [lens EXCEPT ![s] = None]
      /\ outrun' = outrun \ {s}
      /\ End(a)
      /\ UNCHANGED <<bindings, groups, locked, edits, basis, wanted>>
  BY <1>1 DEF DropSegment
<1>4. s \in Ids
  BY <1>1, <1>2, <1>3 DEF Jobs, JobOK, Sessions
<1>5. /\ segs' \in [Ids -> Row \cup {None}] /\ segs'[s] = None
      /\ member' \in [Ids -> [Users -> Sources \cup {None}]]
      /\ member'[s] = [u \in Users |-> None]
      /\ lens' \in [Ids -> Groups \cup {None}] /\ lens'[s] = None
      /\ outrun' \subseteq Ids
      /\ \A t \in Ids \ {s} : /\ segs'[t] = segs[t] /\ member'[t] = member[t] /\ lens'[t] = lens[t]
                              /\ t \in outrun' <=> t \in outrun
  BY <1>2, <1>3, <1>4 DEF TypeOK, SegmentsTypeOK, Sources
<1>6. /\ pc' \in [Sessions -> Labels]
      /\ \A e \in Evaluators : pc'[e] = "evaluate" => \A t \in job'[e].ids : locked'[t] = e
  BY <1>2, <1>3, AdminEnds
<1>7. TypeOK'
  <2>1. \A t \in Ids : segs'[t] # None => segs'[t].group \in groups'
    BY <1>2, <1>3, <1>5 DEF TypeOK, SegmentsTypeOK
  <2>2. \A t \in Ids : segs'[t] = None => locked'[t] = None /\ \A u \in Users : member'[t][u] = None
    BY <1>2, <1>3, <1>5 DEF TypeOK, SegmentsTypeOK
  <2> QED
    BY <1>2, <1>3, <1>5, <1>6, <2>1, <2>2 DEF TypeOK, SegmentsTypeOK, bindings, Labels
<1>8. Jobs'
  BY <1>2, <1>3, <1>5, AdminJobs DEF bindings
<1>9. LensesTrue'
  BY <1>2, <1>5 DEF LensesTrue
<1>10. \A t \in Ids \ {s} : ByCriteria(t)' = ByCriteria(t) /\ ByHand(t)' = ByHand(t)
  BY <1>5 DEF ByCriteria, ByHand
<1>11. TierExclusive'
  <2>1. ASSUME NEW t \in Ids, NEW t2 \in Ids, t # t2, lens'[t] # None, lens'[t] = lens'[t2]
        PROVE  ByCriteria(t)' \cap ByCriteria(t2)' = {}
    <3>1. t # s /\ t2 # s
      BY <1>5, <2>1
    <3> QED
      BY <1>2, <1>5, <1>10, <2>1, <3>1 DEF TierExclusive
  <2> QED
    BY <2>1 DEF TierExclusive
<1>12. MembershipExact'
  <2>1. ASSUME NEW t \in Ids \ outrun', segs'[t] # None, segs'[t].stamped,
               segs'[t].criteria \notin {None, Broken}
        PROVE  basis'[t] = segs'[t].criteria /\ ByCriteria(t)' = wanted'[t] \ ByHand(t)'
    <3>1. t # s /\ t \notin outrun /\ segs'[t] = segs[t]
      BY <1>5, <2>1
    <3>2. basis[t] = segs[t].criteria /\ ByCriteria(t) = wanted[t] \ ByHand(t)
      BY <1>2, <2>1, <3>1 DEF MembershipExact
    <3> QED
      BY <1>3, <1>10, <3>1, <3>2
  <2> QED
    BY <2>1 DEF MembershipExact
<1>13. BindingsKept'
  <2>1. /\ \A r \in RuleIds : rules[r] # None => rules[r].segment \in Targets /\ rules[r].segment # s
        /\ \A k \in Keys : boosts[k] # None => boosts[k].segment \in Targets /\ boosts[k].segment # s
    BY <1>2, <1>3 DEF TypeOK, Rule, BonusMultiplier, Targeted, Targeting
  <2>2. \A t \in Targets \ {s} : SegmentFound(t) => SegmentFound(t)'
    BY <1>5 DEF SegmentFound, Targets
  <2> QED
    BY <1>2, <1>3, <2>1, <2>2 DEF BindingsKept, SegmentFound, bindings
<1> QED
  BY <1>7, <1>8, <1>9, <1>11, <1>12, <1>13 DEF IInv, SegmentsExact

LEMMA CorruptKeeps ==
    ASSUME IInv, NEW s \in Ids, Corrupt(s)
    PROVE  IInv'
<1>1. TypeOK /\ Jobs /\ LensesTrue /\ TierExclusive /\ MembershipExact /\ BindingsKept
  BY DEF IInv, SegmentsExact
<1>2. /\ segs[s] # None /\ locked[s] = None /\ Edit
      /\ segs' = [segs EXCEPT ![s].criteria = Broken]
      /\ UNCHANGED <<bindings, groups, member, locked, pc, job, history>>
  BY DEF Corrupt
<1>3. segs[s] \in Row /\ segs[s].group \in groups
  BY <1>1, <1>2 DEF TypeOK, SegmentsTypeOK
<1>4. PICK row : row = [segs[s] EXCEPT !.criteria = Broken]
  OBVIOUS
<1>5. row \in Row /\ row.group = segs[s].group /\ row.criteria = Broken /\ row # None /\ Broken # None
  <2>1. row \in Row /\ row.group = segs[s].group /\ row.criteria = Broken
    BY <1>3, <1>4 DEF Row
  <2> QED
    BY <2>1, SegmentsAssumption
<1>6. /\ segs'[s] = row /\ \A t \in Ids \ {s} : segs'[t] = segs[t]
      /\ segs' \in [Ids -> Row \cup {None}]
  BY <1>1, <1>2, <1>4, <1>5 DEF TypeOK, SegmentsTypeOK
<1>7. TypeOK'
  <2>1. edits' \in 0..MaxEdits
    BY <1>1, <1>2, EditType
  <2>2. \A t \in Ids : segs'[t] # None => segs'[t].group \in groups'
    BY <1>1, <1>2, <1>3, <1>5, <1>6 DEF TypeOK, SegmentsTypeOK
  <2>3. \A t \in Ids : segs'[t] = None => locked'[t] = None /\ \A u \in Users : member'[t][u] = None
    BY <1>1, <1>2, <1>5, <1>6 DEF TypeOK, SegmentsTypeOK
  <2> QED
    BY <1>1, <1>2, <1>6, <2>1, <2>2, <2>3 DEF TypeOK, SegmentsTypeOK, bindings, history
<1>8. Jobs'
  BY <1>1, <1>2, <1>6, JobsUntouched DEF bindings
<1>9. LensesTrue'
  BY <1>1, <1>2, <1>5, <1>6 DEF LensesTrue, history
<1>10. TierExclusive'
  BY <1>1, <1>2 DEF TierExclusive, ByCriteria, history
<1>11. MembershipExact'
  BY <1>1, <1>2, <1>5, <1>6 DEF MembershipExact, ByCriteria, ByHand, history
<1>12. BindingsKept'
  BY <1>1, <1>2, <1>5, <1>6, BindingsStay
<1> QED
  BY <1>7, <1>8, <1>9, <1>10, <1>11, <1>12 DEF IInv, SegmentsExact

-----------------------------------------------------------------------------
(* Rules and multipliers                                                   *)

\* A write of a rule or a multiplier that finds what it targets.
LEMMA BindingKeeps ==
    ASSUME IInv, UNCHANGED <<groups, segs, member, locked, history>>,
           rules' \in [RuleIds -> Rule \cup {None}],
           boosts' \in [Keys -> BonusMultiplier \cup {None}],
           pc' \in [Sessions -> Labels], edits' \in 0..MaxEdits, Jobs',
           \A e \in Evaluators : pc'[e] = "evaluate" => \A t \in job'[e].ids : locked'[t] = e,
           BindingsKept'
    PROVE  IInv'
<1>1. TypeOK /\ LensesTrue /\ TierExclusive /\ MembershipExact
  BY DEF IInv, SegmentsExact
<1>2. TypeOK'
  BY <1>1 DEF TypeOK, SegmentsTypeOK, history, Labels
<1>3. LensesTrue'
  BY <1>1 DEF LensesTrue, history
<1>4. TierExclusive' /\ MembershipExact'
  BY <1>1 DEF TierExclusive, MembershipExact, ByCriteria, ByHand, history
<1> QED
  BY <1>2, <1>3, <1>4 DEF IInv, SegmentsExact

\* The same for a request of an admin, which ends with it.
LEMMA RequestBinds ==
    ASSUME IInv, NEW a \in Admins, End(a),
           UNCHANGED <<groups, segs, member, locked, edits, history>>,
           rules' \in [RuleIds -> Rule \cup {None}],
           boosts' \in [Keys -> BonusMultiplier \cup {None}],
           \A r \in RuleIds : rules[r] # None => rules'[r] # None,
           BindingsKept'
    PROVE  IInv'
<1>1. TypeOK /\ Jobs
  BY DEF IInv
<1>2. /\ pc' \in [Sessions -> Labels]
      /\ \A e \in Evaluators : pc'[e] = "evaluate" => \A t \in job'[e].ids : locked'[t] = e
  BY <1>1, AdminEnds
<1>3. Jobs'
  BY <1>1, AdminJobs
<1>4. edits' \in 0..MaxEdits
  BY <1>1 DEF TypeOK, SegmentsTypeOK
<1> QED
  BY <1>2, <1>3, <1>4, BindingKeeps

LEMMA RulesKeep ==
    ASSUME IInv, NEW a \in Admins,
           \/ \E r \in RuleIds : InsertRule(a, r)
           \/ \E row \in Rule : UpdateRule(a, row)
    PROVE  IInv'
<1>1. TypeOK /\ Jobs /\ BindingsKept /\ a \in Sessions
  BY DEF IInv, SegmentsExact, Sessions
<1>2. ASSUME NEW r \in RuleIds, NEW rule \in Rule, rules' = [rules EXCEPT ![r] = rule],
             SegmentFound(rule.segment), End(a),
             UNCHANGED <<groups, segs, member, boosts, locked, edits, history>>
      PROVE  IInv'
  <2>1. /\ rules' \in [RuleIds -> Rule \cup {None}] /\ rules'[r] = rule /\ rule # None
        /\ \A q \in RuleIds \ {r} : rules'[q] = rules[q]
        /\ boosts' \in [Keys -> BonusMultiplier \cup {None}]
    BY <1>1, <1>2, CampaignsAssumption DEF TypeOK
  <2>2. BindingsKept'
    <3>1. \A k \in Keys : boosts[k] # None => boosts[k].rule \in RuleIds \cup {None}
      BY <1>1 DEF TypeOK, BonusMultiplier
    <3> QED
      BY <1>1, <1>2, <2>1, <3>1 DEF BindingsKept, SegmentFound
  <2> QED
    BY <1>2, <2>1, <2>2, RequestBinds
<1>3. ASSUME NEW r \in RuleIds, InsertRule(a, r)
      PROVE  IInv'
  <2>1. job[a].row \in Rule
    BY <1>1, <1>3 DEF Jobs, JobOK, InsertRule
  <2> QED
    BY <1>2, <1>3, <2>1 DEF InsertRule, SegmentHeld, SegmentFound
<1>4. ASSUME NEW row \in Rule, UpdateRule(a, row)
      PROVE  IInv'
  <2>1. PICK r : r = job[a].id
    OBVIOUS
  <2>2. PICK read : read = job[a].row
    OBVIOUS
  <2>3. PICK rule : rule = Patched(read, row, rules[r])
    OBVIOUS
  <2>4. r \in RuleIds /\ read \in Rule /\ rules[r] # None
    BY <1>1, <1>4, <2>1, <2>2 DEF Jobs, JobOK, UpdateRule
  <2>5. rules[r] \in Rule /\ SegmentFound(rules[r].segment)
    BY <1>1, <2>4 DEF TypeOK, BindingsKept
  <2>6. row.segment # read.segment => SegmentFound(row.segment)
    BY <1>4, <2>2 DEF UpdateRule, SegmentHeld, SegmentFound
  <2>7. rule \in Rule /\ rule.segment = IF row.segment = read.segment THEN rules[r].segment ELSE row.segment
    BY <2>3, <2>4, <2>5 DEF Patched, Rule
  <2>8. SegmentFound(rule.segment)
    BY <2>5, <2>6, <2>7
  <2> QED
    BY <1>2, <1>4, <2>1, <2>2, <2>3, <2>4, <2>7, <2>8 DEF UpdateRule
<1> QED
  BY <1>3, <1>4

LEMMA DeactivateRuleKeeps ==
    ASSUME IInv, NEW r \in RuleIds, DeactivateRule(r)
    PROVE  IInv'
<1>1. TypeOK /\ Jobs /\ BindingsKept
  BY DEF IInv, SegmentsExact
<1>2. /\ rules[r] # None /\ Edit
      /\ rules' = [rules EXCEPT ![r].status = "inactive"]
      /\ UNCHANGED <<groups, segs, member, boosts, locked, pc, job, history>>
  BY DEF DeactivateRule
<1>3. PICK rule : rule = [rules[r] EXCEPT !.status = "inactive"]
  OBVIOUS
<1>4. rule \in Rule /\ rule.segment = rules[r].segment /\ rule # None
  <2>1. rule \in Rule /\ rule.segment = rules[r].segment
    BY <1>1, <1>2, <1>3 DEF TypeOK, Rule
  <2> QED
    BY <2>1, CampaignsAssumption
<1>5. /\ rules' \in [RuleIds -> Rule \cup {None}] /\ rules'[r] = rule
      /\ \A q \in RuleIds \ {r} : rules'[q] = rules[q]
  BY <1>1, <1>2, <1>3, <1>4 DEF TypeOK
<1>6. Jobs'
  BY <1>1, <1>2, <1>4, <1>5, JobsUntouched
<1>7. BindingsKept'
  <2>1. \A k \in Keys : boosts[k] # None => boosts[k].rule \in RuleIds \cup {None}
    BY <1>1 DEF TypeOK, BonusMultiplier
  <2> QED
    BY <1>1, <1>2, <1>4, <1>5, <2>1 DEF BindingsKept, SegmentFound
<1>8. /\ edits' \in 0..MaxEdits /\ pc' \in [Sessions -> Labels]
      /\ boosts' \in [Keys -> BonusMultiplier \cup {None}]
      /\ \A e \in Evaluators : pc'[e] = "evaluate" => \A t \in job'[e].ids : locked'[t] = e
  BY <1>1, <1>2, EditType DEF TypeOK, SegmentsTypeOK, Labels
<1> QED
  BY <1>2, <1>5, <1>6, <1>7, <1>8, BindingKeeps

LEMMA InsertMultiplierKeeps ==
    ASSUME IInv, NEW a \in Admins, InsertMultiplier(a)
    PROVE  IInv'
<1>1. PICK row : row = job[a].row
  OBVIOUS
<1>2. PICK k : k = job[a].key
  OBVIOUS
<1>3. TypeOK /\ Jobs /\ BindingsKept /\ a \in Sessions
  BY DEF IInv, SegmentsExact, Sessions
<1>4. /\ pc[a] = "boost"
      /\ row.rule # None => rules[row.rule] # None
      /\ SegmentFound(row.segment)
      /\ boosts' = [boosts EXCEPT ![k] = row]
      /\ End(a)
      /\ UNCHANGED <<groups, segs, member, rules, locked, edits, history>>
  BY <1>1, <1>2 DEF InsertMultiplier, SegmentHeld, SegmentFound
<1>5. k \in Keys /\ row \in BonusMultiplier
  BY <1>1, <1>2, <1>3, <1>4 DEF Jobs, JobOK
<1>6. /\ boosts' \in [Keys -> BonusMultiplier \cup {None}] /\ boosts'[k] = row
      /\ \A q \in Keys \ {k} : boosts'[q] = boosts[q]
      /\ rules' \in [RuleIds -> Rule \cup {None}]
  BY <1>3, <1>4, <1>5 DEF TypeOK
<1>7. BindingsKept'
  BY <1>3, <1>4, <1>6 DEF BindingsKept, SegmentFound
<1> QED
  BY <1>4, <1>6, <1>7, RequestBinds

LEMMA DeleteMultiplierKeeps ==
    ASSUME IInv, NEW k \in Keys, DeleteMultiplier(k)
    PROVE  IInv'
<1>1. TypeOK /\ Jobs /\ BindingsKept
  BY DEF IInv, SegmentsExact
<1>2. /\ Edit /\ boosts' = [boosts EXCEPT ![k] = None]
      /\ UNCHANGED <<groups, segs, member, rules, locked, pc, job, history>>
  BY DEF DeleteMultiplier
<1>3. /\ boosts' \in [Keys -> BonusMultiplier \cup {None}] /\ boosts'[k] = None
      /\ \A q \in Keys \ {k} : boosts'[q] = boosts[q]
      /\ rules' \in [RuleIds -> Rule \cup {None}]
  BY <1>1, <1>2 DEF TypeOK
<1>4. BindingsKept'
  BY <1>1, <1>2, <1>3 DEF BindingsKept, SegmentFound
<1>5. Jobs'
  BY <1>1, <1>2, JobsUntouched
<1>6. /\ edits' \in 0..MaxEdits /\ pc' \in [Sessions -> Labels]
      /\ \A e \in Evaluators : pc'[e] = "evaluate" => \A t \in job'[e].ids : locked'[t] = e
  BY <1>1, <1>2, EditType DEF TypeOK, SegmentsTypeOK, Labels
<1> QED
  BY <1>2, <1>3, <1>4, <1>5, <1>6, BindingKeeps

-----------------------------------------------------------------------------
(* The specification                                                       *)

LEMMA InitKeeps == Init => IInv
<1> SUFFICES ASSUME Init PROVE IInv
  OBVIOUS
<1>1. /\ rules \in Launched /\ groups = Groups
      /\ segs = [s \in Ids |-> IF s \in DOMAIN Seeded THEN Seeded[s] ELSE None]
      /\ member = [s \in Ids |-> [u \in Users |-> None]]
      /\ boosts = [k \in Keys |-> None]
      /\ locked = [s \in Ids |-> None]
      /\ pc = [p \in Sessions |-> "idle"] /\ job = [p \in Sessions |-> None] /\ edits = 0
      /\ lens = [s \in Ids |-> None] /\ outrun = {}
  BY DEF Init, SegmentsInit
<1>2. /\ \A s \in DOMAIN Seeded : s \in Ids /\ Seeded[s] \in Row /\ ~Seeded[s].stamped
      /\ None \notin Row
      /\ \A s \in DOMAIN Seeded : Seeded[s].group \in Groups
      /\ rules \in [RuleIds -> Rule \cup {None}]
      /\ \A r \in RuleIds : rules[r] # None => rules[r].segment \in DOMAIN Seeded \cup {None}
  BY <1>1, SegmentsAssumption, CampaignsAssumption DEF Row
<1>3. TypeOK
  <2>1. segs \in [Ids -> Row \cup {None}] /\ \A s \in Ids : segs[s] # None => segs[s].group \in groups
    BY <1>1, <1>2
  <2>2. edits \in 0..MaxEdits
    BY <1>1, SegmentsAssumption
  <2> QED
    BY <1>1, <1>2, <2>1, <2>2 DEF TypeOK, SegmentsTypeOK, Sources, Sessions
<1>4. Jobs
  BY <1>1 DEF Jobs, JobOK
<1>5. LensesTrue /\ TierExclusive
  BY <1>1 DEF LensesTrue, TierExclusive
<1>6. MembershipExact
  BY <1>1, <1>2 DEF MembershipExact
<1>7. BindingsKept
  BY <1>1, <1>2 DEF BindingsKept, SegmentFound
<1> QED
  BY <1>3, <1>4, <1>5, <1>6, <1>7 DEF IInv, SegmentsExact

LEMMA StepKeeps == IInv /\ [Next]_vars => IInv'
<1> SUFFICES ASSUME IInv, [Next]_vars PROVE IInv'
  OBVIOUS
<1>1. CASE UNCHANGED vars
  <2>1. UNCHANGED <<rows, history, locked, pc, job, edits>>
    BY <1>1 DEF vars
  <2>2. TypeOK' /\ Jobs'
    BY <2>1, JobsUntouched DEF IInv, TypeOK, SegmentsTypeOK, rows, bindings, history
  <2>3. LensesTrue' /\ SegmentsExact'
    BY <2>1, RowsStay DEF IInv
  <2> QED
    BY <2>2, <2>3 DEF IInv
<1>2. CASE SegmentsNext
  <2>1. ASSUME NEW e \in Evaluators,
               \/ Begin(e) \/ LockSegments(e) \/ Commit(e) \/ Abort(e)
               \/ \E v \in [Metrics -> [Users -> 0..MaxValue]] : Evaluate(e, v)
        PROVE  IInv'
    BY <2>1, BeginKeeps, LockKeeps, CommitKeeps, AbortKeeps, EvaluateKeeps
  <2>2. ASSUME NEW a \in Admins,
               \/ InsertMember(a) \/ DropSegment(a) \/ Fail(a)
               \/ \E row \in Row : Update(a, row)
               \/ \E s \in Ids : \/ ReadForUpdate(a, s) \/ DropMembers(a, s)
                                 \/ \E u \in Users : ReadMember(a, s, u)
        PROVE  IInv'
    BY <2>2, InsertMemberKeeps, DropSegmentKeeps, FailKeeps, UpdateKeeps, ReadsKeep
  <2> QED
    BY <1>2, <2>1, <2>2, GroupsKeep, CorruptKeeps, CreateSegmentKeeps DEF SegmentsNext
<1>3. CASE CampaignsNext
  <2>1. ASSUME NEW a \in Admins,
               \/ ReceiveRule(a) \/ InsertMultiplier(a)
               \/ \E row \in Rule : UpdateRule(a, row)
               \/ \E r \in RuleIds : InsertRule(a, r) \/ ReadRule(a, r)
               \/ \E k \in Keys : ReceiveMultiplier(a, k)
        PROVE  IInv'
    BY <2>1, ReadsKeep, InsertMultiplierKeeps, RulesKeep
  <2> QED
    BY <1>3, <2>1, DeactivateRuleKeeps, DeleteMultiplierKeeps DEF CampaignsNext
<1> QED
  BY <1>1, <1>2, <1>3 DEF Next

\* Segments, memberships, rules and multipliers keep their types and their
\* foreign keys, and a recompute past its lock (segments/evaluator.py) holds
\* the rows it evaluates.
THEOREM SegmentsTyped == Spec => []TypeOK
<1>1. IInv => TypeOK
  BY DEF IInv
<1> QED
  BY <1>1, InitKeeps, StepKeeps, PTL DEF Spec

\* However recomputes and admins interleave, fail or are cut: one tier of a
\* group per user, exactly the users the criteria of an evaluated segment
\* chose, and every segment that a rule or a multiplier targets.
THEOREM SegmentsTellTheTruth == Spec => []SegmentsExact
<1>1. IInv => SegmentsExact
  BY DEF IInv
<1> QED
  BY <1>1, InitKeeps, StepKeeps, PTL DEF Spec

=============================================================================
