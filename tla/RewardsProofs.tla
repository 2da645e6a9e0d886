---------------------------- MODULE RewardsProofs ----------------------------
(***************************************************************************)
(* Proofs about Rewards, for any number of workers, events, rules and      *)
(* faults: types, the history rows, one payment per first-time rule, and   *)
(* the refinement of RewardOnce.                                           *)
(***************************************************************************)
EXTENDS Rewards, Sums, TLAPS, FiniteSetTheorems, WellFoundedInduction

-----------------------------------------------------------------------------
(* The evaluator                                                           *)

\* A progress row with other values of its columns is a progress row.
LEMMA ProgressColumns ==
    ASSUME NEW p \in UserRuleProgress
    PROVE  /\ p.count \in Nat /\ p.triggers \in Nat /\ p.streak \in Nat
           /\ p.windowStart \in Int \cup {None} /\ p.lastAt \in Int \cup {None}
           /\ \A n \in Nat : /\ [p EXCEPT !.count = n] \in UserRuleProgress
                            /\ [p EXCEPT !.triggers = n] \in UserRuleProgress
                            /\ [p EXCEPT !.streak = n] \in UserRuleProgress
           /\ \A at \in Int \cup {None} : /\ [p EXCEPT !.lastAt = at] \in UserRuleProgress
                                         /\ [p EXCEPT !.windowStart = at] \in UserRuleProgress
           /\ [p EXCEPT !.status = "COMPLETED"] \in UserRuleProgress
BY DEF UserRuleProgress

\* A progress row and an event give a progress row, whether or not the rule
\* fires.
LEMMA EvaluateTyped ==
    ASSUME NEW rule \in RuleRow, Creatable(rule), NEW p \in UserRuleProgress,
           NEW ev \in [type: STRING, amount: Nat, at: Nat], NEW txns
    PROVE  /\ Evaluate(rule, p, ev, txns).row \in UserRuleProgress
           /\ Evaluate(rule, p, ev, txns).fires \in BOOLEAN
<1> DEFINE Good(made) == made.row \in UserRuleProgress /\ made.fires \in BOOLEAN
<1>0. ev.at \in Int /\ \A n \in Nat : n + 1 \in Nat
  OBVIOUS
<1>1. \A q \in UserRuleProgress : Good(Quiet(q)) /\ Good(Firing(q)) /\ Good(Firing(Stopped(rule, q)))
  BY ProgressColumns DEF Quiet, Firing, Stopped
<1>2. Good(OneShot(p, ev))
  <2>1. [p EXCEPT !.triggers = 1, !.lastAt = ev.at, !.status = "COMPLETED"] \in UserRuleProgress
    BY <1>0 DEF UserRuleProgress
  <2> HIDE DEF Good
  <2> QED BY <1>1, <2>1 DEF OneShot
<1>3. rule.kind = "campaign" => Good(Campaign(rule, p, ev))
  BY <1>1, <1>2 DEF Campaign
<1>4. Good(ValueBased(rule, p, ev))
  <2> DEFINE fired == [p EXCEPT !.triggers = @ + 1, !.lastAt = ev.at]
  <2>1. p.triggers + 1 \in Nat
    BY <1>0, ProgressColumns
  <2>2. fired \in UserRuleProgress
    BY <1>0, <2>1 DEF UserRuleProgress
  <2> HIDE DEF Good, fired
  <2>3. Good(Firing(Stopped(rule, fired)))
    BY <1>1, <2>2
  <2> QED BY <2>3 DEF ValueBased, fired
<1>5. ASSUME NEW q \in UserRuleProgress PROVE Good(CountMilestone(rule, q, ev))
  <2> DEFINE counted == [q EXCEPT !.count = @ + 1, !.lastAt = ev.at,
                                  !.windowStart = IF @ = None THEN ev.at ELSE @]
             fired == [counted EXCEPT !.triggers = @ + 1,
                                      !.count = IF rule.resets THEN 0 ELSE @,
                                      !.windowStart = IF rule.resets THEN None ELSE @]
  <2>1. /\ q.count + 1 \in Nat
        /\ (IF q.windowStart = None THEN ev.at ELSE q.windowStart) \in Int \cup {None}
    BY <1>0, ProgressColumns
  <2>2. counted \in UserRuleProgress
    BY <1>0, <2>1 DEF UserRuleProgress
  <2>3. fired \in UserRuleProgress
    <3> HIDE DEF counted
    <3>1. /\ counted.triggers + 1 \in Nat
          /\ (IF rule.resets THEN 0 ELSE counted.count) \in Nat
          /\ (IF rule.resets THEN None ELSE counted.windowStart) \in Int \cup {None}
      BY <1>0, <2>2, ProgressColumns
    <3> QED BY <2>2, <3>1 DEF UserRuleProgress
  <2> HIDE DEF counted, fired, Good
  <2>4. Good(Quiet(counted)) /\ Good(Firing(Stopped(rule, fired)))
    BY <1>1, <2>2, <2>3
  <2> QED
    BY <2>4 DEF CountMilestone, counted, fired
<1>6. Good(Milestone(rule, p, ev))
  <2>1. [p EXCEPT !.count = 0, !.windowStart = None] \in UserRuleProgress
    BY DEF UserRuleProgress
  <2> HIDE DEF Good
  <2> QED BY <1>5, <2>1 DEF Milestone
<1>7. ASSUME NEW gap PROVE Good(AdvanceStreak(rule, p, ev, gap))
  <2> DEFINE next == [p EXCEPT !.lastAt = ev.at,
                               !.streak = IF p.lastAt # None /\ gap = 1 THEN @ + 1 ELSE 1]
             fired == [next EXCEPT !.triggers = @ + 1,
                                   !.streak = IF rule.resets THEN 0 ELSE @]
  <2>1. (IF p.lastAt # None /\ gap = 1 THEN p.streak + 1 ELSE 1) \in Nat
    BY <1>0, ProgressColumns
  <2>2. next \in UserRuleProgress
    BY <1>0, <2>1 DEF UserRuleProgress
  <2>3. fired \in UserRuleProgress
    <3> HIDE DEF next
    <3>1. next.triggers + 1 \in Nat /\ (IF rule.resets THEN 0 ELSE next.streak) \in Nat
      BY <1>0, <2>2, ProgressColumns
    <3> QED BY <2>2, <3>1 DEF UserRuleProgress
  <2> HIDE DEF next, fired, Good
  <2>4. Good(Quiet(next)) /\ Good(Firing(Stopped(rule, fired)))
    BY <1>1, <2>2, <2>3
  <2> QED
    BY <2>4 DEF AdvanceStreak, next, fired
<1>8. Good(Streak(rule, p, ev))
  <2>1. [p EXCEPT !.lastAt = ev.at] \in UserRuleProgress
    BY <1>0, ProgressColumns
  <2> HIDE DEF Good
  <2> QED BY <1>1, <1>7, <2>1 DEF Streak
<1>9. Good(Composite(rule, p, ev, txns))
  <2> DEFINE fired == [p EXCEPT !.triggers = @ + 1, !.lastAt = ev.at,
                                !.windowStart = IF rule.resets THEN ev.at ELSE @]
  <2>1. /\ p.triggers + 1 \in Nat
        /\ (IF rule.resets THEN ev.at ELSE p.windowStart) \in Int \cup {None}
    BY <1>0, ProgressColumns
  <2>2. fired \in UserRuleProgress
    BY <1>0, <2>1 DEF UserRuleProgress
  <2> HIDE DEF fired, Good
  <2>3. Good(Quiet(p)) /\ Good(Firing(Stopped(rule, fired)))
    BY <1>1, <2>2
  <2> QED
    BY <2>3 DEF Composite, fired
<1>10. Good(Quiet(p))
  BY <1>1
<1>11. rule.kind \in {"first_time", "milestone", "value_based", "campaign", "streak", "composite"}
  BY DEF RuleRow
<1> HIDE DEF Good
<1>12. Good(Evaluate(rule, p, ev, txns))
  BY <1>2, <1>3, <1>4, <1>6, <1>8, <1>9, <1>10, <1>11 DEF Evaluate, Dispatch, FirstTime
<1> QED
  BY <1>12 DEF Good

-----------------------------------------------------------------------------
(* The invariant                                                           *)

Labels == {"idle", "claim", "drain", "evaluate", "insert", "issue", "post", "record", "failed"}

\* The labels of a worker between taking an event and its last commit.
Working == {"evaluate", "insert", "issue", "post", "record"}

JobRow ==
    [claimed: SUBSET Internal, event: Events \cup {None},
     left: SUBSET Rules, staged: [Rules -> {None} \cup UserRuleProgress],
     base: [Rules -> {None} \cup UserRuleProgress],
     firings: SUBSET Rules, rule: Rules \cup {None}, amount: Amounts \cup {None}]

TablesTyped ==
    /\ outbox \in [Internal -> {None} \cup RewardOutbox]
    /\ ingested \in [External -> {None} \cup EventIngestionLog]
    /\ progress \in [Rules -> {None} \cup UserRuleProgress]
    /\ posted \in [Firings -> {None} \cup Amounts]
    /\ rewardEvents \in [Firings -> {None} \cup Amounts]
    /\ funds \in Nat /\ stale \in [Rules -> Nat]

ConfigTyped == businessType \in {"both", "rewards"} /\ sourceActive \in BOOLEAN

LocksTyped ==
    /\ rowLock \in [Internal -> {None} \cup Handlers \cup Sweepers]
    /\ logKey \in [External -> {None} \cup Consumers]
    /\ progressKey \in [Rules -> {None} \cup Workers]
    /\ budgetLock \in [Budgets -> {None} \cup Workers]

JobsTyped == pc \in [Workers -> Labels] /\ job \in [Workers -> JobRow]

LEMMA TypeParts ==
    TypeOK <=> TablesTyped /\ ConfigTyped /\ LocksTyped /\ JobsTyped /\ faults \in 0..MaxFaults
BY DEF TypeOK, TablesTyped, ConfigTyped, LocksTyped, JobsTyped, Labels, JobRow

\* The event of consumer w is in the log, or w is about to put it there.
InLog(w, x) == ingested[x] = "PROCESSED" \/ (ingested[x] = None /\ logKey[x] = w)

\* What the program of a worker says of its locals and of the tables.
Knows(w) ==
    /\ \A e \in job[w].claimed : outbox[e] # None
    /\ pc[w] = "claim" => w \in Handlers
    /\ w \in Consumers => pc[w] \in {"idle"} \cup Working
    /\ pc[w] \in Working \cup {"failed"} =>
          IF w \in Consumers THEN job[w].event \in External /\ InLog(w, job[w].event)
          ELSE job[w].event \in Internal /\ outbox[job[w].event] # None
    /\ pc[w] \in {"insert", "post", "record"} => job[w].rule \in Rules
    /\ pc[w] \in {"post", "record"} => job[w].amount \in RewardAmounts(job[w].rule)
    /\ pc[w] = "record" => posted[FiringOf(w)] # None

\* An event is inserted into the log once.
LogHeld == \A x \in External : logKey[x] # None => ingested[x] = None

\* What was paid is a reward of its rule, for an event that was committed.
Happened ==
    \A r \in Rules, e \in Events : posted[<<r, e>>] # None =>
        /\ posted[<<r, e>>] \in RewardAmounts(r)
        /\ IF e \in Internal THEN outbox[e] # None ELSE ingested[e] = "PROCESSED"

Inv == TypeOK /\ (\A w \in Workers : Knows(w)) /\ LogHeld /\ Happened

-----------------------------------------------------------------------------
(* Types                                                                   *)

\* None is no amount, and no row.
LEMMA NotNone ==
    /\ None \notin Amounts /\ Amounts \subseteq Nat
    /\ \A r \in Rules : RewardAmounts(r) \subseteq Amounts
    /\ None \notin RewardOutbox /\ None \notin UserRuleProgress /\ None \notin EventIngestionLog
    /\ None \notin Rules /\ None \notin Events /\ None \notin Workers
<1>1. ASSUME NEW r \in Rules PROVE RewardAmounts(r) \subseteq Nat
  <2>1. Rule[r].reward \in Nat /\ Boosts[r] \subseteq Nat
    BY RewardsAssumption DEF RuleRow
  <2>2. \A m \in Nat : Rule[r].reward * m \in Nat
    BY <2>1
  <2> QED
    BY <2>1, <2>2 DEF RewardAmounts
<1>2. Amounts \subseteq Nat
  BY <1>1 DEF Amounts
<1>3. None \notin Nat
  BY RewardsAssumption
<1> QED
  BY <1>2, <1>3, RewardsAssumption DEF Amounts

\* A worker's locals with other values are a worker's locals.
LEMMA JobColumns ==
    ASSUME NEW j \in JobRow
    PROVE  /\ j.claimed \subseteq Internal /\ j.left \subseteq Rules /\ j.firings \subseteq Rules
           /\ j.staged \in [Rules -> {None} \cup UserRuleProgress]
           /\ j.base \in [Rules -> {None} \cup UserRuleProgress]
           /\ \A S \in SUBSET Internal : [j EXCEPT !.claimed = S] \in JobRow
           /\ \A e \in Events \cup {None} : [j EXCEPT !.event = e] \in JobRow
           /\ \A S \in SUBSET Rules : [j EXCEPT !.left = S] \in JobRow
           /\ \A S \in SUBSET Rules : [j EXCEPT !.firings = S] \in JobRow
           /\ \A f \in [Rules -> {None} \cup UserRuleProgress] :
                  [j EXCEPT !.staged = f] \in JobRow /\ [j EXCEPT !.base = f] \in JobRow
           /\ \A r \in Rules \cup {None} : [j EXCEPT !.rule = r] \in JobRow
           /\ \A n \in Amounts \cup {None} : [j EXCEPT !.amount = n] \in JobRow
BY DEF JobRow

LEMMA IdleTyped == NoRows \in [Rules -> {None} \cup UserRuleProgress] /\ IdleJob \in JobRow
BY DEF NoRows, IdleJob, JobRow

\* A worker moves with typed locals.
LEMMA Moved ==
    ASSUME JobsTyped, NEW w \in Workers, NEW label \in Labels, NEW j \in JobRow,
           pc' = [pc EXCEPT ![w] = label], job' = [job EXCEPT ![w] = j]
    PROVE  JobsTyped' /\ pc'[w] = label /\ job'[w] = j
BY DEF JobsTyped

LEMMA UnlockTyped == ASSUME LocksTyped, NEW w, Unlock(w) PROVE LocksTyped'
BY DEF LocksTyped, Unlock, Freed

LEMMA CommitTyped ==
    ASSUME TablesTyped, LocksTyped, JobsTyped, NEW w \in Workers, CommitStaged(w)
    PROVE  /\ LocksTyped'
           /\ progress' \in [Rules -> {None} \cup UserRuleProgress]
           /\ ingested' \in [External -> {None} \cup EventIngestionLog]
           /\ stale' \in [Rules -> Nat]
<1>1. job[w].staged \in [Rules -> {None} \cup UserRuleProgress]
  BY JobColumns DEF JobsTyped
<1>2. stale' \in [Rules -> Nat]
  BY DEF CommitStaged, TablesTyped
<1> QED
  BY <1>1, <1>2, UnlockTyped DEF CommitStaged, TablesTyped, EventIngestionLog

LEMMA EndTyped ==
    ASSUME LocksTyped, JobsTyped, NEW w \in Workers, End(w)
    PROVE  LocksTyped' /\ JobsTyped' /\ pc'[w] = "idle" /\ job'[w] = IdleJob
BY UnlockTyped, Moved, IdleTyped DEF End, Goto, Labels

FailedJob(w) == [IdleJob EXCEPT !.claimed = job[w].claimed, !.event = job[w].event]

LEMMA FailTyped ==
    ASSUME LocksTyped, JobsTyped, NEW w \in Workers, Fail(w)
    PROVE  /\ LocksTyped' /\ JobsTyped' /\ UNCHANGED rows
           /\ IF w \in Consumers THEN pc'[w] = "idle" /\ job'[w] = IdleJob
              ELSE pc'[w] = "failed" /\ job'[w] = FailedJob(w)
<1>1. FailedJob(w) \in JobRow
  <2>1. job[w].claimed \subseteq Internal /\ job[w].event \in Events \cup {None}
    BY DEF JobsTyped, JobRow
  <2> QED
    BY <2>1, IdleTyped DEF FailedJob, JobRow
<1> DEFINE label == IF w \in Consumers THEN "idle" ELSE "failed"
           j == IF w \in Consumers THEN IdleJob ELSE FailedJob(w)
<1>2. label \in Labels /\ j \in JobRow
  BY <1>1, IdleTyped DEF Labels
<1>3. /\ pc' = [pc EXCEPT ![w] = label] /\ job' = [job EXCEPT ![w] = j]
      /\ Unlock(w) /\ UNCHANGED rows
  BY DEF Fail, Goto, FailedJob
<1>4. JobsTyped' /\ pc'[w] = label /\ job'[w] = j
  <2> HIDE DEF label, j
  <2> QED BY <1>2, <1>3, Moved
<1> QED
  BY <1>3, <1>4, UnlockTyped

\* What w makes of rule r and the row, and its locals afterwards.
Made(w, r, row) == Evaluate(Rule[r], row, Event[job[w].event], Transactions)

Decided(w, r, row) ==
    [job[w] EXCEPT
        !.left = job[w].left \ {r},
        !.staged = [job[w].staged EXCEPT
                        ![r] = IF Made(w, r, row).row = progress[r] THEN None
                               ELSE Made(w, r, row).row],
        !.base[r] = progress[r],
        !.firings = IF Made(w, r, row).fires THEN job[w].firings \cup {r} ELSE job[w].firings]

LEMMA DecideTyped ==
    ASSUME TablesTyped, JobsTyped, NEW w \in Workers, NEW r \in Rules,
           NEW row \in UserRuleProgress, job[w].event \in Events, Decide(w, r, row)
    PROVE  /\ JobsTyped' /\ job'[w] = Decided(w, r, row)
           /\ pc'[w] = IF job[w].left \ {r} = {} THEN "issue" ELSE "evaluate"
<1> DEFINE made == Made(w, r, row)
           j == job[w]
           staged == [j.staged EXCEPT ![r] = IF made.row = progress[r] THEN None ELSE made.row]
           base == [j.base EXCEPT ![r] = progress[r]]
           firings == IF made.fires THEN j.firings \cup {r} ELSE j.firings
           label == IF j.left \ {r} = {} THEN "issue" ELSE "evaluate"
<1>1. j \in JobRow
  BY DEF JobsTyped
<1>2. made.row \in UserRuleProgress /\ made.fires \in BOOLEAN
  <2>1. /\ Rule[r] \in RuleRow /\ Creatable(Rule[r])
        /\ Event[job[w].event] \in [type: STRING, amount: Nat, at: Nat]
    BY RewardsAssumption
  <2> QED BY <2>1, EvaluateTyped DEF Made
<1>3. /\ job' = [job EXCEPT ![w] = Decided(w, r, row)]
      /\ pc' = [pc EXCEPT ![w] = label]
  BY DEF Decide, Goto, Decided, Made
<1>4. Decided(w, r, row) = [j EXCEPT !.left = j.left \ {r}, !.staged = staged, !.base = base,
                                      !.firings = firings]
  BY DEF Decided
<1> HIDE DEF made
<1>5. /\ staged \in [Rules -> {None} \cup UserRuleProgress]
      /\ base \in [Rules -> {None} \cup UserRuleProgress]
  BY <1>1, <1>2, JobColumns DEF TablesTyped
<1>6. firings \in SUBSET Rules /\ j.left \ {r} \in SUBSET Rules
  BY <1>1, JobColumns
<1>7. Decided(w, r, row) \in JobRow
  <2> HIDE DEF staged, base, firings
  <2> QED BY <1>1, <1>4, <1>5, <1>6 DEF JobRow
<1>8. label \in Labels
  BY DEF Labels
<1> HIDE DEF label
<1>9. JobsTyped' /\ pc'[w] = label /\ job'[w] = Decided(w, r, row)
  BY <1>3, <1>7, <1>8, Moved
<1> QED
  BY <1>9 DEF label

LEMMA StepTyped ==
    ASSUME Inv, NEW w \in Workers, Step(w)
    PROVE  /\ TablesTyped' /\ ConfigTyped' /\ LocksTyped' /\ JobsTyped'
           /\ faults' \in 0..MaxFaults
<1>1. /\ TablesTyped /\ ConfigTyped /\ LocksTyped /\ JobsTyped /\ faults \in 0..MaxFaults
      /\ Knows(w) /\ job[w] \in JobRow /\ Happened
  BY TypeParts DEF Inv, JobsTyped
<1>2. /\ DOMAIN job = Workers /\ DOMAIN pc = Workers /\ job[w].claimed \subseteq Internal
      /\ job[w].event \in Events \cup {None} /\ job[w].rule \in Rules \cup {None}
      /\ job[w].amount \in Amounts \cup {None} /\ job[w].firings \subseteq Rules
  BY <1>1 DEF JobsTyped, JobRow
<1>3. pc[w] \in Working => job[w].event \in Events
  BY <1>1 DEF Knows, Working, Events
<1>4. UNCHANGED <<config, faults>> /\ ConfigTyped => ConfigTyped' /\ faults' \in 0..MaxFaults
  BY <1>1 DEF config, ConfigTyped
<1>5. UNCHANGED rows => TablesTyped'
  BY <1>1 DEF rows, TablesTyped
<1>6. UNCHANGED locks => LocksTyped'
  BY <1>1 DEF locks, LocksTyped
<1>7. ASSUME NEW e \in Internal, DrainRow(w, e)
      PROVE  JobsTyped' /\ UNCHANGED <<rows, config, locks, faults>>
  <2> DEFINE j == [job[w] EXCEPT !.claimed = job[w].claimed \ {e}, !.event = e,
                                 !.left = Candidates(e)]
             label == IF Candidates(e) = {} THEN "issue" ELSE "evaluate"
  <2>1. /\ pc' = [pc EXCEPT ![w] = label] /\ job' = [job EXCEPT ![w] = j]
        /\ UNCHANGED <<rows, config, locks, faults>>
    BY <1>7 DEF DrainRow, Goto
  <2>2. j \in JobRow /\ label \in Labels
    BY <1>1, <1>2 DEF JobRow, Candidates, Labels, Events
  <2> HIDE DEF j, label
  <2> QED
    BY <1>1, <2>1, <2>2, Moved
<1>8. ASSUME NEW r \in Rules, EvaluateRule(w, r)
      PROVE  JobsTyped' /\ LocksTyped' /\ UNCHANGED <<rows, config, faults>>
  <2>1. pc[w] = "evaluate" /\ UNCHANGED <<rows, config, faults>>
    BY <1>8 DEF EvaluateRule
  <2>2. job[w].event \in Events
    BY <1>3, <2>1 DEF Working
  <2>3. CASE progress[r] # None /\ Decide(w, r, progress[r]) /\ UNCHANGED locks
    <3>1. progress[r] \in UserRuleProgress
      BY <1>1, <2>3 DEF TablesTyped
    <3> QED
      BY <1>1, <1>6, <2>1, <2>2, <2>3, <3>1, DecideTyped
  <2>4. CASE /\ Decide(w, r, FreshProgress) /\ progressKey' = [progressKey EXCEPT ![r] = w]
             /\ UNCHANGED <<rowLock, logKey, budgetLock>>
    <3>1. FreshProgress \in UserRuleProgress
      BY DEF FreshProgress, UserRuleProgress
    <3>2. LocksTyped'
      BY <1>1, <2>4 DEF LocksTyped
    <3> QED
      BY <1>1, <2>1, <2>2, <2>4, <3>1, <3>2, DecideTyped
  <2>5. CASE job' = [job EXCEPT ![w].rule = r] /\ Goto(w, "insert") /\ UNCHANGED locks
    <3> DEFINE j == [job[w] EXCEPT !.rule = r]
    <3>1. /\ pc' = [pc EXCEPT ![w] = "insert"] /\ job' = [job EXCEPT ![w] = j]
          /\ j \in JobRow /\ "insert" \in Labels
      BY <1>1, <2>5, JobColumns DEF Goto, Labels
    <3> HIDE DEF j
    <3> QED
      BY <1>1, <1>6, <2>1, <2>5, <3>1, Moved
  <2> QED
    BY <1>8, <2>3, <2>4, <2>5 DEF EvaluateRule
<1>9. ASSUME NEW r \in Rules, SkipIssued(w, r)
      PROVE  JobsTyped' /\ UNCHANGED <<rows, config, locks, faults>>
  <2>1. /\ job' = [job EXCEPT ![w].firings = job[w].firings \ {r}]
        /\ pc' = pc /\ UNCHANGED <<rows, config, locks, faults>>
    BY <1>9 DEF SkipIssued
  <2>2. [job[w] EXCEPT !.firings = job[w].firings \ {r}] \in JobRow
    BY <1>1, <1>2, JobColumns
  <2> QED
    BY <1>1, <2>1, <2>2 DEF JobsTyped
<1>10. ASSUME NEW r \in Rules, NEW n \in Amounts, CheckBudgets(w, r, n), ~Fail(w)
       PROVE  JobsTyped' /\ LocksTyped' /\ UNCHANGED <<rows, config, faults>>
  <2> DEFINE j == [job[w] EXCEPT !.rule = r, !.amount = n]
  <2>1. /\ pc' = [pc EXCEPT ![w] = "post"] /\ job' = [job EXCEPT ![w] = j]
        /\ budgetLock' = [b \in Budgets |-> IF b \in Applicable(r) THEN w ELSE budgetLock[b]]
        /\ UNCHANGED <<rowLock, logKey, progressKey>> /\ UNCHANGED <<rows, config, faults>>
    BY <1>10 DEF CheckBudgets, Goto
  <2>2. j \in JobRow /\ "post" \in Labels
    BY <1>1 DEF JobRow, Labels
  <2> HIDE DEF j
  <2>3. JobsTyped'
    BY <1>1, <2>1, <2>2, Moved
  <2>4. LocksTyped'
    BY <1>1, <2>1 DEF LocksTyped
  <2> QED
    BY <2>1, <2>3, <2>4
<1>11. ASSUME Fail(w), UNCHANGED <<config, faults>>
       PROVE  /\ TablesTyped' /\ ConfigTyped' /\ LocksTyped' /\ JobsTyped'
              /\ faults' \in 0..MaxFaults
  BY <1>1, <1>4, <1>5, <1>11, FailTyped
<1>12. ASSUME Drained(w)
       PROVE  JobsTyped' /\ LocksTyped' /\ UNCHANGED <<rows, config, faults>>
  BY <1>1, <1>12, EndTyped DEF Drained
<1>13. ASSUME RecordFailure(w)
       PROVE  TablesTyped' /\ JobsTyped' /\ UNCHANGED <<config, locks, faults>>
  <2>1. /\ pc[w] = "failed" /\ outbox' = [outbox EXCEPT ![job[w].event] = Failed(outbox[job[w].event])]
        /\ UNCHANGED <<ingested, progress, stale, posted, rewardEvents, funds>>
        /\ UNCHANGED <<config, locks, faults>>
        /\ \/ job' = [job EXCEPT ![w].event = None] /\ pc' = [pc EXCEPT ![w] = "drain"]
           \/ job' = [job EXCEPT ![w] = IdleJob] /\ pc' = [pc EXCEPT ![w] = "idle"]
    BY <1>13 DEF RecordFailure, Goto
  <2>2. job[w].event \in Internal /\ outbox[job[w].event] # None
    BY <1>1, <2>1 DEF Knows, Working
  <2>3. Failed(outbox[job[w].event]) \in RewardOutbox
    BY <1>1, <2>2 DEF TablesTyped, RewardOutbox, Failed
  <2>4. TablesTyped'
    BY <1>1, <2>1, <2>2, <2>3 DEF TablesTyped
  <2>5. [job[w] EXCEPT !.event = None] \in JobRow /\ IdleJob \in JobRow
    BY <1>1, IdleTyped, JobColumns
  <2>6. JobsTyped'
    BY <1>1, <2>1, <2>5 DEF JobsTyped, Labels
  <2> QED
    BY <2>1, <2>4, <2>6
<1>14. ASSUME InsertWakes(w), ~Fail(w)
       PROVE  JobsTyped' /\ LocksTyped' /\ UNCHANGED <<rows, config, faults>>
  <2> DEFINE r == job[w].rule
  <2>1. /\ pc[w] = "insert" /\ Decide(w, r, FreshProgress)
        /\ progressKey' = [progressKey EXCEPT ![r] = w]
        /\ UNCHANGED <<rowLock, logKey, budgetLock>> /\ UNCHANGED <<rows, config, faults>>
    BY <1>14 DEF InsertWakes
  <2>2. r \in Rules /\ job[w].event \in Events
    BY <1>1, <1>3, <2>1 DEF Knows, Working
  <2>3. FreshProgress \in UserRuleProgress
    BY DEF FreshProgress, UserRuleProgress
  <2>4. LocksTyped'
    BY <1>1, <2>1 DEF LocksTyped
  <2> QED
    BY <1>1, <2>1, <2>2, <2>3, <2>4, DecideTyped
<1>15. ASSUME CommitStaged(w), UNCHANGED <<outbox, posted, rewardEvents, funds>>
       PROVE  TablesTyped' /\ LocksTyped'
  BY <1>1, <1>15, CommitTyped DEF TablesTyped
<1>16. Through(w) \in JobRow /\ [job[w] EXCEPT !.staged = NoRows] \in JobRow
  BY <1>1, <1>2, IdleTyped DEF Through, JobRow
<1>17. ASSUME Post(w), ~Fail(w)
       PROVE  TablesTyped' /\ LocksTyped' /\ JobsTyped' /\ UNCHANGED <<config, faults>>
  <2> DEFINE f == FiringOf(w)
             cash == IF Rule[job[w].rule].pays = "cashback" THEN job[w].amount ELSE 0
  <2>1. /\ pc[w] = "post" /\ pc' = [pc EXCEPT ![w] = "record"] /\ UNCHANGED <<config, faults>>
        /\ \/ UNCHANGED <<rows, locks, job>>
           \/ /\ cash <= funds
              /\ posted' = [posted EXCEPT ![f] = job[w].amount]
              /\ funds' = funds - cash
              /\ CommitStaged(w)
              /\ job' = [job EXCEPT ![w].staged = NoRows]
              /\ UNCHANGED <<outbox, rewardEvents>>
    BY <1>17 DEF Post, Goto
  <2>2. /\ job[w].amount \in Amounts /\ f \in Firings /\ cash \in Nat
    <3>1. /\ job[w].rule \in Rules /\ job[w].event \in Events
          /\ job[w].amount \in RewardAmounts(job[w].rule)
      BY <1>1, <1>3, <2>1 DEF Knows, Working
    <3> QED
      BY <3>1, NotNone DEF FiringOf, Firings
  <2>3. JobsTyped'
    BY <1>1, <1>16, <2>1 DEF JobsTyped, Labels
  <2>4. TablesTyped' /\ LocksTyped'
    <3>1. CASE UNCHANGED <<rows, locks, job>>
      BY <1>5, <1>6, <3>1
    <3>2. CASE /\ cash <= funds
               /\ posted' = [posted EXCEPT ![f] = job[w].amount]
               /\ funds' = funds - cash
               /\ CommitStaged(w)
               /\ UNCHANGED <<outbox, rewardEvents>>
      <4>1. /\ LocksTyped' /\ progress' \in [Rules -> {None} \cup UserRuleProgress]
            /\ ingested' \in [External -> {None} \cup EventIngestionLog]
            /\ stale' \in [Rules -> Nat]
        BY <1>1, <3>2, CommitTyped
      <4>2. posted' \in [Firings -> {None} \cup Amounts]
        BY <1>1, <2>2, <3>2 DEF TablesTyped
      <4>3. funds' \in Nat
        BY <1>1, <2>2, <3>2 DEF TablesTyped
      <4> QED
        BY <1>1, <3>2, <4>1, <4>2, <4>3 DEF TablesTyped
    <3> QED
      BY <2>1, <3>1, <3>2
  <2> QED
    BY <2>1, <2>3, <2>4
<1>18. ASSUME Record(w), ~Fail(w)
       PROVE  TablesTyped' /\ LocksTyped' /\ JobsTyped' /\ UNCHANGED <<config, faults>>
  <2> DEFINE f == FiringOf(w)
  <2>1. /\ pc[w] = "record" /\ pc' = [pc EXCEPT ![w] = "issue"] /\ UNCHANGED <<config, faults>>
        /\ job' = [job EXCEPT ![w] = Through(w)]
        /\ \/ /\ rewardEvents' = [rewardEvents EXCEPT ![f] = job[w].amount]
              /\ CommitStaged(w) /\ UNCHANGED <<outbox, posted, funds>>
           \/ Unlock(w) /\ UNCHANGED rows
    BY <1>18 DEF Record, Goto
  <2>2. job[w].amount \in Amounts
    <3>1. job[w].rule \in Rules /\ job[w].amount \in RewardAmounts(job[w].rule)
      BY <1>1, <2>1 DEF Knows
    <3> QED
      BY <3>1, NotNone
  <2>3. JobsTyped'
    BY <1>1, <1>16, <2>1 DEF JobsTyped, Labels
  <2>4. CASE Unlock(w) /\ UNCHANGED rows
    BY <1>1, <1>5, <2>1, <2>3, <2>4, UnlockTyped
  <2>5. CASE /\ rewardEvents' = [rewardEvents EXCEPT ![f] = job[w].amount]
             /\ CommitStaged(w) /\ UNCHANGED <<outbox, posted, funds>>
    <3>1. /\ LocksTyped' /\ progress' \in [Rules -> {None} \cup UserRuleProgress]
          /\ ingested' \in [External -> {None} \cup EventIngestionLog]
          /\ stale' \in [Rules -> Nat]
      BY <1>1, <2>5, CommitTyped
    <3>2. rewardEvents' \in [Firings -> {None} \cup Amounts]
      BY <1>1, <2>2, <2>5 DEF TablesTyped
    <3> QED
      BY <1>1, <2>1, <2>3, <2>5, <3>1, <3>2 DEF TablesTyped
  <2> QED
    BY <2>1, <2>4, <2>5
<1>19. ASSUME Finish(w)
       PROVE  TablesTyped' /\ LocksTyped' /\ JobsTyped' /\ UNCHANGED <<config, faults>>
  <2>1. /\ pc[w] = "issue" /\ CommitStaged(w) /\ UNCHANGED <<posted, rewardEvents, funds>>
        /\ UNCHANGED <<config, faults>>
        /\ \/ pc' = [pc EXCEPT ![w] = "idle"] /\ job' = [job EXCEPT ![w] = IdleJob]
              /\ UNCHANGED outbox
           \/ /\ w \notin Consumers
              /\ outbox' = [outbox EXCEPT ![job[w].event].status = "PROCESSED"]
              /\ pc' = [pc EXCEPT ![w] = "drain"]
              /\ job' = [job EXCEPT ![w] = [IdleJob EXCEPT !.claimed = job[w].claimed]]
    BY <1>19 DEF Finish, Goto
  <2>2. [IdleJob EXCEPT !.claimed = job[w].claimed] \in JobRow /\ IdleJob \in JobRow
    BY <1>2, IdleTyped, JobColumns
  <2>3. JobsTyped'
    BY <1>1, <2>1, <2>2 DEF JobsTyped, Labels
  <2>4. outbox' \in [Internal -> {None} \cup RewardOutbox]
    <3>1. CASE UNCHANGED outbox
      BY <1>1, <3>1 DEF TablesTyped
    <3>2. CASE w \notin Consumers /\ outbox' = [outbox EXCEPT ![job[w].event].status = "PROCESSED"]
      <4>1. job[w].event \in Internal /\ outbox[job[w].event] # None
        BY <1>1, <2>1, <3>2 DEF Knows, Working
      <4>2. [outbox[job[w].event] EXCEPT !.status = "PROCESSED"] \in RewardOutbox
        BY <1>1, <4>1 DEF TablesTyped, RewardOutbox
      <4> QED
        BY <1>1, <3>2, <4>1, <4>2 DEF TablesTyped
    <3> QED
      BY <2>1, <3>1, <3>2
  <2>5. /\ LocksTyped' /\ progress' \in [Rules -> {None} \cup UserRuleProgress]
        /\ ingested' \in [External -> {None} \cup EventIngestionLog]
        /\ stale' \in [Rules -> Nat]
    BY <1>1, <2>1, CommitTyped
  <2> QED
    BY <1>1, <2>1, <2>3, <2>4, <2>5 DEF TablesTyped
<1>20. UNCHANGED <<config, faults>>
  BY <1>7, <1>8, <1>9, <1>12, <1>13, <1>19
     DEF Step, CheckBudgets, InsertWakes, Post, Record
<1> QED
  BY <1>1, <1>4, <1>5, <1>6, <1>7, <1>8, <1>9, <1>10, <1>11, <1>12, <1>13, <1>14, <1>17, <1>18,
     <1>19, <1>20 DEF Step

\* Every step keeps the types.
LEMMA StaysTyped == ASSUME Inv, [Next]_vars PROVE TypeOK'
<1>1. /\ TablesTyped /\ ConfigTyped /\ LocksTyped /\ JobsTyped /\ faults \in 0..MaxFaults
      /\ \A w \in Workers : Knows(w)
  BY TypeParts DEF Inv
<1>2. \A w \in Workers : job[w] \in JobRow /\ DOMAIN job = Workers /\ DOMAIN pc = Workers
  BY <1>1 DEF JobsTyped
<1> DEFINE Tables == TablesTyped' /\ ConfigTyped' /\ faults' \in 0..MaxFaults
           Typed == Tables /\ LocksTyped' /\ JobsTyped'
<1>3. UNCHANGED <<rows, config, faults>> => Tables
  BY <1>1 DEF rows, config, TablesTyped, ConfigTyped
<1>4. UNCHANGED <<rowLock, logKey, progressKey, budgetLock>> => LocksTyped'
  BY <1>1 DEF LocksTyped
<1>5. \A w \in Workers : /\ job[w].event \in Events \cup {None} /\ job[w].rule \in Rules \cup {None}
                         /\ job[w].amount \in Amounts \cup {None}
  BY <1>2 DEF JobRow
<1> HIDE DEF Tables
<1>6. ASSUME NEW h \in Handlers, ClaimPending(h) \/ \E e \in Internal : Pay(h, e)
      PROVE  Typed
  <2>1. h \in Workers
    BY DEF Workers
  <2>2. CASE ClaimPending(h)
    <3> DEFINE j == [IdleJob EXCEPT !.claimed = Unlocked({"PENDING"})]
    <3>1. /\ pc' = [pc EXCEPT ![h] = "drain"] /\ job' = [job EXCEPT ![h] = j]
          /\ rowLock' = [e \in Internal |-> IF e \in Unlocked({"PENDING"}) THEN h ELSE rowLock[e]]
          /\ UNCHANGED <<logKey, progressKey, budgetLock>> /\ UNCHANGED <<rows, config, faults>>
      BY <2>2 DEF ClaimPending, Claim, Goto
    <3>2. j \in JobRow
      <4>1. Unlocked({"PENDING"}) \in SUBSET Internal
        BY DEF Unlocked
      <4> QED BY <4>1, IdleTyped, JobColumns
    <3> HIDE DEF j
    <3>3. JobsTyped'
      BY <1>1, <2>1, <3>1, <3>2, Moved DEF Labels
    <3>4. LocksTyped'
      BY <1>1, <3>1 DEF LocksTyped
    <3> QED
      BY <1>3, <3>1, <3>3, <3>4
  <2>3. ASSUME NEW e \in Internal, Pay(h, e) PROVE Typed
    <3>1. /\ outbox' = [outbox EXCEPT ![e] = [status |-> "PENDING", attempts |-> 0]]
          /\ pc' = [pc EXCEPT ![h] = "claim"] /\ job' = job
          /\ UNCHANGED <<ingested, progress, stale, posted, rewardEvents, funds, config, locks, faults>>
      BY <2>3 DEF Pay, Goto
    <3>2. TablesTyped'
      BY <1>1, <3>1 DEF TablesTyped, RewardOutbox
    <3>3. JobsTyped'
      BY <1>1, <2>1, <3>1 DEF JobsTyped, Labels
    <3> QED
      BY <1>1, <1>4, <3>1, <3>2, <3>3 DEF Tables, config, locks, ConfigTyped
  <2> QED
    BY <1>6, <2>2, <2>3
<1>7. ASSUME NEW s \in Sweepers, Sweep(s)
      PROVE  Typed
  <2>1. s \in Workers
    BY DEF Workers
  <2>2. PICK S \in SUBSET Internal : Claim(s, S)
    BY <1>7 DEF Sweep, kSubset, Retryable, Unlocked
  <2> DEFINE j == [IdleJob EXCEPT !.claimed = S]
  <2>3. /\ pc' = [pc EXCEPT ![s] = "drain"] /\ job' = [job EXCEPT ![s] = j]
        /\ rowLock' = [e \in Internal |-> IF e \in S THEN s ELSE rowLock[e]]
        /\ UNCHANGED <<logKey, progressKey, budgetLock>> /\ UNCHANGED <<rows, config, faults>>
    BY <2>2 DEF Claim, Goto
  <2>4. j \in JobRow
    BY IdleTyped, JobColumns
  <2> HIDE DEF j
  <2>5. JobsTyped'
    BY <1>1, <2>1, <2>3, <2>4, Moved DEF Labels
  <2>6. LocksTyped'
    BY <1>1, <2>3 DEF LocksTyped
  <2> QED
    BY <1>3, <2>3, <2>5, <2>6
<1>8. ASSUME NEW c \in Consumers, NEW x \in External, Deliver(c, x) \/ Reject(c, x)
      PROVE  Typed
  <2>1. c \in Workers /\ x \in Events
    BY DEF Workers, Events
  <2>2. CASE Deliver(c, x)
    <3> DEFINE j == [IdleJob EXCEPT !.event = x, !.left = Candidates(x)]
               label == IF Candidates(x) = {} THEN "issue" ELSE "evaluate"
    <3>1. /\ pc' = [pc EXCEPT ![c] = label] /\ job' = [job EXCEPT ![c] = j]
          /\ logKey' = [logKey EXCEPT ![x] = c]
          /\ UNCHANGED <<rowLock, progressKey, budgetLock>> /\ UNCHANGED <<rows, config, faults>>
      BY <2>2 DEF Deliver, Goto
    <3>2. j \in JobRow /\ label \in Labels
      BY <2>1, IdleTyped DEF JobRow, Candidates, Labels
    <3> HIDE DEF j, label
    <3>3. JobsTyped'
      BY <1>1, <2>1, <3>1, <3>2, Moved
    <3>4. LocksTyped'
      BY <1>1, <3>1 DEF LocksTyped
    <3> QED
      BY <1>3, <3>1, <3>3, <3>4
  <2>3. CASE Reject(c, x)
    <3>1. /\ ingested' = [ingested EXCEPT ![x] = "REJECTED"]
          /\ UNCHANGED <<outbox, progress, stale, posted, rewardEvents, funds>>
          /\ UNCHANGED <<config, locks, pc, job, faults>>
      BY <2>3 DEF Reject
    <3>2. TablesTyped'
      BY <1>1, <3>1 DEF TablesTyped, EventIngestionLog
    <3> QED
      BY <1>1, <1>4, <3>1, <3>2 DEF Tables, config, locks, ConfigTyped, JobsTyped
  <2> QED
    BY <1>8, <2>2, <2>3
<1>9. ASSUME NEW w \in Workers, End(w), UNCHANGED <<rows, config>>,
             faults' = faults \/ (faults' = faults + 1 /\ faults < MaxFaults)
      PROVE  Typed
  <2>1. LocksTyped' /\ JobsTyped'
    BY <1>1, <1>9, EndTyped
  <2>2. faults' \in 0..MaxFaults
    BY <1>1, <1>9, RewardsAssumption
  <2> QED
    BY <1>1, <1>9, <2>1, <2>2 DEF Tables, rows, config, TablesTyped, ConfigTyped
<1>10. ASSUME NEW w \in Workers, Fail(w), UNCHANGED config,
              faults' = faults \/ (faults' = faults + 1 /\ faults < MaxFaults)
       PROVE  Typed
  <2>1. LocksTyped' /\ JobsTyped' /\ UNCHANGED rows
    BY <1>1, <1>10, FailTyped
  <2>2. faults' \in 0..MaxFaults
    BY <1>1, <1>10, RewardsAssumption
  <2> QED
    BY <1>1, <1>10, <2>1, <2>2 DEF Tables, rows, config, TablesTyped, ConfigTyped
<1>11. ASSUME NEW w \in Workers, Fault(w) \/ Crash(w)
       PROVE  Typed
  BY <1>9, <1>10, <1>11 DEF Fault, Crash
<1>12. ASSUME Reconfigure
      PROVE  Typed
  <2>1. /\ UNCHANGED <<outbox, ingested, progress, stale, posted, rewardEvents>>
        /\ UNCHANGED <<locks, pc, job, faults>>
        /\ businessType' = businessType /\ sourceActive' \in {sourceActive, TRUE}
        /\ funds' \in {funds, TopUpTo}
    BY <1>12 DEF Reconfigure, config
  <2>2. TablesTyped' /\ ConfigTyped'
    BY <1>1, <2>1, RewardsAssumption DEF TablesTyped, ConfigTyped
  <2> QED
    BY <1>1, <1>4, <2>1, <2>2 DEF Tables, locks, JobsTyped
<1>13. ASSUME UNCHANGED vars
      PROVE  Typed
  BY <1>1, <1>3, <1>4, <1>13 DEF vars, locks, JobsTyped
<1>14. ASSUME NEW w \in Workers, Step(w)
       PROVE  Typed
  BY <1>1, <1>2, <1>14, StepTyped DEF Tables
<1>15. Typed => TypeOK'
  BY DEF Tables, TypeOK, TablesTyped, ConfigTyped, LocksTyped, JobsTyped, Labels, JobRow
<1> HIDE DEF Typed
<1> QED
  BY <1>6, <1>7, <1>8, <1>11, <1>12, <1>13, <1>14, <1>15 DEF Next, Inv

-----------------------------------------------------------------------------
(* What the workers know                                                   *)

\* What is committed stays: intents, log rows and payments.
Grows ==
    /\ \A e \in Internal : outbox[e] # None => outbox'[e] # None
    /\ \A x \in External : ingested[x] = "PROCESSED" => ingested'[x] = "PROCESSED"
    /\ \A f \in Firings : posted[f] # None => posted'[f] = posted[f]

\* A step of somebody else leaves t where it is, and its log row with it.
Spared(t) ==
    /\ pc'[t] = pc[t] /\ job'[t] = job[t]
    /\ \A x \in External : InLog(t, x) => InLog(t, x)'

LEMMA OthersKnow ==
    ASSUME Grows, NEW t \in Workers, Spared(t), Knows(t), job[t].claimed \subseteq Internal
    PROVE  Knows(t)'
<1>1. pc[t] \in Working \cup {"failed"} =>
          IF t \in Consumers THEN job[t].event \in External /\ InLog(t, job[t].event)'
          ELSE job[t].event \in Internal /\ outbox'[job[t].event] # None
  BY DEF Knows, Grows, Spared
<1>2. pc[t] = "record" => posted'[FiringOf(t)] # None
  BY DEF Knows, Grows, FiringOf, Firings, Working, Events
<1>3. \A e \in job[t].claimed : outbox'[e] # None
  BY DEF Knows, Grows
<1> QED
  BY <1>1, <1>2, <1>3 DEF Knows, Spared, FiringOf, InLog

\* What every step of a worker has to show for the other workers.
LEMMA Keeps ==
    ASSUME Inv, NEW w \in Workers, Grows, LogHeld', Happened', Knows(w)',
           \A t \in Workers \ {w} : Spared(t)
    PROVE  (\A t \in Workers : Knows(t)') /\ LogHeld' /\ Happened'
<1>1. ASSUME NEW t \in Workers \ {w} PROVE Knows(t)'
  <2>1. Knows(t) /\ job[t].claimed \subseteq Internal /\ Spared(t)
    BY TypeParts DEF Inv, JobsTyped, JobRow
  <2> QED
    BY <2>1, OthersKnow
<1> QED
  BY <1>1

\* A step that commits nothing.
LEMMA QuietKeeps ==
    ASSUME Inv, NEW w \in Workers, UNCHANGED <<outbox, ingested, posted>>,
           logKey' = logKey \/ Unlock(w), Knows(w)',
           \A t \in Workers \ {w} : pc'[t] = pc[t] /\ job'[t] = job[t]
    PROVE  (\A t \in Workers : Knows(t)') /\ LogHeld' /\ Happened'
<1>1. Grows
  BY DEF Grows
<1>2. DOMAIN logKey = External
  BY TypeParts DEF Inv, LocksTyped
<1>3. ASSUME NEW t \in Workers \ {w} PROVE Spared(t)
  BY <1>2 DEF Spared, InLog, Unlock, Freed
<1>4. LogHeld'
  BY <1>2 DEF Inv, LogHeld, Unlock, Freed
<1>5. Happened'
  BY DEF Inv, Happened
<1> QED
  BY <1>1, <1>3, <1>4, <1>5, Keeps

\* A commit of w puts w's event in the log, and nothing else of others there.
LEMMA CommitKeeps ==
    ASSUME Inv, NEW w \in Workers, CommitStaged(w),
           \A e \in Internal : outbox[e] # None => outbox'[e] # None,
           \/ posted' = posted
           \/ /\ pc[w] \in Working /\ job[w].rule \in Rules
              /\ posted[FiringOf(w)] = None
              /\ posted' = [posted EXCEPT ![FiringOf(w)] = job[w].amount]
              /\ job[w].amount \in RewardAmounts(job[w].rule),
           \A t \in Workers \ {w} : pc'[t] = pc[t] /\ job'[t] = job[t]
    PROVE  /\ Grows /\ LogHeld' /\ Happened'
           /\ \A t \in Workers \ {w} : Spared(t)
           /\ w \in Consumers /\ pc[w] \in Working => ingested'[job[w].event] = "PROCESSED"
<1>1. /\ logKey \in [External -> {None} \cup Consumers]
      /\ ingested \in [External -> {None} \cup EventIngestionLog]
      /\ posted \in [Firings -> {None} \cup Amounts] /\ Knows(w)
  BY TypeParts DEF Inv, LocksTyped, TablesTyped
<1>2. /\ \A x \in External : ingested'[x] = IF logKey[x] = w THEN "PROCESSED" ELSE ingested[x]
      /\ \A x \in External : logKey'[x] = IF logKey[x] = w THEN None ELSE logKey[x]
  BY <1>1 DEF CommitStaged, Unlock, Freed
<1>3. w \in Consumers /\ pc[w] \in Working => ingested'[job[w].event] = "PROCESSED"
  BY <1>1, <1>2 DEF Knows, InLog
<1>4. Grows
  BY <1>1, <1>2 DEF Grows
<1>5. LogHeld'
  BY <1>2 DEF Inv, LogHeld
<1>6. ASSUME NEW t \in Workers \ {w} PROVE Spared(t)
  BY <1>2, NotNone DEF Spared, InLog
<1>7. Happened'
  <2> SUFFICES ASSUME NEW r \in Rules, NEW e \in Events, posted'[<<r, e>>] # None
               PROVE  /\ posted'[<<r, e>>] \in RewardAmounts(r)
                      /\ IF e \in Internal THEN outbox'[e] # None ELSE ingested'[e] = "PROCESSED"
    BY DEF Happened
  <2>1. <<r, e>> \in Firings /\ (e \notin Internal => e \in External)
    BY DEF Firings, Events
  <2>2. CASE posted[<<r, e>>] # None
    BY <1>4, <2>1, <2>2 DEF Inv, Happened, Grows
  <2>3. CASE posted[<<r, e>>] = None
    <3>1. /\ FiringOf(w) = <<r, e>> /\ posted'[<<r, e>>] = job[w].amount
          /\ pc[w] \in Working /\ job[w].amount \in RewardAmounts(job[w].rule)
      BY <1>1, <2>1, <2>3 DEF FiringOf
    <3>2. r = job[w].rule /\ e = job[w].event
      BY <3>1 DEF FiringOf
    <3>3. IF e \in Internal THEN outbox'[e] # None ELSE ingested'[e] = "PROCESSED"
      <4>1. w \in Consumers => e \in External /\ e \notin Internal
        BY <1>1, <3>1, <3>2, RewardsAssumption DEF Knows
      <4>2. w \notin Consumers => e \in Internal /\ outbox[e] # None
        BY <1>1, <3>1, <3>2 DEF Knows
      <4> QED
        BY <1>3, <3>1, <3>2, <4>1, <4>2
    <3> QED
      BY <3>1, <3>2, <3>3
  <2> QED
    BY <2>2, <2>3
<1> QED
  BY <1>3, <1>4, <1>5, <1>6, <1>7

\* A session that is over knows nothing of its former event.
LEMMA EndKnows ==
    ASSUME Inv, NEW w \in Workers, End(w)
    PROVE  Knows(w)' /\ \A t \in Workers \ {w} : pc'[t] = pc[t] /\ job'[t] = job[t]
<1>1. JobsTyped /\ LocksTyped
  BY TypeParts DEF Inv
<1>2. pc'[w] = "idle" /\ job'[w].claimed = {}
  BY <1>1, EndTyped DEF IdleJob
<1>3. \A t \in Workers \ {w} : pc'[t] = pc[t] /\ job'[t] = job[t]
  BY <1>1 DEF End, Goto, JobsTyped
<1> QED
  BY <1>2, <1>3 DEF Knows, Working

LEMMA FailKnows ==
    ASSUME Inv, NEW w \in Workers, Fail(w), pc[w] \in Working
    PROVE  Knows(w)' /\ \A t \in Workers \ {w} : pc'[t] = pc[t] /\ job'[t] = job[t]
<1>1. JobsTyped /\ LocksTyped /\ Knows(w)
  BY TypeParts DEF Inv
<1>2. \A t \in Workers \ {w} : pc'[t] = pc[t] /\ job'[t] = job[t]
  BY <1>1 DEF Fail, Goto, JobsTyped
<1>3. CASE w \in Consumers
  <2>1. pc'[w] = "idle" /\ job'[w].claimed = {}
    BY <1>1, <1>3, FailTyped DEF IdleJob
  <2> QED
    BY <1>2, <2>1 DEF Knows, Working
<1>4. CASE w \notin Consumers
  <2>1. /\ pc'[w] = "failed" /\ job'[w].claimed = job[w].claimed
        /\ job'[w].event = job[w].event /\ outbox' = outbox
    BY <1>1, <1>4, FailTyped DEF FailedJob, IdleJob, rows
  <2> QED
    BY <1>1, <1>2, <1>4, <2>1 DEF Knows, Working
<1> QED
  BY <1>3, <1>4

\* A worker that goes on with its event, without a commit.
LEMMA StayKnows ==
    ASSUME Inv, NEW w \in Workers, pc[w] \in Working, pc'[w] \in Working,
           job'[w].event = job[w].event, job'[w].claimed = job[w].claimed,
           UNCHANGED <<outbox, ingested, posted, logKey>>,
           pc'[w] \in {"insert", "post", "record"} => job'[w].rule \in Rules,
           pc'[w] \in {"post", "record"} => job'[w].amount \in RewardAmounts(job'[w].rule),
           pc'[w] = "record" => posted[<<job'[w].rule, job'[w].event>>] # None,
           \A t \in Workers \ {w} : pc'[t] = pc[t] /\ job'[t] = job[t]
    PROVE  (\A t \in Workers : Knows(t)') /\ LogHeld' /\ Happened'
<1>1. Knows(w)
  BY DEF Inv
<1>2. Knows(w)'
  BY <1>1 DEF Knows, InLog, FiringOf, Working
<1> QED
  BY <1>2, QuietKeeps

\* What a worker has decided on, it decided for the event it works on.
LEMMA DecideKnows ==
    ASSUME Inv, NEW w \in Workers, NEW r \in Rules, NEW row \in UserRuleProgress,
           pc[w] \in Working, Decide(w, r, row), UNCHANGED <<rows, logKey>>
    PROVE  (\A t \in Workers : Knows(t)') /\ LogHeld' /\ Happened'
<1>1. TablesTyped /\ JobsTyped /\ Knows(w)
  BY TypeParts DEF Inv
<1>2. job[w].event \in Events /\ job[w] \in JobRow
  BY <1>1 DEF Knows, Working, Events, JobsTyped
<1>3. /\ job'[w] = Decided(w, r, row)
      /\ pc'[w] = IF job[w].left \ {r} = {} THEN "issue" ELSE "evaluate"
  BY <1>1, <1>2, DecideTyped
<1>4. Decided(w, r, row).event = job[w].event /\ Decided(w, r, row).claimed = job[w].claimed
  BY <1>2 DEF Decided, JobRow
<1>5. \A t \in Workers \ {w} : pc'[t] = pc[t] /\ job'[t] = job[t]
  BY <1>1 DEF Decide, Goto, JobsTyped
<1> QED
  BY <1>3, <1>4, <1>5, StayKnows DEF rows, Working

LEMMA StepKnows ==
    ASSUME Inv, NEW w \in Workers, Step(w)
    PROVE  (\A t \in Workers : Knows(t)') /\ LogHeld' /\ Happened'
<1> DEFINE Goal == (\A t \in Workers : Knows(t)') /\ LogHeld' /\ Happened'
           Others == \A t \in Workers \ {w} : pc'[t] = pc[t] /\ job'[t] = job[t]
<1>1. /\ JobsTyped /\ TablesTyped /\ Knows(w) /\ job[w] \in JobRow
      /\ DOMAIN pc = Workers /\ DOMAIN job = Workers /\ Happened
  BY TypeParts DEF Inv, JobsTyped
<1>2. pc[w] \in Working => job[w].event \in Events
  BY <1>1 DEF Knows, Working, Events
<1>3. ASSUME Fail(w), pc[w] \in Working
      PROVE  Goal
  BY <1>3, FailKnows, QuietKeeps DEF Fail, rows
<1>4. ASSUME NEW e \in Internal, DrainRow(w, e)
      PROVE  Goal
  <2>1. /\ pc[w] = "drain" /\ e \in job[w].claimed
        /\ pc' = [pc EXCEPT ![w] = IF Candidates(e) = {} THEN "issue" ELSE "evaluate"]
        /\ job' = [job EXCEPT ![w] = [job[w] EXCEPT !.claimed = job[w].claimed \ {e},
                                                    !.event = e, !.left = Candidates(e)]]
        /\ UNCHANGED <<outbox, ingested, posted, logKey>>
    BY <1>4 DEF DrainRow, Goto, OldestOf, rows, locks
  <2>2. /\ Others /\ pc'[w] \in {"issue", "evaluate"} /\ job'[w].event = e
        /\ job'[w].claimed \subseteq job[w].claimed
    BY <1>1, <2>1 DEF JobRow
  <2>3. outbox[e] # None /\ w \notin Consumers
    BY <1>1, <2>1 DEF Knows, Working
  <2>4. Knows(w)'
    BY <1>1, <2>1, <2>2, <2>3 DEF Knows, Working
  <2> QED
    BY <2>1, <2>2, <2>4, QuietKeeps
<1>5. ASSUME NEW r \in Rules, EvaluateRule(w, r)
      PROVE  Goal
  <2>1. pc[w] \in Working /\ UNCHANGED <<rows, logKey>>
    BY <1>5 DEF EvaluateRule, Working, locks
  <2>2. CASE progress[r] # None /\ Decide(w, r, progress[r])
    <3>1. progress[r] \in UserRuleProgress
      BY <1>1, <2>2 DEF TablesTyped
    <3> QED
      BY <2>1, <2>2, <3>1, DecideKnows
  <2>3. CASE Decide(w, r, FreshProgress)
    <3>1. FreshProgress \in UserRuleProgress
      BY DEF FreshProgress, UserRuleProgress
    <3> QED
      BY <2>1, <2>3, <3>1, DecideKnows
  <2>4. CASE job' = [job EXCEPT ![w].rule = r] /\ Goto(w, "insert")
    <3>1. /\ Others /\ pc'[w] = "insert" /\ job'[w].rule = r /\ job'[w].event = job[w].event
          /\ job'[w].claimed = job[w].claimed
      BY <1>1, <2>4 DEF Goto, JobRow
    <3> QED
      BY <2>1, <3>1, StayKnows DEF rows, Working
  <2> QED
    BY <1>5, <2>2, <2>3, <2>4 DEF EvaluateRule
<1>6. ASSUME NEW r \in Rules, SkipIssued(w, r)
      PROVE  Goal
  <2>1. /\ pc[w] = "issue" /\ pc' = pc /\ UNCHANGED <<outbox, ingested, posted, logKey>>
        /\ job' = [job EXCEPT ![w].firings = job[w].firings \ {r}]
    BY <1>6 DEF SkipIssued, rows, locks
  <2>2. /\ Others /\ pc'[w] = "issue" /\ job'[w].event = job[w].event
        /\ job'[w].claimed = job[w].claimed
    BY <1>1, <2>1 DEF JobRow
  <2> QED
    BY <2>1, <2>2, StayKnows DEF Working
<1>7. ASSUME NEW r \in Rules, NEW n \in Amounts, CheckBudgets(w, r, n)
      PROVE  Goal
  <2>1. pc[w] = "issue" /\ n \in RewardAmounts(r)
    BY <1>7 DEF CheckBudgets
  <2>2. CASE Fail(w)
    BY <1>3, <2>1, <2>2 DEF Working
  <2>3. CASE /\ job' = [job EXCEPT ![w] = [job[w] EXCEPT !.rule = r, !.amount = n]]
             /\ Goto(w, "post") /\ UNCHANGED <<rows, rowLock, logKey, progressKey>>
    <3>1. /\ Others /\ pc'[w] = "post" /\ job'[w].event = job[w].event
          /\ job'[w].claimed = job[w].claimed /\ job'[w].rule = r /\ job'[w].amount = n
      BY <1>1, <2>3 DEF JobRow, Goto
    <3> QED
      BY <2>1, <2>3, <3>1, StayKnows DEF Working, rows
  <2> QED
    BY <1>7, <2>2, <2>3 DEF CheckBudgets
<1>8. ASSUME Drained(w)
      PROVE  Goal
  BY <1>8, EndKnows, QuietKeeps DEF Drained, End, rows
<1>9. ASSUME RecordFailure(w)
      PROVE  Goal
  <2>1. /\ pc[w] = "failed"
        /\ outbox' = [outbox EXCEPT ![job[w].event] = Failed(outbox[job[w].event])]
        /\ UNCHANGED <<ingested, posted, logKey>>
        /\ \/ job' = [job EXCEPT ![w].event = None] /\ pc' = [pc EXCEPT ![w] = "drain"]
           \/ job' = [job EXCEPT ![w] = IdleJob] /\ pc' = [pc EXCEPT ![w] = "idle"]
    BY <1>9 DEF RecordFailure, Goto, locks
  <2>2. w \notin Consumers /\ job[w].event \in Internal /\ outbox[job[w].event] # None
    BY <1>1, <2>1 DEF Knows, Working
  <2>3. Failed(outbox[job[w].event]) # None
    BY <1>1, <2>2, NotNone DEF TablesTyped, RewardOutbox, Failed
  <2>4. Grows
    BY <1>1, <2>1, <2>3 DEF Grows, TablesTyped
  <2>5. /\ Others /\ pc'[w] \in {"drain", "idle"} /\ job'[w].claimed \subseteq job[w].claimed
    BY <1>1, <2>1 DEF JobRow, IdleJob
  <2>6. Knows(w)'
    BY <1>1, <2>2, <2>4, <2>5 DEF Knows, Working, Grows, JobRow
  <2>7. LogHeld' /\ Happened'
    BY <2>1, <2>4 DEF Inv, LogHeld, Happened, Grows, Events
  <2>8. \A t \in Workers \ {w} : Spared(t)
    BY <2>1, <2>5 DEF Spared, InLog
  <2> QED
    BY <2>4, <2>6, <2>7, <2>8, Keeps
<1>10. ASSUME InsertWakes(w)
       PROVE  Goal
  <2>1. pc[w] = "insert" /\ job[w].rule \in Rules
    BY <1>1, <1>10 DEF InsertWakes, Knows
  <2>2. CASE Fail(w)
    BY <1>3, <2>1, <2>2 DEF Working
  <2>3. CASE Decide(w, job[w].rule, FreshProgress) /\ UNCHANGED <<rows, rowLock, logKey, budgetLock>>
    <3>1. FreshProgress \in UserRuleProgress
      BY DEF FreshProgress, UserRuleProgress
    <3> QED
      BY <2>1, <2>3, <3>1, DecideKnows DEF Working
  <2> QED
    BY <1>10, <2>2, <2>3 DEF InsertWakes
<1>11. ASSUME Post(w)
       PROVE  Goal
  <2>1. /\ pc[w] = "post" /\ job[w].rule \in Rules /\ job[w].event \in Events
        /\ job[w].amount \in RewardAmounts(job[w].rule) /\ FiringOf(w) \in Firings
    BY <1>1, <1>2, <1>11 DEF Post, Knows, FiringOf, Firings, Working
  <2>2. CASE Fail(w)
    BY <1>3, <2>1, <2>2 DEF Working
  <2>3. CASE posted[FiringOf(w)] # None /\ Goto(w, "record") /\ UNCHANGED <<rows, locks, job>>
    <3>1. Others /\ pc'[w] = "record"
      BY <1>1, <2>3 DEF Goto
    <3> QED
      BY <2>1, <2>3, <3>1, StayKnows DEF Working, rows, locks, FiringOf
  <2>4. CASE /\ posted[FiringOf(w)] = None
             /\ posted' = [posted EXCEPT ![FiringOf(w)] = job[w].amount]
             /\ CommitStaged(w) /\ job' = [job EXCEPT ![w].staged = NoRows]
             /\ Goto(w, "record") /\ UNCHANGED <<outbox, rewardEvents>>
    <3>1. /\ Others /\ pc'[w] = "record" /\ job'[w].event = job[w].event
          /\ job'[w].claimed = job[w].claimed /\ job'[w].rule = job[w].rule
          /\ job'[w].amount = job[w].amount
      BY <1>1, <2>4 DEF Goto, JobRow
    <3>2. /\ Grows /\ LogHeld' /\ Happened' /\ \A t \in Workers \ {w} : Spared(t)
          /\ w \in Consumers => ingested'[job[w].event] = "PROCESSED"
      BY <2>1, <2>4, <3>1, CommitKeeps DEF Working
    <3>3. posted'[FiringOf(w)] # None
      BY <1>1, <2>1, <2>4, NotNone DEF TablesTyped
    <3>4. Knows(w)'
      BY <1>1, <2>1, <2>4, <3>1, <3>2, <3>3 DEF Knows, InLog, Working, FiringOf
    <3> QED
      BY <3>2, <3>4, Keeps
  <2> QED
    BY <1>11, <2>2, <2>3, <2>4 DEF Post
<1>12. ASSUME Record(w)
       PROVE  Goal
  <2>1. /\ pc[w] = "record" /\ job[w].rule \in Rules /\ job[w].event \in Events
        /\ posted[FiringOf(w)] # None
    BY <1>1, <1>2, <1>12 DEF Record, Knows, Working
  <2>2. CASE Fail(w)
    BY <1>3, <2>1, <2>2 DEF Working
  <2>3. ASSUME job' = [job EXCEPT ![w] = Through(w)], Goto(w, "issue")
        PROVE  /\ Others /\ pc'[w] = "issue" /\ job'[w].event = job[w].event
               /\ job'[w].claimed = job[w].claimed
    BY <1>1, <2>3 DEF Goto, Through, JobRow
  <2>4. CASE /\ CommitStaged(w) /\ UNCHANGED <<outbox, posted, funds>>
             /\ job' = [job EXCEPT ![w] = Through(w)] /\ Goto(w, "issue")
    <3>1. /\ Grows /\ LogHeld' /\ Happened' /\ \A t \in Workers \ {w} : Spared(t)
          /\ w \in Consumers => ingested'[job[w].event] = "PROCESSED"
      BY <2>1, <2>3, <2>4, CommitKeeps DEF Working
    <3>2. Knows(w)'
      BY <1>1, <2>1, <2>3, <2>4, <3>1 DEF Knows, InLog, Working
    <3> QED
      BY <3>1, <3>2, Keeps
  <2>5. CASE /\ job' = [job EXCEPT ![w] = Through(w)] /\ Goto(w, "issue")
             /\ Unlock(w) /\ UNCHANGED rows
    <3>1. w \in Consumers => job[w].event \in External /\ ingested[job[w].event] = "PROCESSED"
      <4>1. w \in Consumers => job[w].event \in External /\ job[w].event \notin Internal
        BY <1>1, <2>1, RewardsAssumption DEF Knows, Working
      <4> QED
        BY <1>1, <2>1, <4>1 DEF Happened, FiringOf
    <3>2. Knows(w)'
      BY <1>1, <2>1, <2>3, <2>5, <3>1 DEF Knows, InLog, Working, rows
    <3> QED
      BY <2>3, <2>5, <3>2, QuietKeeps DEF rows
  <2> QED
    BY <1>12, <2>2, <2>4, <2>5 DEF Record
<1>13. ASSUME Finish(w)
       PROVE  Goal
  <2>1. /\ pc[w] = "issue" /\ CommitStaged(w) /\ UNCHANGED posted
        /\ \/ /\ pc' = [pc EXCEPT ![w] = "idle"] /\ job' = [job EXCEPT ![w] = IdleJob]
              /\ UNCHANGED outbox
           \/ /\ w \notin Consumers
              /\ outbox' = [outbox EXCEPT ![job[w].event].status = "PROCESSED"]
              /\ pc' = [pc EXCEPT ![w] = "drain"]
              /\ job' = [job EXCEPT ![w] = [IdleJob EXCEPT !.claimed = job[w].claimed]]
    BY <1>13 DEF Finish, Goto
  <2>2. \A e \in Internal : outbox[e] # None => outbox'[e] # None
    <3>1. CASE w \notin Consumers
               /\ outbox' = [outbox EXCEPT ![job[w].event].status = "PROCESSED"]
      <4>1. job[w].event \in Internal /\ outbox[job[w].event] # None
        BY <1>1, <2>1, <3>1 DEF Knows, Working
      <4>2. [outbox[job[w].event] EXCEPT !.status = "PROCESSED"] \in RewardOutbox
        BY <1>1, <4>1 DEF TablesTyped, RewardOutbox
      <4> QED
        BY <1>1, <3>1, <4>1, <4>2, NotNone DEF TablesTyped
    <3> QED
      BY <2>1, <3>1
  <2>3. Others /\ pc'[w] \in {"idle", "drain"} /\ job'[w].claimed \subseteq job[w].claimed
        /\ (pc'[w] = "drain" => w \notin Consumers)
    BY <1>1, <2>1 DEF IdleJob
  <2>4. /\ Grows /\ LogHeld' /\ Happened' /\ \A t \in Workers \ {w} : Spared(t)
    BY <2>1, <2>2, <2>3, CommitKeeps
  <2>5. Knows(w)'
    BY <1>1, <2>3, <2>4 DEF Knows, Working, Grows, JobRow
  <2> QED
    BY <2>4, <2>5, Keeps
<1> HIDE DEF Goal
<1>14. Goal
  BY <1>4, <1>5, <1>6, <1>7, <1>8, <1>9, <1>10, <1>11, <1>12, <1>13 DEF Step
<1> QED
  BY <1>14 DEF Goal

\* A session that claims intents finds them in the outbox.
LEMMA ClaimKnows ==
    ASSUME Inv, NEW w \in Workers \ Consumers, NEW S \in SUBSET Internal, Claim(w, S),
           \A e \in S : outbox[e] # None
    PROVE  (\A t \in Workers : Knows(t)') /\ LogHeld' /\ Happened'
<1>1. DOMAIN pc = Workers /\ DOMAIN job = Workers
  BY TypeParts DEF Inv, JobsTyped
<1>2. /\ pc'[w] = "drain" /\ job'[w].claimed = S /\ UNCHANGED <<outbox, ingested, posted, logKey>>
      /\ \A t \in Workers \ {w} : pc'[t] = pc[t] /\ job'[t] = job[t]
  BY <1>1 DEF Claim, Goto, IdleJob, rows
<1>3. Knows(w)'
  BY <1>2 DEF Knows, Working
<1> QED
  BY <1>2, <1>3, QuietKeeps

\* Every step keeps what the workers know.
LEMMA NextKnows ==
    ASSUME Inv, [Next]_vars
    PROVE  (\A t \in Workers : Knows(t)') /\ LogHeld' /\ Happened'
<1> DEFINE Goal == (\A t \in Workers : Knows(t)') /\ LogHeld' /\ Happened'
<1>1. /\ JobsTyped /\ TablesTyped /\ LocksTyped /\ (\A t \in Workers : Knows(t))
      /\ DOMAIN pc = Workers /\ DOMAIN job = Workers
  BY TypeParts DEF Inv, JobsTyped
<1>2. ASSUME NEW h \in Handlers, ClaimPending(h)
      PROVE  Goal
  <2>1. h \in Workers \ Consumers /\ Unlocked({"PENDING"}) \in SUBSET Internal
        /\ \A e \in Unlocked({"PENDING"}) : outbox[e] # None
    BY RewardsAssumption DEF Workers, Unlocked
  <2> QED
    BY <1>2, <2>1, ClaimKnows DEF ClaimPending
<1>3. ASSUME NEW s \in Sweepers, Sweep(s)
      PROVE  Goal
  <2>1. PICK S \in SUBSET Retryable : Claim(s, S)
    BY <1>3 DEF Sweep, kSubset
  <2>2. s \in Workers \ Consumers /\ S \in SUBSET Internal /\ \A e \in S : outbox[e] # None
    BY <2>1, RewardsAssumption DEF Workers, Retryable, Unlocked
  <2> QED
    BY <2>1, <2>2, ClaimKnows
<1>4. ASSUME NEW h \in Handlers, NEW e \in Internal, Pay(h, e)
      PROVE  Goal
  <2>1. /\ pc[h] = "idle" /\ outbox[e] = None /\ h \in Workers
        /\ outbox' = [outbox EXCEPT ![e] = [status |-> "PENDING", attempts |-> 0]]
        /\ pc' = [pc EXCEPT ![h] = "claim"] /\ job' = job
        /\ UNCHANGED <<ingested, posted, logKey>>
    BY <1>4 DEF Pay, Goto, locks, Workers
  <2>2. Grows
    BY <1>1, <2>1 DEF Grows, TablesTyped
  <2>3. \A t \in Workers \ {h} : Spared(t)
    BY <1>1, <2>1 DEF Spared, InLog
  <2>4. LogHeld' /\ Happened'
    BY <2>1, <2>2 DEF Inv, LogHeld, Happened, Grows, Events
  <2>5. h \notin Consumers /\ pc'[h] = "claim" /\ job[h].claimed \subseteq Internal
    BY <1>1, <2>1, RewardsAssumption DEF JobsTyped, JobRow
  <2>6. Knows(h)'
    BY <1>1, <2>1, <2>2, <2>5 DEF Knows, Grows, Working
  <2> QED
    BY <2>1, <2>2, <2>3, <2>4, <2>6, Keeps
<1>5. ASSUME NEW c \in Consumers, NEW x \in External, Deliver(c, x)
      PROVE  Goal
  <2>1. /\ ingested[x] = None /\ logKey[x] = None /\ logKey' = [logKey EXCEPT ![x] = c]
        /\ job' = [job EXCEPT ![c] = [IdleJob EXCEPT !.event = x, !.left = Candidates(x)]]
        /\ pc' = [pc EXCEPT ![c] = IF Candidates(x) = {} THEN "issue" ELSE "evaluate"]
        /\ UNCHANGED <<outbox, ingested, posted>> /\ c \in Workers
    BY <1>5 DEF Deliver, Goto, rows, Workers
  <2>2. /\ pc'[c] \in {"issue", "evaluate"} /\ job'[c].event = x /\ job'[c].claimed = {}
        /\ logKey'[x] = c
    BY <1>1, <2>1 DEF IdleJob, LocksTyped
  <2>3. Grows /\ LogHeld' /\ Happened'
    BY <1>1, <2>1 DEF Grows, Inv, LogHeld, Happened, LocksTyped
  <2>4. \A t \in Workers \ {c} : Spared(t)
    BY <1>1, <2>1, NotNone DEF Spared, InLog, LocksTyped
  <2>5. Knows(c)'
    BY <2>1, <2>2 DEF Knows, Working, InLog
  <2> QED
    BY <2>1, <2>3, <2>4, <2>5, Keeps
<1>6. ASSUME NEW c \in Consumers, NEW x \in External, Reject(c, x)
      PROVE  Goal
  <2>1. /\ ingested[x] = None /\ logKey[x] = None /\ c \in Workers
        /\ ingested' = [ingested EXCEPT ![x] = "REJECTED"]
        /\ UNCHANGED <<outbox, posted, logKey, pc, job>>
    BY <1>6 DEF Reject, locks, Workers
  <2>2. Grows /\ LogHeld'
    BY <1>1, <2>1, NotNone DEF Grows, TablesTyped, EventIngestionLog, Inv, LogHeld
  <2>3. Happened'
    BY <2>1, <2>2 DEF Inv, Happened, Grows, Events
  <2>4. ASSUME NEW t \in Workers PROVE Spared(t)
    <3>1. t # None /\ DOMAIN ingested = External
      BY <1>1, NotNone DEF TablesTyped
    <3>2. ASSUME NEW y \in External, InLog(t, y) PROVE InLog(t, y)'
      BY <2>1, <3>1, <3>2, NotNone DEF InLog, EventIngestionLog
    <3> QED
      BY <2>1, <3>2 DEF Spared
  <2>5. Knows(c)'
    <3>1. job[c].claimed \subseteq Internal
      BY <1>1, <2>1 DEF JobsTyped, JobRow
    <3> QED
      BY <1>1, <2>1, <2>2, <2>4, <3>1, OthersKnow
  <2> QED
    BY <2>1, <2>2, <2>3, <2>4, <2>5, Keeps
<1>7. ASSUME NEW w \in Workers, Fault(w) \/ Crash(w)
      PROVE  Goal
  <2>1. CASE Fault(w)
    BY <2>1, FailKnows, QuietKeeps DEF Fault, Fail, rows, Working
  <2>2. CASE Crash(w)
    BY <2>2, EndKnows, QuietKeeps DEF Crash, End, rows
  <2> QED
    BY <1>7, <2>1, <2>2
<1>8. ASSUME UNCHANGED <<outbox, ingested, posted, logKey, pc, job>>
      PROVE  Goal
  BY <1>1, <1>8 DEF Knows, InLog, FiringOf, Inv, LogHeld, Happened
<1>9. CASE Reconfigure
  BY <1>8, <1>9 DEF Reconfigure, locks
<1>10. CASE UNCHANGED vars
  BY <1>8, <1>10 DEF vars, rows, locks
<1>11. ASSUME NEW w \in Workers, Step(w)
       PROVE  Goal
  BY <1>11, StepKnows DEF Inv
<1> HIDE DEF Goal
<1>12. Goal
  BY <1>2, <1>3, <1>4, <1>5, <1>6, <1>7, <1>9, <1>10, <1>11 DEF Next, Goal
<1> QED
  BY <1>12 DEF Goal

LEMMA StartKnown == Init => Inv
<1> SUFFICES ASSUME Init PROVE Inv
  OBVIOUS
<1>1. /\ pc = [w \in Workers |-> "idle"] /\ job = [w \in Workers |-> IdleJob]
      /\ posted = [f \in Firings |-> None] /\ logKey = [x \in External |-> None]
  BY DEF Init
<1>2. TypeOK
  <2>1. TablesTyped /\ ConfigTyped
    BY RewardsAssumption DEF Init, NoRows, TablesTyped, ConfigTyped
  <2>2. LocksTyped
    BY DEF Init, LocksTyped
  <2>3. JobsTyped
    BY <1>1, IdleTyped DEF JobsTyped, Labels
  <2>4. faults \in 0..MaxFaults
    BY RewardsAssumption DEF Init
  <2> QED
    BY <2>1, <2>2, <2>3, <2>4, TypeParts
<1>3. \A w \in Workers : Knows(w)
  BY <1>1 DEF Knows, IdleJob, Working
<1>4. LogHeld /\ Happened
  BY <1>1 DEF LogHeld, Happened, Firings
<1> QED
  BY <1>2, <1>3, <1>4 DEF Inv

\* In every reachable state the tables, the locks and the locals of the
\* workers are typed, a worker's event was committed, or will be by its own
\* next commit, and only committed events are paid for.
THEOREM Invariance == Spec => []Inv
<1>1. Inv /\ [Next]_vars => Inv'
  <2> SUFFICES ASSUME Inv, [Next]_vars PROVE Inv'
    OBVIOUS
  <2> QED
    BY StaysTyped, NextKnows DEF Inv
<1> QED
  BY <1>1, StartKnown, PTL DEF Spec

\* The rewards pipeline keeps its tables well-formed: no row without its
\* columns, no balance of the cashback wallet below zero, no lock held by a
\* worker that cannot hold it.
THEOREM TypeCorrect == Spec => []TypeOK
<1>1. Inv => TypeOK
  BY DEF Inv
<1> QED
  BY <1>1, Invariance, PTL

-----------------------------------------------------------------------------
(* The pipeline implements its promise                                     *)

\* How far an event has come, as RewardOnce sees it.
Stage ==
    [e \in Events |->
        IF e \in Internal THEN IF outbox[e] = None THEN "unknown" ELSE "open"
        ELSE IF ingested[e] = "REJECTED" THEN "closed" ELSE "open"]

LEMMA StageKept ==
    ASSUME \A e \in Internal : outbox'[e] = None <=> outbox[e] = None,
           \A x \in External : ingested'[x] = "REJECTED" <=> ingested[x] = "REJECTED"
    PROVE  Stage' = Stage
BY DEF Stage, Events

\* A commit never turns an event away.
LEMMA CommitStage ==
    ASSUME Inv, NEW w \in Workers, CommitStaged(w)
    PROVE  \A x \in External : ingested'[x] = "REJECTED" <=> ingested[x] = "REJECTED"
<1>1. \A x \in External : ingested'[x] = IF logKey[x] = w THEN "PROCESSED" ELSE ingested[x]
  BY DEF CommitStaged
<1>2. \A x \in External : logKey[x] = w => ingested[x] = None
  BY NotNone DEF Inv, LogHeld
<1> QED
  BY <1>1, <1>2, NotNone DEF EventIngestionLog

\* Every step of the pipeline is a step of the promise, or none.
LEMMA StepPromised ==
    ASSUME Inv, [Next]_vars
    PROVE  [Once!OnceNext]_<<Stage, posted, rewardEvents>>
<1> DEFINE Goal == [Once!OnceNext]_<<Stage, posted, rewardEvents>>
<1>1. /\ JobsTyped /\ TablesTyped /\ (\A t \in Workers : Knows(t)) /\ Happened
      /\ DOMAIN outbox = Internal /\ DOMAIN ingested = External
  BY TypeParts DEF Inv, TablesTyped
<1>2. ASSUME UNCHANGED <<outbox, ingested, posted, rewardEvents>>
      PROVE  Goal
  BY <1>2, StageKept
<1>3. ASSUME NEW h \in Handlers, NEW e \in Internal, Pay(h, e)
      PROVE  Goal
  <2>1. /\ outbox[e] = None /\ UNCHANGED <<ingested, posted, rewardEvents>>
        /\ outbox' = [outbox EXCEPT ![e] = [status |-> "PENDING", attempts |-> 0]]
    BY <1>3 DEF Pay
  <2>2. [status |-> "PENDING", attempts |-> 0] # None
    BY NotNone DEF RewardOutbox
  <2>3. e \in Events /\ Stage[e] = "unknown" /\ Stage' = [Stage EXCEPT ![e] = "open"]
    BY <1>1, <2>1, <2>2 DEF Stage, Events
  <2>4. Once!Open(e)
    BY <2>1, <2>3 DEF Once!Open, Stage
  <2> QED
    BY <2>3, <2>4 DEF Once!OnceNext
<1>4. ASSUME NEW c \in Consumers, NEW x \in External, Reject(c, x)
      PROVE  Goal
  <2>1. /\ ingested[x] = None /\ UNCHANGED <<outbox, posted, rewardEvents>>
        /\ ingested' = [ingested EXCEPT ![x] = "REJECTED"]
    BY <1>4 DEF Reject
  <2>2. x \in Events /\ x \notin Internal
    BY RewardsAssumption DEF Events
  <2>3. Stage[x] = "open" /\ Stage' = [Stage EXCEPT ![x] = "closed"]
    BY <1>1, <2>1, <2>2, NotNone DEF Stage, EventIngestionLog, Events
  <2>4. \A r \in Rules : posted[<<r, x>>] = None
    BY <1>1, <2>1, <2>2, NotNone DEF Happened, EventIngestionLog
  <2>5. Once!Close(x)
    BY <2>1, <2>3, <2>4 DEF Once!Close, Stage
  <2> QED
    BY <2>2, <2>5 DEF Once!OnceNext
<1>5. ASSUME NEW w \in Workers, Post(w)
      PROVE  Goal
  <2>1. /\ pc[w] = "post" /\ job[w].rule \in Rules /\ job[w].event \in Events
        /\ job[w].amount \in RewardAmounts(job[w].rule) /\ FiringOf(w) \in Firings
    BY <1>1, <1>5 DEF Post, Knows, FiringOf, Firings, Working, Events
  <2>2. CASE UNCHANGED rows
    BY <1>2, <2>2 DEF rows
  <2>3. CASE /\ posted[FiringOf(w)] = None
             /\ posted' = [posted EXCEPT ![FiringOf(w)] = job[w].amount]
             /\ CommitStaged(w) /\ UNCHANGED <<outbox, rewardEvents>>
    <3>1. Stage' = Stage
      BY <2>3, CommitStage, StageKept
    <3>2. Stage[job[w].event] = "open"
      BY <1>1, <2>1, NotNone, RewardsAssumption
         DEF Stage, Knows, InLog, Working, EventIngestionLog, Events
    <3>3. job[w].amount \in Amounts /\ FiringOf(w)[2] = job[w].event
      BY <2>1, NotNone DEF FiringOf
    <3>4. Once!PayOnce(FiringOf(w), job[w].amount)
      BY <2>3, <3>1, <3>2, <3>3 DEF Once!PayOnce, Stage
    <3> QED
      BY <2>1, <3>3, <3>4 DEF Once!OnceNext, Firings, Once!Firings
  <2> QED
    BY <1>5, <2>2, <2>3 DEF Post, Fail
<1>6. ASSUME NEW w \in Workers, Record(w)
      PROVE  Goal
  <2>1. /\ job[w].amount \in RewardAmounts(job[w].rule) /\ job[w].rule \in Rules
        /\ FiringOf(w) \in Firings /\ posted[FiringOf(w)] # None
    BY <1>1, <1>6 DEF Record, Knows, FiringOf, Firings, Working, Events
  <2>2. CASE UNCHANGED rows
    BY <1>2, <2>2 DEF rows
  <2>3. CASE /\ rewardEvents[FiringOf(w)] = None
             /\ rewardEvents' = [rewardEvents EXCEPT ![FiringOf(w)] = job[w].amount]
             /\ CommitStaged(w) /\ UNCHANGED <<outbox, posted, funds>>
    <3>1. Stage' = Stage
      BY <2>3, CommitStage, StageKept
    <3>2. Once!LogOnce(FiringOf(w), job[w].amount) /\ job[w].amount \in Amounts
      BY <2>1, <2>3, <3>1, NotNone DEF Once!LogOnce, Stage
    <3> QED
      BY <2>1, <3>2 DEF Once!OnceNext, Firings, Once!Firings
  <2> QED
    BY <1>6, <2>2, <2>3 DEF Record, Fail
<1>7. ASSUME NEW w \in Workers, RecordFailure(w) \/ Finish(w)
      PROVE  Goal
  <2>1. UNCHANGED <<posted, rewardEvents>>
    BY <1>7 DEF RecordFailure, Finish
  <2>2. \A x \in External : ingested'[x] = "REJECTED" <=> ingested[x] = "REJECTED"
    BY <1>7, CommitStage DEF RecordFailure, Finish
  <2>3. \A e \in Internal : outbox'[e] = None <=> outbox[e] = None
    <3>1. CASE outbox' = outbox
      BY <3>1
    <3>2. ASSUME NEW row, row # None, outbox' = [outbox EXCEPT ![job[w].event] = row],
                 job[w].event \in Internal, outbox[job[w].event] # None
          PROVE  \A e \in Internal : outbox'[e] = None <=> outbox[e] = None
      BY <1>1, <3>2
    <3>3. CASE RecordFailure(w)
      <4>1. /\ job[w].event \in Internal /\ outbox[job[w].event] # None
            /\ outbox' = [outbox EXCEPT ![job[w].event] = Failed(outbox[job[w].event])]
        BY <1>1, <3>3 DEF RecordFailure, Knows, Working
      <4>2. Failed(outbox[job[w].event]) # None
        BY <1>1, <4>1, NotNone DEF TablesTyped, RewardOutbox, Failed
      <4> QED
        BY <3>2, <4>1, <4>2
    <3>4. CASE Finish(w) /\ outbox' # outbox
      <4>1. /\ job[w].event \in Internal /\ outbox[job[w].event] # None
            /\ outbox' = [outbox EXCEPT ![job[w].event] =
                              [outbox[job[w].event] EXCEPT !.status = "PROCESSED"]]
        BY <1>1, <3>4 DEF Finish, Knows, Working
      <4>2. [outbox[job[w].event] EXCEPT !.status = "PROCESSED"] # None
        BY <1>1, <4>1, NotNone DEF TablesTyped, RewardOutbox
      <4> QED
        BY <3>2, <4>1, <4>2
    <3> QED
      BY <1>7, <3>1, <3>3, <3>4
  <2> QED
    BY <2>1, <2>2, <2>3, StageKept
<1>8. ASSUME NEW w \in Workers, Step(w)
      PROVE  Goal
  <2>1. Post(w) \/ Record(w) \/ RecordFailure(w) \/ Finish(w) \/ UNCHANGED rows
    BY <1>8 DEF Step, DrainRow, EvaluateRule, SkipIssued, CheckBudgets, Drained, InsertWakes, Fail
  <2> QED
    BY <1>2, <1>5, <1>6, <1>7, <2>1 DEF rows
<1>9. \/ \E h \in Handlers, e \in Internal : Pay(h, e)
      \/ \E c \in Consumers, x \in External : Reject(c, x)
      \/ \E w \in Workers : Step(w)
      \/ UNCHANGED <<outbox, ingested, posted, rewardEvents>>
  BY DEF Next, vars, rows, ClaimPending, Sweep, Claim, Deliver, Fault, Fail, Crash, Reconfigure
<1> HIDE DEF Goal
<1>10. Goal
  BY <1>2, <1>3, <1>4, <1>8, <1>9
<1> QED
  BY <1>10 DEF Goal

LEMMA StartPromised == Init => Once!OnceInit
<1> SUFFICES ASSUME Init PROVE Once!OnceInit
  OBVIOUS
<1>1. Stage \in [Events -> {"unknown", "open"}]
  BY NotNone DEF Init, Stage, Events, EventIngestionLog
<1> QED
  BY <1>1 DEF Init, Stage, Once!OnceInit, Firings, Once!Firings

\* A firing is paid at most once, with an amount that never changes, for an
\* event that happened and was not turned away, and recorded at most once and
\* only when paid: whatever interleaves, fails, is retried or redelivered.
THEOREM Implements == Spec => OnceSpec
<1>1. Inv /\ [Next]_vars => [Once!OnceNext]_<<Stage, posted, rewardEvents>>
  BY StepPromised
<1> QED
  BY <1>1, StartPromised, Invariance, PTL DEF Spec, OnceSpec, Once!OnceSpec, Stage

-----------------------------------------------------------------------------
(* The reward history                                                      *)

\* What one worker does.
Acts(w) ==
    \/ ClaimPending(w) \/ Sweep(w)
    \/ \E e \in Internal : Pay(w, e)
    \/ w \in Consumers /\ \E x \in External : Deliver(w, x) \/ Reject(w, x)
    \/ Step(w) \/ Fault(w) \/ Crash(w)

LEMMA SomebodyActs ==
    ASSUME [Next]_vars
    PROVE  \/ \E w \in Workers : Acts(w)
           \/ UNCHANGED <<outbox, ingested, progress, stale, posted, rewardEvents, locks, pc, job, faults>>
BY DEF Next, Acts, Workers, Reconfigure, vars, rows, locks

\* A worker acts on its own locals only.
LEMMA Alone ==
    ASSUME JobsTyped, NEW w \in Workers, Acts(w)
    PROVE  \A t \in Workers \ {w} : pc'[t] = pc[t] /\ job'[t] = job[t]
<1>1. DOMAIN pc = Workers /\ DOMAIN job = Workers
  BY DEF JobsTyped
<1>2. (\E label : pc' = [pc EXCEPT ![w] = label]) \/ pc' = pc
  BY DEF Acts, ClaimPending, Sweep, Claim, Pay, Deliver, Reject, Step, Fault, Crash, DrainRow,
         EvaluateRule, Decide, SkipIssued, CheckBudgets, Drained, RecordFailure, InsertWakes,
         Post, Record, Finish, End, Fail, Goto
<1>3. (\E j : job' = [job EXCEPT ![w] = j]) \/ job' = job
  BY DEF Acts, ClaimPending, Sweep, Claim, Pay, Deliver, Reject, Step, Fault, Crash, DrainRow,
         EvaluateRule, Decide, SkipIssued, CheckBudgets, Drained, RecordFailure, InsertWakes,
         Post, Record, Finish, End, Fail
<1>4. \A t \in Workers \ {w} : pc'[t] = pc[t]
  BY <1>1, <1>2
<1>5. \A t \in Workers \ {w} : job'[t] = job[t]
  BY <1>1, <1>3
<1> QED
  BY <1>4, <1>5

\* A worker that has paid records the firing next, or something fails.
LEMMA RecordNext ==
    ASSUME NEW w \in Workers, pc[w] = "record", Acts(w)
    PROVE  Record(w) \/ Fault(w) \/ Crash(w)
BY DEF Acts, ClaimPending, Sweep, Pay, Deliver, Reject, Step, DrainRow,
       EvaluateRule, SkipIssued, CheckBudgets, Drained, RecordFailure, InsertWakes,
       Post, Finish

\* The history shows payments only, with a reward of the rule, and without a
\* fault all of them but those about to be recorded.
Recorded ==
    /\ \A f \in Firings :
           rewardEvents[f] # None => rewardEvents[f] \in RewardAmounts(f[1]) /\ posted[f] # None
    /\ faults = 0 =>
           \A f \in Firings : posted[f] # None =>
               \/ rewardEvents[f] # None
               \/ \E w \in Workers : pc[w] = "record" /\ FiringOf(w) = f

\* Payments appear with a posting and history rows with a recording, one at a
\* time.
LEMMA PaymentsMade ==
    ASSUME Inv, [Next]_vars
    PROVE  \/ UNCHANGED <<posted, rewardEvents>>
           \/ \E w \in Workers :
                  /\ Post(w) /\ pc'[w] = "record" /\ FiringOf(w)' = FiringOf(w)
                  /\ posted' = [posted EXCEPT ![FiringOf(w)] = job[w].amount]
                  /\ UNCHANGED rewardEvents
           \/ \E w \in Workers :
                  /\ Record(w) /\ UNCHANGED posted
                  /\ rewardEvents' = [rewardEvents EXCEPT ![FiringOf(w)] = job[w].amount]
<1>1. JobsTyped
  BY TypeParts DEF Inv
<1>2. ASSUME NEW w \in Workers, Post(w), ~UNCHANGED <<posted, rewardEvents>>
      PROVE  /\ pc'[w] = "record" /\ FiringOf(w)' = FiringOf(w)
             /\ posted' = [posted EXCEPT ![FiringOf(w)] = job[w].amount]
             /\ UNCHANGED rewardEvents
  <2>1. /\ posted' = [posted EXCEPT ![FiringOf(w)] = job[w].amount]
        /\ job' = [job EXCEPT ![w].staged = NoRows] /\ pc' = [pc EXCEPT ![w] = "record"]
        /\ UNCHANGED rewardEvents
    BY <1>2 DEF Post, Fail, rows, Goto
  <2>2. job'[w].rule = job[w].rule /\ job'[w].event = job[w].event
    BY <1>1, <2>1 DEF JobsTyped, JobRow
  <2> QED
    BY <1>1, <2>1, <2>2 DEF JobsTyped, FiringOf
<1>3. ASSUME NEW w \in Workers, Record(w), ~UNCHANGED <<posted, rewardEvents>>
      PROVE  /\ UNCHANGED posted
             /\ rewardEvents' = [rewardEvents EXCEPT ![FiringOf(w)] = job[w].amount]
  BY <1>3 DEF Record, Fail, rows
<1>4. \/ \E w \in Workers : Post(w) \/ Record(w)
      \/ UNCHANGED <<posted, rewardEvents>>
  <2>1. ASSUME NEW w \in Workers, Step(w)
        PROVE  Post(w) \/ Record(w) \/ UNCHANGED <<posted, rewardEvents>>
    BY <2>1 DEF Step, rows, DrainRow, EvaluateRule, SkipIssued, CheckBudgets, Drained,
                RecordFailure, InsertWakes, Finish, Fail
  <2>2. ASSUME NEW w \in Workers, Acts(w), ~Step(w)
        PROVE  UNCHANGED <<posted, rewardEvents>>
    BY <2>2 DEF Acts, rows, ClaimPending, Pay, Sweep, Claim, Deliver, Reject, Fault, Fail, Crash
  <2> QED
    BY <2>1, <2>2, SomebodyActs
<1> QED
  BY <1>2, <1>3, <1>4

LEMMA StaysRecorded == ASSUME Inv, Inv', Recorded, [Next]_vars PROVE Recorded'
<1>1. /\ JobsTyped /\ TablesTyped /\ (\A t \in Workers : Knows(t)) /\ faults \in 0..MaxFaults
      /\ posted' \in [Firings -> {None} \cup Amounts]
  BY TypeParts DEF Inv, TypeOK
<1>2. ASSUME NEW w \in Workers, Record(w) \/ Post(w)
      PROVE  /\ FiringOf(w) \in Firings /\ job[w].amount \in RewardAmounts(FiringOf(w)[1])
             /\ job[w].amount # None
             /\ Record(w) => posted[FiringOf(w)] # None
  <2>1. pc[w] \in {"post", "record"} /\ (Record(w) => pc[w] = "record")
    BY <1>2 DEF Post, Record
  <2> QED
    BY <1>1, <2>1, NotNone DEF Knows, Working, FiringOf, Firings, Events
<1>3. \A f \in Firings : posted[f] # None => posted'[f] # None
  BY <1>1, <1>2, PaymentsMade DEF TablesTyped
<1>4. \A f \in Firings : rewardEvents[f] # None => rewardEvents'[f] = rewardEvents[f]
  <2>1. ASSUME NEW w \in Workers, Record(w),
               rewardEvents' = [rewardEvents EXCEPT ![FiringOf(w)] = job[w].amount],
               rewardEvents[FiringOf(w)] # None
        PROVE  UNCHANGED rewardEvents
    BY <2>1 DEF Record, Fail, rows
  <2> QED
    BY <1>1, <1>2, <2>1, PaymentsMade DEF TablesTyped
<1>5. \A f \in Firings : rewardEvents'[f] # None =>
          rewardEvents'[f] \in RewardAmounts(f[1]) /\ posted'[f] # None
  <2> SUFFICES ASSUME NEW f \in Firings, rewardEvents'[f] # None
               PROVE  rewardEvents'[f] \in RewardAmounts(f[1]) /\ posted'[f] # None
    OBVIOUS
  <2>1. CASE rewardEvents[f] # None
    BY <1>3, <1>4, <2>1 DEF Recorded
  <2>2. CASE rewardEvents[f] = None
    <3>1. PICK w \in Workers :
             /\ Record(w) /\ UNCHANGED posted
             /\ rewardEvents' = [rewardEvents EXCEPT ![FiringOf(w)] = job[w].amount]
      BY <2>2, PaymentsMade
    <3>2. f = FiringOf(w) /\ rewardEvents'[f] = job[w].amount
      BY <1>1, <2>2, <3>1 DEF TablesTyped
    <3> QED
      BY <1>2, <3>1, <3>2
  <2> QED
    BY <2>1, <2>2
<1>6. ASSUME faults' = 0, NEW f \in Firings, posted'[f] # None, rewardEvents'[f] = None
      PROVE  \E t \in Workers : pc'[t] = "record" /\ FiringOf(t)' = f
  <2>1. faults = 0 /\ \A w \in Workers : ~Fault(w) /\ ~Crash(w)
    <3>1. \A w \in Workers : Fault(w) \/ Crash(w) => faults' = faults + 1
      BY DEF Fault, Crash
    <3>2. faults' \in {faults, faults + 1}
      <4>1. ASSUME NEW w \in Workers, Step(w)
            PROVE  faults' = faults
        <5>1. CASE \E e \in Internal : DrainRow(w, e)
          BY <5>1 DEF DrainRow
        <5>2. CASE \E r \in Rules : EvaluateRule(w, r) \/ SkipIssued(w, r)
          BY <5>2 DEF EvaluateRule, SkipIssued
        <5>3. CASE \E r \in Rules, n \in Amounts : CheckBudgets(w, r, n)
          BY <5>3 DEF CheckBudgets
        <5>4. CASE Drained(w) \/ RecordFailure(w) \/ InsertWakes(w)
          BY <5>4 DEF Drained, RecordFailure, InsertWakes
        <5>5. CASE Post(w) \/ Record(w) \/ Finish(w)
          BY <5>5 DEF Finish, Post, Record
        <5> QED
          BY <4>1, <5>1, <5>2, <5>3, <5>4, <5>5 DEF Step
      <4>2. \A w \in Workers : Acts(w) => Step(w) \/ faults' \in {faults, faults + 1}
        BY DEF Acts, ClaimPending, Pay, Sweep, Claim, Deliver, Reject, Fault, Crash
      <4> QED
        BY <4>1, <4>2, SomebodyActs
    <3> QED
      BY <1>1, <1>6, <3>1, <3>2
  <2>2. CASE posted[f] = None
    <3>1. PICK w \in Workers :
             /\ Post(w) /\ pc'[w] = "record" /\ FiringOf(w)' = FiringOf(w)
             /\ posted' = [posted EXCEPT ![FiringOf(w)] = job[w].amount]
      BY <1>6, <2>2, PaymentsMade
    <3>2. f = FiringOf(w)
      BY <1>1, <1>6, <2>2, <3>1 DEF TablesTyped
    <3> QED
      BY <3>1, <3>2
  <2>3. CASE posted[f] # None
    <3>1. PICK t \in Workers : pc[t] = "record" /\ FiringOf(t) = f
      BY <1>4, <1>6, <2>1, <2>3 DEF Recorded
    <3>2. ~Record(t)
      <4>1. SUFFICES ASSUME Record(t) PROVE rewardEvents'[f] # None
        BY <1>6
      <4>2. CASE rewardEvents[f] # None
        BY <1>4, <4>2
      <4>3. CASE rewardEvents[f] = None
        <5>1. rewardEvents' = [rewardEvents EXCEPT ![f] = job[t].amount]
          BY <3>1, <4>1, <4>3 DEF Record
        <5> QED
          BY <1>1, <1>2, <4>1, <5>1 DEF TablesTyped
      <4> QED
        BY <4>2, <4>3
    <3>3. ~Acts(t)
      BY <2>1, <3>1, <3>2, RecordNext
    <3>4. pc'[t] = pc[t] /\ job'[t] = job[t]
      BY <1>1, <3>3, Alone, SomebodyActs
    <3> QED
      BY <3>1, <3>4 DEF FiringOf
  <2> QED
    BY <2>2, <2>3
<1> QED
  BY <1>5, <1>6 DEF Recorded

\* Without a fault nothing is paid that the history does not show, except for
\* the firing a worker is about to record, and cashback is recorded exactly:
\* its amount is the rule's, whatever bonus is on for points.
THEOREM RecordedIsPaid == Spec => []PaidIsRecorded
<1>1. Init => Recorded
  BY DEF Init, Recorded
<1>2. Inv /\ Recorded => PaidIsRecorded
  <2> SUFFICES ASSUME Inv, Recorded, NEW f \in Firings
               PROVE  /\ posted[f] # None /\ faults = 0
                             => \/ rewardEvents[f] # None
                                \/ \E w \in Workers : pc[w] = "record" /\ FiringOf(w) = f
                      /\ Rule[f[1]].pays = "cashback" /\ rewardEvents[f] # None
                             => rewardEvents[f] = posted[f]
    BY DEF PaidIsRecorded
  <2>1. f[1] \in Rules /\ f[2] \in Events /\ f = <<f[1], f[2]>>
    BY DEF Firings
  <2>2. Rule[f[1]].pays = "cashback" => \A m, n \in RewardAmounts(f[1]) : m = n
    BY DEF RewardAmounts
  <2>3. posted[f] # None => posted[f] \in RewardAmounts(f[1])
    BY <2>1 DEF Inv, Happened
  <2> QED
    BY <2>2, <2>3 DEF Recorded
<1> QED
  BY <1>1, <1>2, StaysRecorded, Invariance, PTL DEF Spec

-----------------------------------------------------------------------------
(* One payment per first-time rule                                         *)

\* A first-time rule without a minimum amount: the event that inserts the
\* user's row of it is the one it pays for.
OneTime(r) == Rule[r].kind = "first_time" /\ Rule[r].minAmount = None

LEMMA FreshTyped == FreshProgress \in UserRuleProgress
BY DEF FreshProgress, UserRuleProgress

\* Such a rule fires on a fresh row, which it completes, and never again.
LEMMA OneTimeFires ==
    ASSUME NEW r \in Rules, OneTime(r), NEW ev \in [type: STRING, amount: Nat, at: Nat], NEW txns
    PROVE  /\ Evaluate(Rule[r], FreshProgress, ev, txns).fires
           /\ Evaluate(Rule[r], FreshProgress, ev, txns).row.status = "COMPLETED"
           /\ Evaluate(Rule[r], FreshProgress, ev, txns).row # None
           /\ \A p \in UserRuleProgress : p.status = "COMPLETED" =>
                  /\ ~Evaluate(Rule[r], p, ev, txns).fires
                  /\ Evaluate(Rule[r], p, ev, txns).row = p
<1> DEFINE done == [FreshProgress EXCEPT !.triggers = 1, !.lastAt = ev.at, !.status = "COMPLETED"]
<1>1. Evaluate(Rule[r], FreshProgress, ev, txns) = Firing(done)
  BY DEF OneTime, Evaluate, Dispatch, FirstTime, OneShot, FreshProgress
<1>2. \A p \in UserRuleProgress : p.status = "COMPLETED" => Evaluate(Rule[r], p, ev, txns) = Quiet(p)
  BY DEF Evaluate
<1>3. Firing(done).fires /\ Firing(done).row = done /\ done.status = "COMPLETED"
  BY DEF Firing, FreshProgress
<1>4. \A p : ~Quiet(p).fires /\ Quiet(p).row = p
  BY DEF Quiet
<1>5. done # None
  <2>1. done \in UserRuleProgress
    <3>1. ev.at \in Int \cup {None} /\ 1 \in Nat
      OBVIOUS
    <3> QED
      BY <3>1, FreshTyped DEF UserRuleProgress
  <2> HIDE DEF done
  <2> QED
    BY <2>1, NotNone
<1> HIDE DEF done
<1> QED
  BY <1>1, <1>2, <1>3, <1>4, <1>5

\* The first of a set of rules is one of them.
LEMMA FirstIsOne == ASSUME NEW S \in SUBSET Rules, S # {} PROVE FirstOf(S) \in S
<1> DEFINE T == {Rank[r] : r \in S}
<1>1. Rank \in [Rules -> Nat]
  BY RewardsAssumption
<1>2. T \subseteq Nat /\ T # {}
  BY <1>1
<1>3. PICK n \in T : \A m \in T : <<m, n>> \notin OpToRel(<, Nat)
  <2> HIDE DEF T
  <2> QED
    BY <1>2, NatLessThanWellFounded, WFMin
<1>4. \A m \in T : n <= m
  <2>1. \A m, k \in Nat : m < k => <<m, k>> \in OpToRel(<, Nat)
    BY DEF OpToRel
  <2> HIDE DEF T
  <2>2. \A m \in T : ~(m < n)
    BY <1>2, <1>3, <2>1, Zenon
  <2> QED
    BY <1>2, <2>2
<1>5. \E r \in S : \A q \in S : Rank[r] <= Rank[q]
  BY <1>3, <1>4
<1> QED
  BY <1>5 DEF FirstOf

\* The rules a worker has left to evaluate, and the firings it has left to
\* issue, are of its event; it issues when none is left to evaluate.
Disciplined(w) ==
    /\ job[w].left \cup job[w].firings
           \subseteq (IF pc[w] \in Working THEN Candidates(job[w].event) ELSE {})
    /\ pc[w] \notin Working => job[w].staged = NoRows
    /\ pc[w] = "insert" => job[w].rule \in job[w].left
    /\ pc[w] \in {"issue", "post", "record"} => job[w].left = {}
    /\ pc[w] \in {"post", "record"} => job[w].rule \in job[w].firings

LEMMA IdleDisciplined ==
    ASSUME NEW w \in Workers, pc'[w] \notin Working, job'[w].left = {}, job'[w].firings = {},
           job'[w].staged = NoRows
    PROVE  Disciplined(w)'
BY DEF Disciplined, Working

\* After a failure, or at its end, a session holds nothing back.
LEMMA DoneDisciplined ==
    ASSUME Inv, NEW w \in Workers, End(w) \/ Fail(w)
    PROVE  /\ Disciplined(w)' /\ pc'[w] \notin Working
           /\ job'[w].staged = NoRows /\ job'[w].firings = {}
<1>1. LocksTyped /\ JobsTyped
  BY TypeParts DEF Inv
<1>2. job'[w] \in {IdleJob, FailedJob(w)} /\ pc'[w] \in {"idle", "failed"}
  BY <1>1, EndTyped, FailTyped
<1>3. \A j \in {IdleJob, FailedJob(w)} : j.left = {} /\ j.firings = {} /\ j.staged = NoRows
  <2>1. IdleJob.left = {} /\ IdleJob.firings = {} /\ IdleJob.staged = NoRows
    BY DEF IdleJob
  <2>2. /\ FailedJob(w).left = {} /\ FailedJob(w).firings = {} /\ FailedJob(w).staged = NoRows
    BY <2>1, IdleTyped DEF FailedJob, JobRow
  <2> QED
    BY <2>1, <2>2
<1>4. job'[w].left = {} /\ job'[w].firings = {} /\ job'[w].staged = NoRows
  BY <1>2, <1>3
<1> QED
  BY <1>2, <1>4, IdleDisciplined DEF Working

LEMMA DecideDisciplined ==
    ASSUME Inv, NEW w \in Workers, NEW r \in Rules, NEW row \in UserRuleProgress,
           pc[w] \in {"evaluate", "insert"}, r \in job[w].left, Disciplined(w), Decide(w, r, row)
    PROVE  Disciplined(w)'
<1>1. TablesTyped /\ JobsTyped /\ Knows(w) /\ job[w] \in JobRow
  BY TypeParts DEF Inv, JobsTyped
<1>2. job[w].event \in Events
  BY <1>1 DEF Knows, Working, Events
<1>3. /\ job'[w] = Decided(w, r, row)
      /\ pc'[w] = IF job[w].left \ {r} = {} THEN "issue" ELSE "evaluate"
  BY <1>1, <1>2, DecideTyped
<1>4. /\ job'[w].left = job[w].left \ {r} /\ job'[w].event = job[w].event
      /\ job'[w].firings \subseteq job[w].firings \cup {r}
  BY <1>1, <1>3 DEF Decided, JobRow
<1> QED
  BY <1>3, <1>4 DEF Disciplined, Working

LEMMA StaysDisciplined ==
    ASSUME Inv, NEW w \in Workers, Disciplined(w), Acts(w)
    PROVE  Disciplined(w)'
<1>1. /\ JobsTyped /\ TablesTyped /\ Knows(w) /\ job[w] \in JobRow
      /\ DOMAIN pc = Workers /\ DOMAIN job = Workers
  BY TypeParts DEF Inv, JobsTyped
<1>2. ASSUME End(w) \/ Fail(w)
      PROVE  Disciplined(w)'
  BY <1>2, DoneDisciplined
<1>3. ASSUME NEW S, Claim(w, S)
      PROVE  Disciplined(w)'
  <2>1. pc'[w] = "drain" /\ job'[w].left = {} /\ job'[w].firings = {} /\ job'[w].staged = NoRows
    BY <1>1, <1>3 DEF Claim, Goto, IdleJob
  <2> QED
    BY <2>1, IdleDisciplined DEF Working
<1>4. ASSUME NEW e, Pay(w, e) \/ Reject(w, e)
      PROVE  Disciplined(w)'
  <2>1. pc[w] \notin Working /\ pc'[w] \notin Working /\ job' = job
    BY <1>1, <1>4 DEF Pay, Reject, Goto, Working
  <2> QED
    BY <2>1 DEF Disciplined, Working
<1>5. ASSUME NEW x \in External, Deliver(w, x)
      PROVE  Disciplined(w)'
  <2>1. /\ pc' = [pc EXCEPT ![w] = IF Candidates(x) = {} THEN "issue" ELSE "evaluate"]
        /\ job' = [job EXCEPT ![w] = [IdleJob EXCEPT !.event = x, !.left = Candidates(x)]]
    BY <1>5 DEF Deliver, Goto
  <2>2. /\ pc'[w] = (IF Candidates(x) = {} THEN "issue" ELSE "evaluate") /\ job'[w].event = x
        /\ job'[w].left = Candidates(x) /\ job'[w].firings = {}
    BY <1>1, <2>1 DEF IdleJob
  <2> QED
    BY <2>2 DEF Disciplined, Working
<1>6. ASSUME NEW e \in Internal, DrainRow(w, e)
      PROVE  Disciplined(w)'
  <2>1. /\ pc[w] = "drain"
        /\ pc' = [pc EXCEPT ![w] = IF Candidates(e) = {} THEN "issue" ELSE "evaluate"]
        /\ job' = [job EXCEPT ![w] = [job[w] EXCEPT !.claimed = job[w].claimed \ {e},
                                                    !.event = e, !.left = Candidates(e)]]
    BY <1>6 DEF DrainRow, Goto
  <2>2. /\ pc'[w] = (IF Candidates(e) = {} THEN "issue" ELSE "evaluate") /\ job'[w].event = e
        /\ job'[w].left = Candidates(e) /\ job'[w].firings = job[w].firings
    BY <1>1, <2>1 DEF JobRow
  <2>3. job[w].firings = {}
    BY <2>1 DEF Disciplined, Working
  <2> QED
    BY <2>2, <2>3 DEF Disciplined, Working
<1>7. ASSUME NEW r \in Rules, EvaluateRule(w, r)
      PROVE  Disciplined(w)'
  <2>1. pc[w] = "evaluate" /\ r \in job[w].left
    <3>1. job[w].left # {} /\ r = FirstOf(job[w].left) /\ job[w].left \in SUBSET Rules
      BY <1>1, <1>7 DEF EvaluateRule, JobRow
    <3> QED
      BY <1>7, <3>1, FirstIsOne DEF EvaluateRule
  <2>2. ASSUME NEW row \in UserRuleProgress, Decide(w, r, row)
        PROVE  Disciplined(w)'
    BY <2>1, <2>2, DecideDisciplined
  <2>3. CASE job' = [job EXCEPT ![w].rule = r] /\ Goto(w, "insert")
    <3>1. /\ pc'[w] = "insert" /\ job'[w].rule = r /\ job'[w].event = job[w].event
          /\ job'[w].left = job[w].left /\ job'[w].firings = job[w].firings
      BY <1>1, <2>3 DEF Goto, JobRow
    <3> QED
      BY <2>1, <3>1 DEF Disciplined, Working
  <2>4. progress[r] # None => progress[r] \in UserRuleProgress
    BY <1>1 DEF TablesTyped
  <2> QED
    BY <1>7, <2>2, <2>3, <2>4, FreshTyped DEF EvaluateRule
<1>8. ASSUME InsertWakes(w)
      PROVE  Disciplined(w)'
  <2>1. pc[w] = "insert" /\ job[w].rule \in Rules /\ job[w].rule \in job[w].left
    BY <1>1, <1>8 DEF InsertWakes, Knows, Disciplined
  <2>2. Fail(w) \/ Decide(w, job[w].rule, FreshProgress)
    BY <1>8 DEF InsertWakes
  <2> QED
    BY <1>2, <2>1, <2>2, FreshTyped, DecideDisciplined
<1>9. ASSUME NEW r \in Rules, SkipIssued(w, r)
      PROVE  Disciplined(w)'
  <2>1. pc[w] = "issue" /\ pc' = pc /\ job' = [job EXCEPT ![w].firings = job[w].firings \ {r}]
    BY <1>9 DEF SkipIssued
  <2>2. /\ job'[w].event = job[w].event /\ job'[w].left = job[w].left
        /\ job'[w].firings = job[w].firings \ {r}
    BY <1>1, <2>1 DEF JobRow
  <2> QED
    BY <2>1, <2>2 DEF Disciplined, Working
<1>10. ASSUME NEW r \in Rules, NEW n \in Amounts, CheckBudgets(w, r, n), ~Fail(w)
       PROVE  Disciplined(w)'
  <2>1. /\ pc[w] = "issue" /\ job[w].firings # {} /\ r = FirstOf(job[w].firings)
        /\ job' = [job EXCEPT ![w] = [job[w] EXCEPT !.rule = r, !.amount = n]]
        /\ pc' = [pc EXCEPT ![w] = "post"]
    BY <1>10 DEF CheckBudgets, Goto
  <2>2. r \in job[w].firings
    BY <1>1, <2>1, FirstIsOne DEF JobRow
  <2>3. /\ pc'[w] = "post" /\ job'[w].event = job[w].event /\ job'[w].left = job[w].left
        /\ job'[w].firings = job[w].firings /\ job'[w].rule = r
    BY <1>1, <2>1 DEF JobRow
  <2> QED
    BY <2>1, <2>2, <2>3 DEF Disciplined, Working
<1>11. ASSUME RecordFailure(w)
       PROVE  Disciplined(w)'
  <2>1. /\ pc[w] = "failed"
        /\ \/ job' = [job EXCEPT ![w].event = None] /\ pc' = [pc EXCEPT ![w] = "drain"]
           \/ job' = [job EXCEPT ![w] = IdleJob] /\ pc' = [pc EXCEPT ![w] = "idle"]
    BY <1>11 DEF RecordFailure, Goto
  <2>2. job[w].left = {} /\ job[w].firings = {} /\ job[w].staged = NoRows
    BY <2>1 DEF Disciplined, Working
  <2>3. /\ pc'[w] \in {"drain", "idle"} /\ job'[w].left = {} /\ job'[w].firings = {}
        /\ job'[w].staged = NoRows
    BY <1>1, <2>1, <2>2 DEF JobRow, IdleJob
  <2> QED
    BY <2>3, IdleDisciplined DEF Working
<1>12. ASSUME Post(w), ~Fail(w)
       PROVE  Disciplined(w)'
  <2>1. /\ pc[w] = "post" /\ pc' = [pc EXCEPT ![w] = "record"]
        /\ job' = job \/ job' = [job EXCEPT ![w].staged = NoRows]
    BY <1>12 DEF Post, Goto
  <2>2. /\ pc'[w] = "record" /\ job'[w].event = job[w].event /\ job'[w].left = job[w].left
        /\ job'[w].firings = job[w].firings /\ job'[w].rule = job[w].rule
    BY <1>1, <2>1 DEF JobRow
  <2> QED
    BY <2>1, <2>2 DEF Disciplined, Working
<1>13. ASSUME Record(w), ~Fail(w)
       PROVE  Disciplined(w)'
  <2>1. /\ pc[w] = "record" /\ pc' = [pc EXCEPT ![w] = "issue"]
        /\ job' = [job EXCEPT ![w] = Through(w)]
    BY <1>13 DEF Record, Goto
  <2>2. /\ pc'[w] = "issue" /\ job'[w].event = job[w].event /\ job'[w].left = job[w].left
        /\ job'[w].firings \subseteq job[w].firings
    BY <1>1, <2>1 DEF JobRow, Through
  <2> QED
    BY <2>1, <2>2 DEF Disciplined, Working
<1>14. ASSUME Finish(w)
       PROVE  Disciplined(w)'
  <2>1. \/ pc' = [pc EXCEPT ![w] = "idle"] /\ job' = [job EXCEPT ![w] = IdleJob]
        \/ /\ pc' = [pc EXCEPT ![w] = "drain"]
           /\ job' = [job EXCEPT ![w] = [IdleJob EXCEPT !.claimed = job[w].claimed]]
    BY <1>14 DEF Finish, Goto
  <2>2. /\ pc'[w] \in {"drain", "idle"} /\ job'[w].left = {} /\ job'[w].firings = {}
        /\ job'[w].staged = NoRows
    BY <1>1, <2>1 DEF IdleJob
  <2> QED
    BY <2>2, IdleDisciplined DEF Working
<1>15. Step(w) \/ Fault(w) \/ Crash(w) => Disciplined(w)'
  BY <1>2, <1>6, <1>7, <1>8, <1>9, <1>10, <1>11, <1>12, <1>13, <1>14
     DEF Step, Fault, Crash, Drained
<1>16. ASSUME Sweep(w)
       PROVE  Disciplined(w)'
  BY <1>3, <1>16 DEF Sweep
<1> QED
  BY <1>3, <1>4, <1>5, <1>15, <1>16 DEF Acts, ClaimPending

\* What is durable of a one-time rule: a completed row, without which it has
\* not been paid and no event of it settled, and one payment.
OnceTables(r) ==
    /\ progress[r] # None => progress[r].status = "COMPLETED"
    /\ progress[r] = None =>
           \A q \in Rules, e \in Events : posted[<<q, e>>] # None => q # r /\ r \notin Candidates(e)
    /\ \A e1, e2 \in Paid(r) : e1 = e2

\* What w knows of it: a row of its own is inserted but not committed, its
\* claim to pay rests on a row, and it has not missed it.
OnceLocals(w, r) ==
    /\ job[w].staged[r] # None =>
           job[w].staged[r].status = "COMPLETED" /\ progress[r] = None /\ progressKey[r] = w
    /\ progressKey[r] = w => job[w].staged[r] # None
    /\ r \in job[w].firings =>
           (progress[r] # None \/ job[w].staged[r] # None) /\ Paid(r) \subseteq {job[w].event}
    /\ pc[w] \in Working /\ r \in Candidates(job[w].event) \ job[w].left =>
           progress[r] # None \/ job[w].staged[r] # None

Sole(r) == \A w1, w2 \in Workers : r \in job[w1].firings /\ r \in job[w2].firings => w1 = w2

OnceInv(r) == OnceTables(r) /\ Sole(r) /\ \A w \in Workers : OnceLocals(w, r)

\* A step that commits nothing and takes no row from another worker.
LEMMA OnceQuiet ==
    ASSUME NEW r \in Rules, OnceInv(r), NEW w \in Workers, UNCHANGED <<progress, posted>>,
           \A t \in Workers \ {w} : /\ pc'[t] = pc[t] /\ job'[t] = job[t]
                                    /\ progressKey'[r] = t <=> progressKey[r] = t,
           r \in job'[w].firings =>
               r \in job[w].firings \/ \A t \in Workers \ {w} : r \notin job[t].firings,
           OnceLocals(w, r)'
    PROVE  OnceInv(r)'
<1>1. \A t \in Workers \ {w} : OnceLocals(t, r)'
  BY DEF OnceInv, OnceLocals, Paid
<1>2. Sole(r)'
  BY DEF OnceInv, Sole
<1>3. OnceTables(r)'
  BY DEF OnceInv, OnceTables, Paid
<1> QED
  BY <1>1, <1>2, <1>3 DEF OnceInv

\* A worker whose session is over holds nothing back.
LEMMA OnceReleased ==
    ASSUME Inv, NEW r \in Rules, OnceInv(r), NEW w \in Workers, End(w) \/ Fail(w),
           UNCHANGED <<progress, posted>>, \A t \in Workers \ {w} : pc'[t] = pc[t] /\ job'[t] = job[t]
    PROVE  OnceInv(r)'
<1>1. /\ pc'[w] \notin Working /\ job'[w].staged = NoRows /\ job'[w].firings = {}
  BY DoneDisciplined
<1>2. progressKey'[r] = IF progressKey[r] = w THEN None ELSE progressKey[r]
  BY TypeParts DEF Inv, LocksTyped, End, Fail, Unlock, Freed
<1>3. OnceLocals(w, r)'
  BY <1>1, <1>2, NotNone DEF OnceLocals, NoRows
<1> QED
  BY <1>1, <1>2, <1>3, NotNone, OnceQuiet

\* A step that leaves the rows of w alone.
LEMMA OnceMoves ==
    ASSUME NEW r \in Rules, OnceInv(r), NEW w \in Workers, UNCHANGED <<progress, posted, progressKey>>,
           \A t \in Workers \ {w} : pc'[t] = pc[t] /\ job'[t] = job[t],
           job'[w].staged[r] = job[w].staged[r],
           r \in job'[w].firings => r \in job[w].firings /\ job'[w].event = job[w].event,
           pc'[w] \in Working => \/ Candidates(job'[w].event) \subseteq job'[w].left
                                 \/ /\ pc[w] \in Working /\ job'[w].event = job[w].event
                                    /\ job'[w].left = job[w].left
    PROVE  OnceInv(r)'
<1>1. OnceLocals(w, r)'
  BY DEF OnceInv, OnceLocals, Paid
<1> QED
  BY <1>1, OnceQuiet

\* The first to decide on a one-time rule inserts its row and claims the
\* payment; whoever reads the row claims nothing.
LEMMA OnceDecided ==
    ASSUME Inv, NEW r \in Rules, OneTime(r), OnceInv(r), NEW w \in Workers, NEW q \in Rules,
           pc[w] \in {"evaluate", "insert"}, UNCHANGED <<progress, posted>>,
           \/ progress[q] # None /\ Decide(w, q, progress[q]) /\ UNCHANGED progressKey
           \/ /\ progress[q] = None /\ progressKey[q] = None /\ Decide(w, q, FreshProgress)
              /\ progressKey' = [progressKey EXCEPT ![q] = w]
    PROVE  OnceInv(r)'
<1>1. /\ JobsTyped /\ TablesTyped /\ Knows(w) /\ job[w] \in JobRow /\ DOMAIN progressKey = Rules
      /\ job[w].staged \in [Rules -> {None} \cup UserRuleProgress]
  BY TypeParts DEF Inv, JobsTyped, LocksTyped, JobRow
<1>2. job[w].event \in Events /\ Event[job[w].event] \in [type: STRING, amount: Nat, at: Nat]
  BY <1>1, RewardsAssumption DEF Knows, Working, Events
<1> DEFINE row == IF progress[q] = None THEN FreshProgress ELSE progress[q]
           made == Made(w, q, row)
<1>3. row \in UserRuleProgress /\ Decide(w, q, row)
  BY <1>1, FreshTyped DEF TablesTyped
<1> HIDE DEF row
<1>4. /\ job'[w] = Decided(w, q, row)
      /\ pc'[w] = IF job[w].left \ {q} = {} THEN "issue" ELSE "evaluate"
      /\ \A t \in Workers \ {w} : pc'[t] = pc[t] /\ job'[t] = job[t]
  <2>1. \A t \in Workers \ {w} : pc'[t] = pc[t] /\ job'[t] = job[t]
    BY <1>1, <1>3 DEF Decide, Goto, JobsTyped
  <2> QED
    BY <1>1, <1>2, <1>3, <2>1, DecideTyped
<1> HIDE DEF made
<1>5. /\ job'[w].left = job[w].left \ {q} /\ job'[w].event = job[w].event
      /\ job'[w].staged = [job[w].staged EXCEPT ![q] = IF made.row = progress[q] THEN None
                                                       ELSE made.row]
      /\ job'[w].firings = IF made.fires THEN job[w].firings \cup {q} ELSE job[w].firings
  BY <1>1, <1>4 DEF Decided, JobRow, made
<1>6. \A t \in Workers \ {w} : progressKey'[r] = t <=> progressKey[r] = t
  BY <1>1, NotNone
<1>7. CASE q # r
  <2>1. /\ job'[w].staged[r] = job[w].staged[r] /\ progressKey'[r] = progressKey[r]
        /\ r \in job'[w].firings <=> r \in job[w].firings
        /\ r \in job'[w].left <=> r \in job[w].left
    BY <1>1, <1>5, <1>7
  <2>2. OnceLocals(w, r)'
    BY <1>5, <2>1 DEF OnceInv, OnceLocals, Paid, Working
  <2> QED
    BY <1>4, <1>6, <2>1, <2>2, OnceQuiet
<1>8. CASE q = r /\ progress[r] # None
  <2>1. row = progress[r] /\ row.status = "COMPLETED"
    BY <1>8 DEF row, OnceInv, OnceTables
  <2>2. ~made.fires /\ made.row = progress[r]
    BY <1>2, <1>3, <1>8, <2>1, OneTimeFires DEF made, Made
  <2>3. job'[w].staged[r] = None /\ job'[w].firings = job[w].firings /\ progressKey' = progressKey
    BY <1>1, <1>5, <1>8, <2>2
  <2>4. OnceLocals(w, r)'
    BY <1>5, <1>8, <2>3 DEF OnceInv, OnceLocals, Paid
  <2> QED
    BY <1>4, <1>6, <2>3, <2>4, OnceQuiet
<1>9. CASE q = r /\ progress[r] = None
  <2>1. row = FreshProgress /\ progressKey'[r] = w
    BY <1>1, <1>9 DEF row
  <2>2. made.fires /\ made.row.status = "COMPLETED" /\ made.row # None
    BY <1>2, <1>9, <2>1, OneTimeFires DEF made, Made
  <2>3. job'[w].staged[r] = made.row
    BY <1>1, <1>5, <1>9, <2>2
  <2>4. Paid(r) = {} /\ \A t \in Workers : r \notin job[t].firings
    BY <1>9, NotNone DEF OnceInv, OnceTables, OnceLocals, Paid
  <2>5. OnceLocals(w, r)'
    BY <1>9, <2>1, <2>2, <2>3, <2>4 DEF OnceLocals, Paid
  <2> QED
    BY <1>4, <1>6, <2>4, <2>5, OnceQuiet
<1> QED
  BY <1>7, <1>8, <1>9

\* A commit makes the row durable with the payment, or before it.
LEMMA OnceCommitted ==
    ASSUME Inv, NEW r \in Rules, OnceInv(r), NEW w \in Workers, Disciplined(w),
           pc[w] \in {"issue", "post", "record"}, CommitStaged(w),
           \A t \in Workers \ {w} : pc'[t] = pc[t] /\ job'[t] = job[t],
           job'[w].staged = NoRows, job'[w].firings \subseteq job[w].firings,
           pc'[w] \in Working \/ job'[w].firings # {} =>
               job'[w].event = job[w].event /\ job'[w].left = job[w].left,
           \/ posted' = posted
           \/ pc[w] = "post" /\ posted' = [posted EXCEPT ![FiringOf(w)] = job[w].amount]
    PROVE  OnceInv(r)'
<1>1. /\ JobsTyped /\ TablesTyped /\ Knows(w) /\ DOMAIN progressKey = Rules /\ OnceLocals(w, r)
      /\ OnceTables(r) /\ Sole(r)
  BY TypeParts DEF Inv, LocksTyped, OnceInv
<1>2. /\ progress'[r] = IF job[w].staged[r] # None THEN job[w].staged[r] ELSE progress[r]
      /\ progressKey'[r] = IF progressKey[r] = w THEN None ELSE progressKey[r]
      /\ job'[w].staged[r] = None
  BY <1>1 DEF CommitStaged, Unlock, Freed, NoRows
<1>3. r \in Candidates(job[w].event) \/ r \in job[w].firings => progress'[r] # None
  BY <1>1, <1>2 DEF OnceLocals, Disciplined, Working
<1>4. progress[r] # None => progress'[r] # None
  BY <1>2
<1>5. ASSUME NEW q \in Rules, NEW e \in Events, posted'[<<q, e>>] # None, posted[<<q, e>>] = None
      PROVE  q = job[w].rule /\ e = job[w].event /\ q \in job[w].firings
  <2>1. pc[w] = "post" /\ posted' = [posted EXCEPT ![FiringOf(w)] = job[w].amount]
    BY <1>5
  <2>2. <<q, e>> = FiringOf(w)
    BY <1>1, <1>5, <2>1 DEF TablesTyped, Firings
  <2> QED
    BY <2>1, <2>2 DEF FiringOf, Disciplined
<1>6. \A e \in Paid(r)' : e \in Paid(r) \/ (e = job[w].event /\ r \in job[w].firings)
  BY <1>5 DEF Paid
<1>7. OnceTables(r)'
  <2>1. progress'[r] # None => progress'[r].status = "COMPLETED"
    BY <1>1, <1>2 DEF OnceTables, OnceLocals
  <2>2. ASSUME progress'[r] = None, NEW q \in Rules, NEW e \in Events, posted'[<<q, e>>] # None
        PROVE  q # r /\ r \notin Candidates(e)
    BY <1>1, <1>3, <1>4, <1>5, <2>2 DEF OnceTables
  <2>3. \A e1, e2 \in Paid(r)' : e1 = e2
    BY <1>1, <1>6 DEF OnceTables, OnceLocals
  <2> QED
    BY <2>1, <2>2, <2>3 DEF OnceTables
<1>8. Sole(r)'
  BY <1>1 DEF Sole
<1>9. OnceLocals(w, r)'
  <2>1. progressKey'[r] # w
    BY <1>2, NotNone
  <2>2. r \in job'[w].firings => progress'[r] # None /\ Paid(r)' \subseteq {job'[w].event}
    BY <1>1, <1>3, <1>6 DEF OnceLocals
  <2>3. pc'[w] \in Working /\ r \in Candidates(job'[w].event) \ job'[w].left => progress'[r] # None
    BY <1>3
  <2> QED
    BY <1>2, <2>1, <2>2, <2>3 DEF OnceLocals
<1>10. ASSUME NEW t \in Workers \ {w}
       PROVE  OnceLocals(t, r)'
  <2>1. OnceLocals(t, r) /\ pc'[t] = pc[t] /\ job'[t] = job[t]
    BY DEF OnceInv
  <2>2. job[t].staged[r] # None =>
            job[t].staged[r].status = "COMPLETED" /\ progress'[r] = None /\ progressKey'[r] = t
    BY <1>1, <1>2, <2>1 DEF OnceLocals
  <2>3. progressKey'[r] = t => job[t].staged[r] # None
    BY <1>2, <2>1, NotNone DEF OnceLocals
  <2>4. r \in job[t].firings => Paid(r)' \subseteq {job[t].event}
    BY <1>1, <1>6, <2>1 DEF OnceLocals, Sole
  <2> QED
    BY <1>4, <2>1, <2>2, <2>3, <2>4 DEF OnceLocals
<1> QED
  BY <1>7, <1>8, <1>9, <1>10 DEF OnceInv

LEMMA OnceStep ==
    ASSUME Inv, NEW r \in Rules, OneTime(r), OnceInv(r), NEW w \in Workers, Disciplined(w), Step(w)
    PROVE  OnceInv(r)'
<1>1. /\ JobsTyped /\ TablesTyped /\ Knows(w) /\ job[w] \in JobRow
      /\ DOMAIN pc = Workers /\ DOMAIN job = Workers
  BY TypeParts DEF Inv, JobsTyped
<1>2. \A t \in Workers \ {w} : pc'[t] = pc[t] /\ job'[t] = job[t]
  BY <1>1, Alone DEF Acts
<1>3. ASSUME Fail(w)
      PROVE  OnceInv(r)'
  BY <1>2, <1>3, OnceReleased DEF Fail, rows
<1>4. ASSUME NEW e \in Internal, DrainRow(w, e)
      PROVE  OnceInv(r)'
  <2>1. /\ pc[w] = "drain" /\ UNCHANGED <<progress, posted, progressKey>>
        /\ job' = [job EXCEPT ![w] = [job[w] EXCEPT !.claimed = job[w].claimed \ {e},
                                                    !.event = e, !.left = Candidates(e)]]
    BY <1>4 DEF DrainRow, rows, locks
  <2>2. /\ job'[w].event = e /\ job'[w].left = Candidates(e) /\ job'[w].firings = job[w].firings
        /\ job'[w].staged = job[w].staged
    BY <1>1, <2>1 DEF JobRow
  <2>3. job[w].firings = {}
    BY <2>1 DEF Disciplined, Working
  <2> QED
    BY <1>2, <2>1, <2>2, <2>3, OnceMoves
<1>5. ASSUME NEW q \in Rules, EvaluateRule(w, q)
      PROVE  OnceInv(r)'
  <2>1. pc[w] = "evaluate" /\ UNCHANGED <<progress, posted>>
    BY <1>5 DEF EvaluateRule, rows
  <2>2. CASE job' = [job EXCEPT ![w].rule = q] /\ Goto(w, "insert") /\ UNCHANGED locks
    <3>1. /\ job'[w].event = job[w].event /\ job'[w].left = job[w].left
          /\ job'[w].firings = job[w].firings /\ job'[w].staged = job[w].staged
      BY <1>1, <2>2 DEF JobRow
    <3> QED
      BY <1>2, <2>1, <2>2, <3>1, OnceMoves DEF locks, Working
  <2>3. \/ progress[q] # None /\ Decide(w, q, progress[q]) /\ UNCHANGED progressKey
        \/ /\ progress[q] = None /\ progressKey[q] = None /\ Decide(w, q, FreshProgress)
           /\ progressKey' = [progressKey EXCEPT ![q] = w]
        \/ job' = [job EXCEPT ![w].rule = q] /\ Goto(w, "insert") /\ UNCHANGED locks
    BY <1>5 DEF EvaluateRule, locks
  <2> QED
    BY <2>1, <2>2, <2>3, OnceDecided
<1>6. ASSUME InsertWakes(w), ~Fail(w)
      PROVE  OnceInv(r)'
  <2>1. /\ pc[w] = "insert" /\ progress[job[w].rule] = None /\ progressKey[job[w].rule] = None
        /\ Decide(w, job[w].rule, FreshProgress)
        /\ progressKey' = [progressKey EXCEPT ![job[w].rule] = w]
        /\ UNCHANGED <<progress, posted>>
    BY <1>6 DEF InsertWakes, rows
  <2>2. job[w].rule \in Rules
    BY <1>1, <2>1 DEF Knows
  <2> QED
    BY <2>1, <2>2, OnceDecided
<1>7. ASSUME NEW q \in Rules, SkipIssued(w, q)
      PROVE  OnceInv(r)'
  <2>1. /\ pc[w] = "issue" /\ pc' = pc /\ UNCHANGED <<progress, posted, progressKey>>
        /\ job' = [job EXCEPT ![w].firings = job[w].firings \ {q}]
    BY <1>7 DEF SkipIssued, rows, locks
  <2>2. /\ job'[w].event = job[w].event /\ job'[w].left = job[w].left
        /\ job'[w].firings \subseteq job[w].firings /\ job'[w].staged = job[w].staged
    BY <1>1, <2>1 DEF JobRow
  <2> QED
    BY <1>2, <2>1, <2>2, OnceMoves
<1>8. ASSUME NEW q \in Rules, NEW n \in Amounts, CheckBudgets(w, q, n), ~Fail(w)
      PROVE  OnceInv(r)'
  <2>1. /\ pc[w] = "issue" /\ UNCHANGED <<progress, posted, progressKey>>
        /\ job' = [job EXCEPT ![w] = [job[w] EXCEPT !.rule = q, !.amount = n]]
    BY <1>8 DEF CheckBudgets, rows
  <2>2. /\ job'[w].event = job[w].event /\ job'[w].left = job[w].left
        /\ job'[w].firings = job[w].firings /\ job'[w].staged = job[w].staged
    BY <1>1, <2>1 DEF JobRow
  <2> QED
    BY <1>2, <2>1, <2>2, OnceMoves DEF Working
<1>9. ASSUME Drained(w)
      PROVE  OnceInv(r)'
  BY <1>2, <1>9, OnceReleased DEF Drained, rows
<1>10. ASSUME RecordFailure(w)
       PROVE  OnceInv(r)'
  <2>1. /\ pc[w] = "failed" /\ UNCHANGED <<progress, posted, progressKey>>
        /\ \/ job' = [job EXCEPT ![w].event = None] /\ pc' = [pc EXCEPT ![w] = "drain"]
           \/ job' = [job EXCEPT ![w] = IdleJob] /\ pc' = [pc EXCEPT ![w] = "idle"]
    BY <1>10 DEF RecordFailure, Goto, locks
  <2>2. job[w].firings = {} /\ job[w].staged = NoRows
    BY <2>1 DEF Disciplined, Working
  <2>3. /\ pc'[w] \notin Working /\ job'[w].firings = {} /\ job'[w].staged = NoRows
    BY <1>1, <2>1, <2>2 DEF JobRow, IdleJob, Working
  <2> QED
    BY <1>2, <2>1, <2>2, <2>3, OnceMoves
<1>11. ASSUME Post(w), ~Fail(w)
       PROVE  OnceInv(r)'
  <2>1. /\ pc[w] = "post" /\ pc' = [pc EXCEPT ![w] = "record"]
        /\ \/ UNCHANGED <<progress, posted, progressKey, job>>
           \/ /\ posted' = [posted EXCEPT ![FiringOf(w)] = job[w].amount] /\ CommitStaged(w)
              /\ job' = [job EXCEPT ![w].staged = NoRows]
    BY <1>11 DEF Post, Goto, rows, locks
  <2>2. CASE UNCHANGED <<progress, posted, progressKey, job>>
    BY <1>1, <1>2, <2>1, <2>2, OnceMoves DEF Working
  <2>3. CASE /\ posted' = [posted EXCEPT ![FiringOf(w)] = job[w].amount] /\ CommitStaged(w)
             /\ job' = [job EXCEPT ![w].staged = NoRows]
    <3>1. /\ job'[w].event = job[w].event /\ job'[w].left = job[w].left
          /\ job'[w].firings = job[w].firings /\ job'[w].staged = NoRows
      BY <1>1, <2>3 DEF JobRow
    <3> QED
      BY <1>2, <2>1, <2>3, <3>1, OnceCommitted
  <2> QED
    BY <2>1, <2>2, <2>3
<1>12. ASSUME Record(w), ~Fail(w)
       PROVE  OnceInv(r)'
  <2>1. /\ pc[w] = "record" /\ pc' = [pc EXCEPT ![w] = "issue"]
        /\ job' = [job EXCEPT ![w] = Through(w)]
        /\ \/ CommitStaged(w) /\ UNCHANGED posted
           \/ Unlock(w) /\ UNCHANGED <<progress, posted>>
    BY <1>12 DEF Record, Goto, rows
  <2>2. /\ job'[w].event = job[w].event /\ job'[w].left = job[w].left
        /\ job'[w].firings \subseteq job[w].firings /\ job'[w].staged = NoRows
    BY <1>1, <2>1 DEF JobRow, Through
  <2>3. CASE CommitStaged(w) /\ UNCHANGED posted
    BY <1>2, <2>1, <2>2, <2>3, OnceCommitted
  <2>4. CASE Unlock(w) /\ UNCHANGED <<progress, posted>>
    <3>1. progressKey'[r] = IF progressKey[r] = w THEN None ELSE progressKey[r]
      BY <2>4, TypeParts DEF Inv, LocksTyped, Unlock, Freed
    <3>2. r \in Candidates(job[w].event) => progress[r] # None
      <4>1. /\ job[w].rule \in Rules /\ job[w].event \in Events /\ posted[FiringOf(w)] # None
        BY <1>1, <2>1 DEF Knows, Working, Events
      <4> QED
        BY <4>1 DEF OnceInv, OnceTables, FiringOf
    <3>3. r \in job[w].firings => progress[r] # None
      BY <2>1, <3>2 DEF Disciplined, Working
    <3>4. OnceLocals(w, r)'
      BY <2>2, <2>4, <3>1, <3>2, <3>3, NotNone DEF OnceInv, OnceLocals, NoRows, Paid
    <3> QED
      BY <1>2, <2>2, <2>4, <3>1, <3>4, NotNone, OnceQuiet
  <2> QED
    BY <2>1, <2>3, <2>4
<1>13. ASSUME Finish(w)
       PROVE  OnceInv(r)'
  <2>1. /\ pc[w] = "issue" /\ CommitStaged(w) /\ UNCHANGED posted
        /\ \/ pc' = [pc EXCEPT ![w] = "idle"] /\ job' = [job EXCEPT ![w] = IdleJob]
           \/ /\ pc' = [pc EXCEPT ![w] = "drain"]
              /\ job' = [job EXCEPT ![w] = [IdleJob EXCEPT !.claimed = job[w].claimed]]
    BY <1>13 DEF Finish, Goto
  <2>2. pc'[w] \notin Working /\ job'[w].firings = {} /\ job'[w].staged = NoRows
    BY <1>1, <2>1 DEF IdleJob, Working
  <2> QED
    BY <1>2, <2>1, <2>2, OnceCommitted
<1> QED
  BY <1>3, <1>4, <1>5, <1>6, <1>7, <1>8, <1>9, <1>10, <1>11, <1>12, <1>13 DEF Step

LEMMA OnceActs ==
    ASSUME Inv, NEW r \in Rules, OneTime(r), OnceInv(r), NEW w \in Workers, Disciplined(w), Acts(w)
    PROVE  OnceInv(r)'
<1>1. JobsTyped /\ DOMAIN pc = Workers /\ DOMAIN job = Workers /\ job[w] \in JobRow
  BY TypeParts DEF Inv, JobsTyped
<1>2. \A t \in Workers \ {w} : pc'[t] = pc[t] /\ job'[t] = job[t]
  BY <1>1, Alone
<1>3. ASSUME Fault(w) \/ Crash(w)
      PROVE  OnceInv(r)'
  BY <1>2, <1>3, OnceReleased DEF Fault, Crash, Fail, rows
<1>4. ASSUME NEW S, Claim(w, S), pc[w] \notin Working
      PROVE  OnceInv(r)'
  <2>1. /\ pc'[w] = "drain" /\ job'[w].firings = {} /\ job'[w].staged = NoRows
        /\ UNCHANGED <<progress, posted, progressKey>>
    BY <1>1, <1>4 DEF Claim, Goto, IdleJob, rows
  <2>2. job[w].staged = NoRows
    BY <1>4 DEF Disciplined
  <2> QED
    BY <1>2, <2>1, <2>2, OnceMoves DEF Working
<1>5. ASSUME NEW e, Pay(w, e) \/ Reject(w, e)
      PROVE  OnceInv(r)'
  <2>1. pc'[w] \notin Working /\ job' = job /\ UNCHANGED <<progress, posted, progressKey>>
    BY <1>1, <1>5 DEF Pay, Reject, Goto, Working, locks
  <2> QED
    BY <1>2, <2>1, OnceMoves
<1>6. ASSUME NEW x \in External, Deliver(w, x)
      PROVE  OnceInv(r)'
  <2>1. /\ pc[w] = "idle" /\ UNCHANGED <<progress, posted, progressKey>>
        /\ job' = [job EXCEPT ![w] = [IdleJob EXCEPT !.event = x, !.left = Candidates(x)]]
    BY <1>6 DEF Deliver, rows
  <2>2. /\ job'[w].event = x /\ job'[w].left = Candidates(x) /\ job'[w].firings = {}
        /\ job'[w].staged = NoRows
    BY <1>1, <2>1 DEF IdleJob
  <2>3. job[w].staged = NoRows
    BY <2>1 DEF Disciplined, Working
  <2> QED
    BY <1>2, <2>1, <2>2, <2>3, OnceMoves
<1>7. (ClaimPending(w) \/ Sweep(w)) => OnceInv(r)'
  BY <1>4 DEF ClaimPending, Sweep, Working
<1> QED
  BY <1>3, <1>5, <1>6, <1>7, OnceStep DEF Acts

\* What holds of the one-time rules, with the discipline of the workers.
OneTimeInv ==
    /\ \A w \in Workers : Disciplined(w)
    /\ \A r \in Rules : OneTime(r) => OnceInv(r)

LEMMA StaysOnce == ASSUME Inv, OneTimeInv, [Next]_vars PROVE OneTimeInv'
<1>1. JobsTyped
  BY TypeParts DEF Inv
<1>2. ASSUME NEW w \in Workers, Acts(w)
      PROVE  OneTimeInv'
  <2>1. Disciplined(w)'
    BY <1>2, StaysDisciplined DEF OneTimeInv
  <2>2. \A t \in Workers \ {w} : Disciplined(t)'
    BY <1>1, <1>2, Alone DEF OneTimeInv, Disciplined
  <2>3. \A r \in Rules : OneTime(r) => OnceInv(r)'
    BY <1>2, OnceActs DEF OneTimeInv
  <2> QED
    BY <2>1, <2>2, <2>3 DEF OneTimeInv, OneTime
<1>3. CASE UNCHANGED <<outbox, ingested, progress, stale, posted, rewardEvents, locks, pc, job, faults>>
  BY <1>3 DEF OneTimeInv, Disciplined, OnceInv, OnceTables, OnceLocals, Sole, Paid, locks
<1> QED
  BY <1>2, <1>3, SomebodyActs

LEMMA StartsOnce == Init => OneTimeInv
<1> SUFFICES ASSUME Init PROVE OneTimeInv
  OBVIOUS
<1>1. /\ pc = [w \in Workers |-> "idle"] /\ job = [w \in Workers |-> IdleJob]
      /\ posted = [f \in Firings |-> None] /\ progress = NoRows
      /\ progressKey = [r \in Rules |-> None]
  BY DEF Init
<1>2. \A w \in Workers : Disciplined(w)
  BY <1>1 DEF Disciplined, IdleJob, Working
<1>3. \A r \in Rules : progress[r] = None /\ Paid(r) = {}
  BY <1>1 DEF NoRows, Paid, Firings
<1>4. \A r \in Rules : OnceTables(r) /\ Sole(r)
  BY <1>1, <1>3 DEF OnceTables, Sole, IdleJob, Firings
<1>5. \A r \in Rules, w \in Workers : OnceLocals(w, r)
  BY <1>1, NotNone DEF OnceLocals, IdleJob, NoRows, Working
<1> QED
  BY <1>2, <1>4, <1>5 DEF OneTimeInv, OnceInv

\* A first-time rule without a minimum amount pays a user once, however many
\* first events are evaluated at the same time, retried or redelivered.
THEOREM FirstPaidOnce == Spec => []FirstTimeOnce
<1>1. Inv /\ OneTimeInv => FirstTimeOnce
  <2> SUFFICES ASSUME OneTimeInv, NEW r \in Rules, OneTime(r)
               PROVE  Cardinality(Paid(r)) <= 1
    BY DEF FirstTimeOnce, OneTime
  <2>1. \A e1, e2 \in Paid(r) : e1 = e2
    BY DEF OneTimeInv, OnceInv, OnceTables
  <2>2. CASE Paid(r) = {}
    <3>1. Cardinality({}) = 0
      BY FS_EmptySet
    <3> QED
      BY <2>2, <3>1
  <2>3. ASSUME NEW e \in Paid(r)
        PROVE  Cardinality(Paid(r)) <= 1
    <3>1. Paid(r) = {e}
      BY <2>1
    <3>2. Cardinality({e}) = 1
      BY FS_Singleton
    <3> QED
      BY <3>1, <3>2
  <2> QED
    BY <2>2, <2>3
<1> QED
  BY <1>1, StartsOnce, StaysOnce, Invariance, PTL DEF Spec

-----------------------------------------------------------------------------
(* How far a cap can be overrun                                            *)

\* Rewards are whole numbers.
LEMMA AmountsAreNumbers == Amounts \in SUBSET Int /\ Amounts \in SUBSET Nat
BY NotNone

\* No reward is above the largest.
LEMMA LargestBounds == Largest \in Nat /\ \A n \in Amounts : n <= Largest
<1> DEFINE S == Amounts \cup {0}
<1>1. S \in SUBSET Nat /\ S # {}
  BY NotNone
<1>2. IsFiniteSet(S)
  BY FiniteAmounts, FS_AddElement
<1>3. PICK n \in S : \A m \in S : m <= n
  BY <1>1, <1>2, LargestNatural
<1>4. n \in Nat /\ \A m \in S : n >= m
  BY <1>1, <1>3
<1>5. Largest \in S /\ \A m \in S : Largest >= m
  BY <1>4 DEF Largest, Max
<1> QED
  BY <1>1, <1>5

\* The workers with a session open, which is on a connection of the pool.
Sessions == {w \in Workers : pc[w] \notin {"idle", "claim"}}

Connected == IsFiniteSet(Sessions) /\ Cardinality(Sessions) <= Pool

\* The firings that count against b, and the workers about to record one more
\* of an amount that was weighed.
Spent(b) == {f \in Firings : /\ rewardEvents[f] # None
                             /\ Rule[f[1]].pays = b.pays
                             /\ b.scope \in {f[1], None}}

Promising(b) == {w \in Workers : /\ pc[w] \in {"post", "record"}
                                 /\ rewardEvents[FiringOf(w)] = None
                                 /\ b \in Applicable(job[w].rule)}

Promise == [w \in Workers |-> job[w].amount]

\* What b has spent and what it may yet be charged for.
Exposure(b) == SumFunctionOnSet(rewardEvents, Spent(b)) + SumFunctionOnSet(Promise, Promising(b))

Covered(b) == IsFiniteSet(Spent(b)) /\ Exposure(b) <= b.cap + (Pool - 1) * Largest

BudgetInv == Connected /\ \A b \in Budgets : Covered(b)

\* A session that opens finds a free connection.
LEMMA StaysConnected == ASSUME JobsTyped, Connected, [Next]_vars PROVE Connected'
<1>1. CASE UNCHANGED pc
  BY <1>1 DEF Connected, Sessions
<1>2. ASSUME NEW w \in Workers, Acts(w)
      PROVE  Connected'
  <2>1. \A t \in Workers \ {w} : pc'[t] = pc[t]
    BY <1>2, Alone
  <2>2. CASE w \in Sessions
    <3>1. Sessions' \in SUBSET Sessions
      BY <2>1, <2>2 DEF Sessions
    <3> QED
      <4>1. IsFiniteSet(Sessions') /\ Cardinality(Sessions') <= Cardinality(Sessions)
        BY <3>1, FS_Subset DEF Connected
      <4>2. /\ Cardinality(Sessions) \in Nat /\ Cardinality(Sessions') \in Nat
            /\ Pool \in Nat
        BY <4>1, FS_CardinalityType, RewardsAssumption DEF Connected
      <4> QED
        BY <4>1, <4>2 DEF Connected
  <2>3. CASE w \notin Sessions
    <3>1. pc[w] \in {"idle", "claim"}
      BY <2>3 DEF Sessions
    <3>2. CanConnect \/ pc'[w] \in {"idle", "claim"}
      <4>1. ClaimPending(w) \/ Sweep(w) \/ (\E x \in External : Deliver(w, x)) => CanConnect
        BY DEF ClaimPending, Sweep, Claim, Deliver
      <4>2. (\E e \in Internal : Pay(w, e)) \/ (\E x \in External : Reject(w, x)) \/ Crash(w)
                => pc'[w] \in {"idle", "claim"}
        BY <3>1 DEF Pay, Reject, Crash, End, Goto, JobsTyped
      <4>3. ~Step(w) /\ ~Fault(w)
        BY <3>1 DEF Step, Fault, DrainRow, EvaluateRule, SkipIssued, CheckBudgets, Drained,
                    RecordFailure, InsertWakes, Post, Record, Finish
      <4> QED
        BY <1>2, <4>1, <4>2, <4>3 DEF Acts
    <3>3. CASE pc'[w] \in {"idle", "claim"}
      <4>1. Sessions' = Sessions
        BY <2>1, <2>3, <3>3 DEF Sessions
      <4> QED
        BY <4>1 DEF Connected
    <3>4. CASE CanConnect /\ pc'[w] \notin {"idle", "claim"}
      <4>1. Sessions' = Sessions \cup {w}
        BY <2>1, <2>3, <3>4 DEF Sessions
      <4>2. Cardinality(Sessions) < Pool
        BY <3>4 DEF CanConnect, Sessions
      <4>3. IsFiniteSet(Sessions') /\ Cardinality(Sessions') = Cardinality(Sessions) + 1
        BY <2>3, <4>1, FS_AddElement DEF Connected
      <4>4. Cardinality(Sessions) \in Nat /\ Pool \in Nat
        BY FS_CardinalityType, RewardsAssumption DEF Connected
      <4> QED
        BY <4>2, <4>3, <4>4 DEF Connected
    <3> QED
      BY <3>2, <3>3, <3>4
  <2> QED
    BY <2>2, <2>3
<1> QED
  BY <1>1, <1>2, SomebodyActs

\* A worker about to record has a session open, a firing and an amount.
LEMMA PromisesTyped ==
    ASSUME Inv, Connected, NEW b
    PROVE  /\ Promising(b) \subseteq Sessions /\ IsFiniteSet(Promising(b))
           /\ \A w \in Promising(b) : FiringOf(w) \in Firings /\ Promise[w] \in Amounts
           /\ SumFunctionOnSet(Promise, Promising(b)) \in Nat
<1>1. Promising(b) \in SUBSET Sessions
  BY DEF Promising, Sessions
<1>2. IsFiniteSet(Promising(b))
  BY <1>1, FS_Subset DEF Connected
<1>3. ASSUME NEW w \in Promising(b)
      PROVE  FiringOf(w) \in Firings /\ Promise[w] \in Amounts
  <2>1. w \in Workers /\ pc[w] \in {"post", "record"} /\ Knows(w)
    BY DEF Inv, Promising
  <2> QED
    BY <2>1, NotNone DEF Knows, Working, FiringOf, Firings, Events, Promise
<1>4. \A w \in Promising(b) : Promise[w] \in Nat
  BY <1>3, NotNone
<1> QED
  BY <1>1, <1>2, <1>3, <1>4, SumOfPart

\* What was spent of a budget is a number.
LEMMA SpentTyped ==
    ASSUME Inv, NEW b, IsFiniteSet(Spent(b))
    PROVE  /\ \A f \in Spent(b) : rewardEvents[f] \in Nat
           /\ SumFunctionOnSet(rewardEvents, Spent(b)) \in Nat
<1>1. \A f \in Spent(b) : rewardEvents[f] \in Nat
  BY TypeParts, NotNone DEF Inv, TablesTyped, Spent
<1> QED
  BY <1>1, SumOfPart

\* So is what a budget may be overrun by.
LEMMA CapsTyped ==
    /\ \A b \in Budgets : b.cap \in Nat
    /\ Pool \in Nat /\ Pool >= 1 /\ (Pool - 1) * Largest \in Nat
<1>1. Pool \in Nat /\ Pool >= 1 /\ Largest \in Nat
  BY LargestBounds, RewardsAssumption
<1>2. Pool - 1 \in Nat
  BY <1>1
<1>3. \A m, n \in Nat : m * n \in Nat
  OBVIOUS
<1> QED
  BY <1>1, <1>2, <1>3, RewardsAssumption DEF RewardBudget

\* Nothing recorded and nothing new weighed for b: its exposure does not grow.
LEMMA QuietCovers ==
    ASSUME Inv, Connected, NEW b \in Budgets, Covered(b), rewardEvents' = rewardEvents,
           Promising(b)' \subseteq Promising(b),
           \A w \in Promising(b)' : job'[w].amount = job[w].amount
    PROVE  Covered(b)'
<1> DEFINE P == Promising(b)
           Q == Promising(b)'
<1>1. IsFiniteSet(P) /\ \A w \in P : Promise[w] \in Nat
  BY PromisesTyped, NotNone
<1>2. Q \in SUBSET P /\ IsFiniteSet(Q)
  BY <1>1, FS_Subset
<1>3. \A w \in Q : Promise'[w] = Promise[w] /\ Promise[w] \in Int
  BY <1>1, <1>2 DEF Promise, Promising
<1> HIDE DEF P, Q
<1>4. SumFunctionOnSet(Promise', Q) = SumFunctionOnSet(Promise, Q)
  BY <1>2, <1>3, SumsAgree
<1>5. SumFunctionOnSet(Promise, Q) <= SumFunctionOnSet(Promise, P)
  BY <1>1, <1>2, SumOfPart
<1>6. Spent(b)' = Spent(b)
  BY DEF Spent
<1>7. SumFunctionOnSet(Promise, P) \in Int /\ SumFunctionOnSet(Promise, Q) \in Int
      /\ SumFunctionOnSet(rewardEvents, Spent(b)) \in Int
  <2>1. SumFunctionOnSet(Promise, P) \in Int /\ SumFunctionOnSet(rewardEvents, Spent(b)) \in Int
    BY PromisesTyped, SpentTyped DEF P, Covered
  <2>2. SumFunctionOnSet(Promise, Q) \in Int
    BY <1>2, <1>3, SumIsInt
  <2> QED
    BY <2>1, <2>2
<1>8. Exposure(b)' <= Exposure(b) /\ Exposure(b) \in Int /\ Exposure(b)' \in Int
  BY <1>4, <1>5, <1>6, <1>7 DEF Exposure, P, Q
<1> QED
  BY <1>6, <1>8, CapsTyped DEF Covered

\* The amount weighed last fits; what the others may still record is at most a
\* largest reward for each other session.
LEMMA WeighedCovers ==
    ASSUME Inv, Inv', Connected, Connected', NEW b \in Budgets, Covered(b),
           rewardEvents' = rewardEvents, NEW w \in Workers, pc'[w] = "post",
           Consumed(b) + job'[w].amount <= b.cap
    PROVE  Covered(b)'
<1> DEFINE Q == Promising(b)'
           R == Q \ {w}
           S == Sessions'
<1>1. /\ Q \subseteq S /\ IsFiniteSet(Q) /\ w \in S
      /\ \A t \in Q : Promise'[t] \in Amounts
  <2>1. w \in S
    BY DEF Sessions
  <2>2. Q \in SUBSET S
    BY DEF Promising, Sessions
  <2>3. IsFiniteSet(Q)
    <3>1. IsFiniteSet(S)
      BY DEF Connected
    <3> HIDE DEF Q, S
    <3> QED
      BY <2>2, <3>1, FS_Subset
  <2>4. ASSUME NEW t \in Q
        PROVE  Promise'[t] \in Amounts
    <3>1. t \in Workers /\ pc'[t] \in {"post", "record"} /\ Knows(t)'
      BY DEF Inv, Promising
    <3> QED
      BY <3>1, NotNone DEF Knows, Promise
  <2> QED
    BY <2>1, <2>2, <2>3, <2>4
<1>2. Cardinality(R) <= Pool - 1 /\ Cardinality(R) \in Nat /\ IsFiniteSet(R)
  <2>1. R \in SUBSET (S \ {w}) /\ IsFiniteSet(S)
    BY <1>1 DEF Connected
  <2>2. IsFiniteSet(S \ {w}) /\ Cardinality(S \ {w}) = Cardinality(S) - 1
    BY <1>1, <2>1, FS_RemoveElement
  <2>3. IsFiniteSet(R) /\ Cardinality(R) <= Cardinality(S \ {w})
    BY <2>1, <2>2, FS_Subset
  <2>4. Cardinality(S) <= Pool /\ Cardinality(S) \in Nat /\ Cardinality(R) \in Nat
    BY <2>1, <2>3, FS_CardinalityType DEF Connected
  <2> QED
    BY <2>2, <2>3, <2>4, CapsTyped
<1>3. \A t \in Q : Promise'[t] \in Nat /\ Promise'[t] <= Largest
  BY <1>1, LargestBounds, NotNone
<1>4. SumFunctionOnSet(Promise', R) <= Largest * Cardinality(R)
  BY <1>2, <1>3, LargestBounds, SumBounded
<1>5. Largest * Cardinality(R) <= (Pool - 1) * Largest
  <2>1. \A m, n, k \in Nat : n <= k => m * n <= k * m
    <3>1. SUFFICES ASSUME NEW m \in Nat, NEW n \in Nat, NEW k \in Nat, n <= k
                   PROVE  m * n <= k * m
      OBVIOUS
    <3>2. k - n \in Nat /\ k = n + (k - n)
      BY <3>1
    <3>3. m * (k - n) \in Nat /\ m * n \in Nat /\ k * m \in Nat
      BY <3>2
    <3>4. k * m = m * n + m * (k - n)
      OBVIOUS
    <3> QED
      BY <3>3, <3>4
  <2> QED
    BY <1>2, <2>1, LargestBounds, CapsTyped
<1>6. SumFunctionOnSet(Promise', R) \in Int /\ SumFunctionOnSet(Promise', Q) \in Int
  BY <1>2, <1>3, <1>1, SumIsInt
<1>7. SumFunctionOnSet(Promise', Q) <= job'[w].amount + SumFunctionOnSet(Promise', R)
  <2>1. job'[w].amount \in Nat /\ Promise'[w] = job'[w].amount
    <3>1. job'[w].amount \in RewardAmounts(job'[w].rule) /\ job'[w].rule \in Rules
      BY DEF Inv, Knows, Working
    <3> QED
      BY <3>1, NotNone DEF Promise
  <2>2. CASE w \in Q
    <3>1. \A t \in Q : Promise'[t] \in Int
      BY <1>3
    <3>2. SumFunctionOnSet(Promise', Q) = Promise'[w] + SumFunctionOnSet(Promise', R)
      <4> HIDE DEF Q
      <4> QED
        BY <1>1, <2>2, <3>1, SumSplits
    <3> QED
      BY <1>6, <2>1, <3>2
  <2>3. CASE w \notin Q
    <3>1. R = Q
      BY <2>3
    <3>2. SumFunctionOnSet(Promise', R) = SumFunctionOnSet(Promise', Q)
      BY <3>1
    <3> HIDE DEF Q, R
    <3> QED
      BY <1>6, <2>1, <3>2
  <2> QED
    BY <2>2, <2>3
<1>8. Spent(b)' = Spent(b) /\ Consumed(b) = SumFunctionOnSet(rewardEvents, Spent(b))
  BY DEF Spent, Consumed
<1>9. /\ SumFunctionOnSet(rewardEvents, Spent(b)) \in Int
      /\ job'[w].amount \in Int
  <2>1. job'[w].amount \in RewardAmounts(job'[w].rule) /\ job'[w].rule \in Rules
    BY DEF Inv, Knows, Working
  <2>2. job'[w].amount \in Int
    BY <2>1, AmountsAreNumbers DEF Amounts
  <2> QED
    BY <2>2, SpentTyped DEF Covered
<1>10. Exposure(b)' = SumFunctionOnSet(rewardEvents, Spent(b)) + SumFunctionOnSet(Promise', Q)
  BY <1>8 DEF Exposure
<1>11. Largest * Cardinality(R) \in Int /\ (Pool - 1) * Largest \in Int /\ b.cap \in Int
  BY <1>2, LargestBounds, CapsTyped
<1> HIDE DEF Q, R
<1>12. Exposure(b)' <= b.cap + (Pool - 1) * Largest
  <2> DEFINE c == SumFunctionOnSet(rewardEvents, Spent(b))
             q == SumFunctionOnSet(Promise', Q)
             u == SumFunctionOnSet(Promise', R)
             m == (Pool - 1) * Largest
             n == job'[w].amount
             v == Largest * Cardinality(R)
  <2>1. /\ c \in Int /\ q \in Int /\ u \in Int /\ m \in Int /\ n \in Int /\ v \in Int /\ b.cap \in Int
        /\ c + n <= b.cap /\ q <= n + u /\ u <= v /\ v <= m
    BY <1>4, <1>5, <1>6, <1>7, <1>8, <1>9, <1>11
  <2> HIDE DEF c, q, u, m, n, v
  <2>2. c + q <= b.cap + m
    BY <2>1
  <2> QED
    BY <1>10, <2>2 DEF c, q, m
<1> QED
  BY <1>8, <1>12 DEF Covered

\* A recording turns a promise into an expense of the same amount.
LEMMA RecordCovers ==
    ASSUME Inv, Connected, NEW b \in Budgets, Covered(b),
           NEW w \in Workers, pc[w] = "record", rewardEvents[FiringOf(w)] = None,
           rewardEvents' = [rewardEvents EXCEPT ![FiringOf(w)] = job[w].amount],
           Promising(b)' \subseteq Promising(b) \ {w},
           \A t \in Promising(b)' : job'[t].amount = job[t].amount
    PROVE  Covered(b)'
<1> DEFINE f == FiringOf(w)
           P == Promising(b)
           Q == Promising(b)'
           R == P \ {w}
<1>1. /\ f \in Firings /\ job[w].amount \in Amounts /\ f[1] = job[w].rule /\ f[1] \in Rules
      /\ rewardEvents \in [Firings -> {None} \cup Amounts]
  <2>1. Knows(w)
    BY DEF Inv
  <2> QED
    BY <2>1, TypeParts, NotNone DEF Inv, TablesTyped, Knows, Working, FiringOf, Firings, Events
<1>2. IsFiniteSet(P) /\ \A t \in P : Promise[t] \in Nat
  BY PromisesTyped, NotNone
<1>3. Q \in SUBSET R /\ IsFiniteSet(R) /\ IsFiniteSet(Q)
  BY <1>2, FS_Subset, FS_RemoveElement
<1>4. \A t \in Q : Promise'[t] = Promise[t] /\ Promise[t] \in Int
  BY <1>2, <1>3 DEF Promise, Promising
<1>5. SumFunctionOnSet(Promise', Q) = SumFunctionOnSet(Promise, Q)
  <2> HIDE DEF Q
  <2> QED
    BY <1>3, <1>4, SumsAgree
<1>6. SumFunctionOnSet(Promise, Q) <= SumFunctionOnSet(Promise, R)
  <2>1. \A t \in R : Promise[t] \in Nat
    BY <1>2
  <2> HIDE DEF Q, R
  <2> QED
    BY <1>3, <2>1, SumOfPart
<1>7. /\ SumFunctionOnSet(Promise, P) \in Int /\ SumFunctionOnSet(Promise, R) \in Int
      /\ SumFunctionOnSet(Promise, Q) \in Int
      /\ SumFunctionOnSet(rewardEvents, Spent(b)) \in Int
  <2>1. \A t \in R : Promise[t] \in Int
    BY <1>2
  <2>2. SumFunctionOnSet(Promise, R) \in Int /\ SumFunctionOnSet(Promise, Q) \in Int
    BY <1>3, <1>4, <2>1, SumIsInt
  <2> QED
    BY <2>2, PromisesTyped, SpentTyped DEF Covered
<1>8. Rule[f[1]].pays = b.pays /\ b.scope \in {f[1], None} <=> w \in P
  BY <1>1 DEF Promising, Applicable
<1>9. ASSUME w \in P
      PROVE  Covered(b)'
  <2>1. Spent(b)' = Spent(b) \cup {f} /\ f \notin Spent(b)
    BY <1>1, <1>8, <1>9, NotNone DEF Spent
  <2>2. IsFiniteSet(Spent(b)') /\ Spent(b)' \ {f} = Spent(b)
    BY <2>1, FS_AddElement DEF Covered
  <2>3. /\ rewardEvents'[f] = job[w].amount
        /\ \A g \in Spent(b) : rewardEvents'[g] = rewardEvents[g] /\ rewardEvents[g] \in Int
    BY <1>1, <2>1, SpentTyped DEF Covered, Spent
  <2>4. SumFunctionOnSet(rewardEvents', Spent(b)) = SumFunctionOnSet(rewardEvents, Spent(b))
    BY <2>3, SumsAgree DEF Covered
  <2>5. SumFunctionOnSet(rewardEvents', Spent(b)')
            = job[w].amount + SumFunctionOnSet(rewardEvents, Spent(b))
    <3>1. job[w].amount \in Int
      BY <1>1, AmountsAreNumbers
    <3>2. \A g \in Spent(b)' : rewardEvents'[g] \in Int
      BY <2>1, <2>3, <3>1
    <3>3. f \in Spent(b)'
      BY <2>1
    <3> DEFINE T == Spent(b)'
               h == rewardEvents'
    <3>4. SumFunctionOnSet(h, T) = h[f] + SumFunctionOnSet(h, T \ {f})
      <4>1. IsFiniteSet(T) /\ f \in T /\ \A g \in T : h[g] \in Int
        BY <2>2, <3>2, <3>3
      <4> HIDE DEF f, T, h
      <4> QED
        BY <4>1, SumSplits
    <3> QED
      BY <2>2, <2>3, <2>4, <3>4
  <2>6. SumFunctionOnSet(Promise, P) = job[w].amount + SumFunctionOnSet(Promise, R)
    <3>1. Promise[w] = job[w].amount
      BY DEF Promise
    <3>2. \A t \in P : Promise[t] \in Int
      BY <1>2
    <3> HIDE DEF P
    <3> QED
      BY <1>2, <1>9, <3>1, <3>2, SumSplits
  <2>7. job[w].amount \in Int
    BY <1>1, AmountsAreNumbers
  <2>8. Exposure(b)' <= Exposure(b) /\ Exposure(b) \in Int /\ Exposure(b)' \in Int
    <3>1. /\ Exposure(b) = SumFunctionOnSet(rewardEvents, Spent(b)) + SumFunctionOnSet(Promise, P)
          /\ Exposure(b)' = SumFunctionOnSet(rewardEvents', Spent(b)')
                                + SumFunctionOnSet(Promise', Q)
      BY DEF Exposure
    <3> HIDE DEF P, Q, R
    <3> QED
      BY <1>5, <1>6, <1>7, <2>5, <2>6, <2>7, <3>1
  <2> QED
    BY <2>2, <2>8, CapsTyped DEF Covered
<1>10. ASSUME w \notin P
       PROVE  Covered(b)'
  <2>1. Spent(b)' = Spent(b) /\ f \notin Spent(b)
    BY <1>1, <1>8, <1>10, NotNone DEF Spent
  <2>2. \A g \in Spent(b) : rewardEvents'[g] = rewardEvents[g] /\ rewardEvents[g] \in Int
    BY <1>1, <2>1, SpentTyped DEF Covered, Spent
  <2>3. SumFunctionOnSet(rewardEvents', Spent(b)) = SumFunctionOnSet(rewardEvents, Spent(b))
    BY <2>2, SumsAgree DEF Covered
  <2>4. R = P
    BY <1>10
  <2>5. Exposure(b)' <= Exposure(b) /\ Exposure(b) \in Int /\ Exposure(b)' \in Int
    <3>1. /\ Exposure(b) = SumFunctionOnSet(rewardEvents, Spent(b)) + SumFunctionOnSet(Promise, P)
          /\ Exposure(b)' = SumFunctionOnSet(rewardEvents', Spent(b))
                                + SumFunctionOnSet(Promise', Q)
      BY <2>1 DEF Exposure
    <3> HIDE DEF P, Q, R
    <3> QED
      BY <1>5, <1>6, <1>7, <2>3, <2>4, <3>1
  <2> QED
    BY <2>1, <2>5, CapsTyped DEF Covered
<1> QED
  BY <1>9, <1>10

\* A worker comes to post through the budgets, and to record from there.
LEMMA Promised ==
    ASSUME JobsTyped, NEW w \in Workers, Acts(w), pc'[w] \in {"post", "record"}
    PROVE  \/ /\ pc[w] = "post" /\ job'[w].rule = job[w].rule
              /\ job'[w].event = job[w].event /\ job'[w].amount = job[w].amount
           \/ \E r \in Rules, n \in Amounts :
                  /\ BudgetsAllow(r, n) /\ pc'[w] = "post"
                  /\ job'[w].rule = r /\ job'[w].amount = n
<1>0. w \in DOMAIN pc /\ w \in DOMAIN job /\ job[w] \in JobRow
  BY DEF JobsTyped
<1>1. CASE \E r \in Rules, n \in Amounts : CheckBudgets(w, r, n)
  <2>1. PICK r \in Rules, n \in Amounts : CheckBudgets(w, r, n)
    BY <1>1
  <2>2. CASE Fail(w)
    BY <1>0, <2>2 DEF Fail, Goto
  <2>3. CASE BudgetsAllow(r, n)
    <3>1. /\ job' = [job EXCEPT ![w] = [job[w] EXCEPT !.rule = r, !.amount = n]]
          /\ pc' = [pc EXCEPT ![w] = "post"]
      BY <2>1, <2>3 DEF CheckBudgets, Goto
    <3>2. job'[w].rule = r /\ job'[w].amount = n /\ pc'[w] = "post"
      BY <1>0, <3>1 DEF JobRow
    <3> QED
      BY <2>3, <3>2
  <2> QED
    BY <2>1, <2>2, <2>3 DEF CheckBudgets
<1>2. CASE Post(w)
  BY <1>0, <1>2 DEF Post, Fail, Goto, JobRow
<1>3. CASE \E e \in Internal : DrainRow(w, e) \/ Pay(w, e)
  BY <1>0, <1>3 DEF DrainRow, Pay, Goto
<1>4. CASE \E r \in Rules : EvaluateRule(w, r) \/ SkipIssued(w, r)
  BY <1>0, <1>4 DEF EvaluateRule, Decide, SkipIssued, Goto
<1>5. CASE ClaimPending(w) \/ Sweep(w) \/ \E x \in External : Deliver(w, x) \/ Reject(w, x)
  BY <1>0, <1>5 DEF ClaimPending, Sweep, Claim, Deliver, Reject, Goto
<1>6. CASE Drained(w) \/ RecordFailure(w) \/ Crash(w) \/ Fault(w)
  BY <1>0, <1>6 DEF Drained, RecordFailure, Crash, Fault, End, Fail, Goto
<1>7. CASE InsertWakes(w)
  BY <1>0, <1>7 DEF InsertWakes, Decide, Fail, Goto
<1>8. CASE Record(w) \/ Finish(w)
  BY <1>0, <1>8 DEF Record, Finish, Fail, Goto
<1> QED
  BY <1>1, <1>2, <1>3, <1>4, <1>5, <1>6, <1>7, <1>8 DEF Acts, Step

\* A cap stays covered, whichever worker takes a step.
LEMMA StaysCovered == ASSUME Inv, Inv', BudgetInv, [Next]_vars PROVE BudgetInv'
<1>1. JobsTyped /\ JobsTyped' /\ TablesTyped
  BY TypeParts DEF Inv, TypeOK, JobsTyped, Labels, JobRow
<1>2. Connected'
  BY <1>1, StaysConnected DEF BudgetInv
<1> SUFFICES ASSUME NEW b \in Budgets
             PROVE  Covered(b)'
  BY <1>2 DEF BudgetInv
<1>3. Covered(b) /\ Connected
  BY DEF BudgetInv
<1>4. CASE UNCHANGED <<rewardEvents, pc, job>>
  <2>1. Promising(b)' = Promising(b)
    BY <1>4 DEF Promising, FiringOf
  <2> QED
    BY <1>3, <1>4, <2>1, QuietCovers
<1>5. ASSUME NEW w \in Workers, Acts(w)
      PROVE  Covered(b)'
  <2>1. \A t \in Workers \ {w} : pc'[t] = pc[t] /\ job'[t] = job[t]
    BY <1>1, <1>5, Alone
  <2>2. \A g \in Firings : rewardEvents'[g] = None => rewardEvents[g] = None
    <3>1. \A t \in Workers : Record(t) => job[t].amount # None
      BY NotNone DEF Record, Inv, Knows
    <3> QED
      BY <1>1, <3>1, PaymentsMade DEF TablesTyped
  <2>3. \A t \in Workers \ {w} : t \in Promising(b)' => t \in Promising(b) /\ job'[t] = job[t]
    <3>1. SUFFICES ASSUME NEW t \in Workers \ {w}, t \in Promising(b)'
                   PROVE  t \in Promising(b) /\ job'[t] = job[t]
      OBVIOUS
    <3>2. FiringOf(t)' = FiringOf(t) /\ pc[t] \in {"post", "record"}
          /\ rewardEvents'[FiringOf(t)] = None /\ b \in Applicable(job[t].rule)
      BY <2>1, <3>1 DEF Promising, FiringOf
    <3>3. FiringOf(t) \in Firings
      BY <3>2 DEF Inv, Knows, Working, FiringOf, Firings, Events
    <3> QED
      BY <2>1, <2>2, <3>2, <3>3 DEF Promising
  <2>4. CASE rewardEvents' = rewardEvents
    <3>1. CASE w \notin Promising(b)'
      <4>1. Promising(b)' \subseteq Promising(b)
            /\ \A t \in Promising(b)' : job'[t].amount = job[t].amount
        BY <2>3, <3>1 DEF Promising
      <4> QED
        BY <1>3, <2>4, <4>1, QuietCovers
    <3>2. CASE w \in Promising(b)'
      <4>1. pc'[w] \in {"post", "record"} /\ b \in Applicable(job'[w].rule)
            /\ rewardEvents'[FiringOf(w)'] = None
        BY <3>2 DEF Promising
      <4>2. CASE /\ pc[w] = "post" /\ job'[w].rule = job[w].rule
                 /\ job'[w].event = job[w].event /\ job'[w].amount = job[w].amount
        <5>1. w \in Promising(b)
          BY <2>4, <4>1, <4>2 DEF Promising, FiringOf
        <5>2. Promising(b)' \subseteq Promising(b)
              /\ \A t \in Promising(b)' : job'[t].amount = job[t].amount
          BY <2>3, <4>2, <5>1 DEF Promising
        <5> QED
          BY <1>3, <2>4, <5>2, QuietCovers
      <4>3. ASSUME NEW r \in Rules, NEW n \in Amounts, BudgetsAllow(r, n), pc'[w] = "post",
                   job'[w].rule = r, job'[w].amount = n
            PROVE  Covered(b)'
        <5>1. Consumed(b) + job'[w].amount <= b.cap
          BY <4>1, <4>3 DEF BudgetsAllow
        <5> QED
          BY <1>2, <1>3, <2>4, <4>3, <5>1, WeighedCovers
      <4> QED
        BY <1>1, <1>5, <4>1, <4>2, <4>3, Promised
    <3> QED
      BY <3>1, <3>2
  <2>5. CASE rewardEvents' # rewardEvents
    <3>1. PICK t \in Workers :
              /\ Record(t)
              /\ rewardEvents' = [rewardEvents EXCEPT ![FiringOf(t)] = job[t].amount]
      BY <2>5, PaymentsMade
    <3>2. pc[t] = "record" /\ pc' = [pc EXCEPT ![t] = "issue"] /\ rewardEvents[FiringOf(t)] = None
      BY <2>5, <3>1 DEF Record, Fail, rows, Goto
    <3>3. t = w
      BY <1>1, <2>1, <3>2 DEF JobsTyped
    <3>4. pc'[w] = "issue"
      BY <1>1, <3>2, <3>3 DEF JobsTyped
    <3>5. Promising(b)' \subseteq Promising(b) \ {w}
          /\ \A u \in Promising(b)' : job'[u].amount = job[u].amount
      BY <2>3, <3>4 DEF Promising
    <3> QED
      BY <1>3, <3>1, <3>2, <3>3, <3>5, RecordCovers
  <2> QED
    BY <2>4, <2>5
<1> QED
  BY <1>4, <1>5, SomebodyActs

\* At the start nothing is spent or promised.
LEMMA StartsCovered == Init => BudgetInv
<1> SUFFICES ASSUME Init PROVE BudgetInv
  OBVIOUS
<1>1. Sessions = {} /\ \A b : Spent(b) = {} /\ Promising(b) = {}
  BY DEF Init, Sessions, Spent, Promising
<1>2. IsFiniteSet({}) /\ Cardinality({}) = 0
  BY FS_EmptySet
<1>3. \A b : Exposure(b) = 0
  <2>1. SumFunctionOnSet(rewardEvents, {}) = 0 /\ SumFunctionOnSet(Promise, {}) = 0
    BY SumEmpty
  <2> QED
    BY <1>1, <2>1 DEF Exposure
<1>4. \A b \in Budgets : 0 <= b.cap + (Pool - 1) * Largest
  BY CapsTyped
<1>5. \A b \in Budgets : Covered(b)
  <2> SUFFICES ASSUME NEW b \in Budgets PROVE Covered(b)
    OBVIOUS
  <2>1. IsFiniteSet(Spent(b))
    BY <1>1, <1>2
  <2>2. Exposure(b) <= b.cap + (Pool - 1) * Largest
    BY <1>3, <1>4
  <2> QED
    BY <2>1, <2>2 DEF Covered
<1>6. Connected
  BY <1>1, <1>2, CapsTyped DEF Connected
<1> QED
  BY <1>5, <1>6 DEF BudgetInv

\* A budget is never spent beyond its cap by more than a largest reward of
\* every other session that the pool of connections lets be open: the lock on
\* its row is released by the posting, before the history row it is measured
\* by.  What it has spent, and what workers may yet record of amounts that were
\* weighed, stays within the bound.
THEOREM OverrunBounded == Spec => []BudgetOverrun
<1>1. Inv /\ BudgetInv => BudgetOverrun
  <2> SUFFICES ASSUME Inv, BudgetInv, NEW b \in Budgets
               PROVE  Consumed(b) <= b.cap + (Pool - 1) * Largest
    BY DEF BudgetOverrun
  <2>1. Covered(b) /\ Connected
    BY DEF BudgetInv
  <2>2. /\ SumFunctionOnSet(rewardEvents, Spent(b)) \in Nat
        /\ SumFunctionOnSet(Promise, Promising(b)) \in Nat
    BY <2>1, PromisesTyped, SpentTyped DEF Covered
  <2>3. Consumed(b) = SumFunctionOnSet(rewardEvents, Spent(b))
    BY DEF Consumed, Spent
  <2> QED
    BY <2>1, <2>2, <2>3, CapsTyped DEF Covered, Exposure
<1> QED
  BY <1>1, StaysCovered, StartsCovered, Invariance, PTL DEF Spec

-----------------------------------------------------------------------------
(* What a worker does to rows, locks and locals                            *)

Processed == {x \in External : ingested[x] = "PROCESSED"}

\* It is without an event afterwards, and what it had not committed is lost.
LetsGo(w) ==
    /\ pc'[w] \notin Working
    /\ job'[w].left = {} /\ job'[w].firings = {} /\ job'[w].staged = NoRows
    /\ UNCHANGED <<progress, stale, posted>> /\ Processed' = Processed
    /\ Unlock(w) \/ (pc[w] \notin Working /\ UNCHANGED <<logKey, progressKey>>)

\* It takes an event.
Begins(w) ==
    /\ pc[w] \notin Working
    /\ pc'[w] = IF job'[w].left = {} THEN "issue" ELSE "evaluate"
    /\ job'[w].left = Candidates(job'[w].event)
    /\ job'[w].firings = {} /\ job'[w].staged = NoRows
    /\ UNCHANGED <<progress, stale, ingested, posted, progressKey>>
    /\ IF w \in Consumers
       THEN /\ job'[w].event \in External /\ ingested[job'[w].event] = None
            /\ logKey' = [logKey EXCEPT ![job'[w].event] = w]
       ELSE job'[w].event \in Internal /\ UNCHANGED logKey

\* The row it evaluates q from.
Read(q) == IF progress[q] = None THEN FreshProgress ELSE progress[q]

\* It decides on q, and comes to hold the key of a row that is not there.
DecidesOn(w, q) ==
    /\ pc[w] \in {"evaluate", "insert"} /\ q \in job[w].left
    /\ pc'[w] = IF job'[w].left = {} THEN "issue" ELSE "evaluate"
    /\ job'[w].left = job[w].left \ {q} /\ job'[w].event = job[w].event
    /\ job'[w].staged = [job[w].staged EXCEPT ![q] =
           IF Made(w, q, Read(q)).row = progress[q] THEN None ELSE Made(w, q, Read(q)).row]
    /\ job'[w].base = [job[w].base EXCEPT ![q] = progress[q]]
    /\ job'[w].firings = IF Made(w, q, Read(q)).fires THEN job[w].firings \cup {q}
                         ELSE job[w].firings
    /\ UNCHANGED <<progress, stale, ingested, posted, logKey>>
    /\ IF progress[q] = None
       THEN progressKey[q] = None /\ progressKey' = [progressKey EXCEPT ![q] = w]
       ELSE UNCHANGED progressKey

\* It goes on with its event.
GoesOn(w) ==
    /\ \/ pc[w] \in {"evaluate", "insert"} /\ pc'[w] \in {"evaluate", "insert"}
       \/ pc[w] \in {"issue", "post", "record"} /\ pc'[w] \in {"issue", "post", "record"}
    /\ job'[w].event = job[w].event /\ job'[w].left = job[w].left
    /\ job'[w].staged = job[w].staged /\ job'[w].base = job[w].base
    /\ job'[w].firings \subseteq job[w].firings
    /\ UNCHANGED <<progress, stale, ingested, posted, logKey, progressKey>>

\* It commits, and pays if it was about to.
Commits(w) ==
    /\ pc[w] \in {"issue", "post", "record"} /\ CommitStaged(w)
    /\ job'[w].staged = NoRows /\ job'[w].firings \subseteq job[w].firings
    /\ \/ /\ pc'[w] \in {"issue", "record"}
          /\ job'[w].event = job[w].event /\ job'[w].left = job[w].left
       \/ pc'[w] \notin Working /\ job'[w].left = {} /\ job'[w].firings = {}
    /\ \/ posted' = posted
       \/ /\ pc[w] = "post" /\ posted[FiringOf(w)] = None
          /\ posted' = [posted EXCEPT ![FiringOf(w)] = job[w].amount]

\* Somebody else has recorded its firing: the rollback loses what it staged.
Loses(w) ==
    /\ pc[w] = "record" /\ pc'[w] = "issue" /\ rewardEvents[FiringOf(w)] # None
    /\ job'[w].event = job[w].event /\ job'[w].left = job[w].left
    /\ job'[w].staged = NoRows /\ job'[w].firings \subseteq job[w].firings
    /\ UNCHANGED <<progress, stale, ingested, posted>> /\ Unlock(w)

\* Every step of a worker that keeps the order of its label is one of these.
LEMMA Shapes ==
    ASSUME Inv, NEW w \in Workers, Disciplined(w), Acts(w)
    PROVE  \/ LetsGo(w) \/ Begins(w) \/ (\E q \in Rules : DecidesOn(w, q))
           \/ GoesOn(w) \/ Commits(w) \/ Loses(w)
<1>1. /\ JobsTyped /\ TablesTyped /\ LocksTyped /\ Knows(w) /\ job[w] \in JobRow
      /\ DOMAIN pc = Workers /\ DOMAIN job = Workers /\ DOMAIN ingested = External
  BY TypeParts DEF Inv, JobsTyped, TablesTyped
<1>2. ASSUME End(w) \/ Fail(w), UNCHANGED rows
      PROVE  LetsGo(w)
  <2>1. /\ Disciplined(w)' /\ pc'[w] \notin Working
        /\ job'[w].staged = NoRows /\ job'[w].firings = {}
    BY <1>2, DoneDisciplined
  <2>2. job'[w].left = {}
    BY <2>1 DEF Disciplined
  <2> QED
    BY <1>2, <2>1, <2>2 DEF LetsGo, End, Fail, rows, Processed
<1>3. Fail(w) => LetsGo(w)
  BY <1>2 DEF Fail
<1>4. ASSUME NEW S, Claim(w, S), pc[w] \notin Working
      PROVE  LetsGo(w)
  <2>1. /\ pc'[w] = "drain" /\ job'[w].left = {} /\ job'[w].firings = {}
        /\ job'[w].staged = NoRows /\ UNCHANGED <<progress, stale, ingested, posted, logKey, progressKey>>
    BY <1>1, <1>4 DEF Claim, Goto, IdleJob, rows
  <2> QED
    BY <1>4, <2>1 DEF LetsGo, Working, Processed
<1>5. ASSUME NEW e \in Internal, Pay(w, e)
      PROVE  LetsGo(w)
  <2>1. /\ pc[w] \notin Working /\ pc'[w] \notin Working /\ job' = job
        /\ UNCHANGED <<progress, stale, ingested, posted, logKey, progressKey>>
    BY <1>1, <1>5 DEF Pay, Goto, Working, locks
  <2>2. job[w].left = {} /\ job[w].firings = {} /\ job[w].staged = NoRows
    BY <2>1 DEF Disciplined
  <2> QED
    BY <2>1, <2>2 DEF LetsGo, Processed
<1>6. ASSUME NEW x \in External, Reject(w, x)
      PROVE  LetsGo(w)
  <2>1. /\ pc[w] \notin Working /\ pc' = pc /\ job' = job
        /\ UNCHANGED <<progress, stale, posted, logKey, progressKey>>
        /\ ingested[x] = None /\ ingested' = [ingested EXCEPT ![x] = "REJECTED"]
    BY <1>1, <1>6 DEF Reject, Working, locks
  <2>2. job[w].left = {} /\ job[w].firings = {} /\ job[w].staged = NoRows
    BY <2>1 DEF Disciplined
  <2>3. Processed' = Processed
    <3>1. "PROCESSED" # None
      BY NotNone DEF EventIngestionLog
    <3> QED
      BY <1>1, <2>1, <3>1 DEF Processed
  <2> QED
    BY <2>1, <2>2, <2>3 DEF LetsGo
<1>7. ASSUME NEW x \in External, Deliver(w, x), w \in Consumers
      PROVE  Begins(w)
  <2>1. /\ pc[w] = "idle" /\ ingested[x] = None
        /\ UNCHANGED <<progress, stale, ingested, posted, progressKey>>
        /\ logKey' = [logKey EXCEPT ![x] = w]
        /\ pc' = [pc EXCEPT ![w] = IF Candidates(x) = {} THEN "issue" ELSE "evaluate"]
        /\ job' = [job EXCEPT ![w] = [IdleJob EXCEPT !.event = x, !.left = Candidates(x)]]
    BY <1>7 DEF Deliver, Goto, rows
  <2>2. /\ job'[w].event = x /\ job'[w].left = Candidates(x) /\ job'[w].firings = {}
        /\ job'[w].staged = NoRows
        /\ pc'[w] = IF Candidates(x) = {} THEN "issue" ELSE "evaluate"
    BY <1>1, <2>1 DEF IdleJob
  <2> QED
    BY <1>7, <2>1, <2>2 DEF Begins, Working
<1>8. ASSUME NEW e \in Internal, DrainRow(w, e)
      PROVE  Begins(w)
  <2>1. /\ pc[w] = "drain" /\ UNCHANGED <<progress, stale, ingested, posted, progressKey, logKey>>
        /\ pc' = [pc EXCEPT ![w] = IF Candidates(e) = {} THEN "issue" ELSE "evaluate"]
        /\ job' = [job EXCEPT ![w] = [job[w] EXCEPT !.claimed = job[w].claimed \ {e},
                                                    !.event = e, !.left = Candidates(e)]]
    BY <1>8 DEF DrainRow, rows, locks, Goto
  <2>2. /\ job'[w].event = e /\ job'[w].left = Candidates(e) /\ job'[w].firings = job[w].firings
        /\ job'[w].staged = job[w].staged
        /\ pc'[w] = IF Candidates(e) = {} THEN "issue" ELSE "evaluate"
    BY <1>1, <2>1 DEF JobRow
  <2>3. job[w].firings = {} /\ job[w].staged = NoRows
    BY <2>1 DEF Disciplined, Working
  <2>4. w \notin Consumers
    BY <1>1, <2>1 DEF Knows, Working
  <2> QED
    BY <2>1, <2>2, <2>3, <2>4 DEF Begins, Working
<1>9. ASSUME NEW q \in Rules, q \in job[w].left, pc[w] \in {"evaluate", "insert"},
             Decide(w, q, Read(q)), UNCHANGED <<rows, logKey>>,
             IF progress[q] = None
             THEN progressKey[q] = None /\ progressKey' = [progressKey EXCEPT ![q] = w]
             ELSE UNCHANGED progressKey
      PROVE  DecidesOn(w, q)
  <2>1. Read(q) \in UserRuleProgress /\ job[w].event \in Events
    BY <1>1, <1>9, FreshTyped DEF TablesTyped, Read, Knows, Working, Events
  <2>2. /\ job'[w] = Decided(w, q, Read(q))
        /\ pc'[w] = IF job[w].left \ {q} = {} THEN "issue" ELSE "evaluate"
    BY <1>1, <1>9, <2>1, DecideTyped
  <2>3. /\ job'[w].left = job[w].left \ {q} /\ job'[w].event = job[w].event
        /\ job'[w].staged = [job[w].staged EXCEPT ![q] =
               IF Made(w, q, Read(q)).row = progress[q] THEN None ELSE Made(w, q, Read(q)).row]
        /\ job'[w].base = [job[w].base EXCEPT ![q] = progress[q]]
        /\ job'[w].firings = IF Made(w, q, Read(q)).fires THEN job[w].firings \cup {q}
                             ELSE job[w].firings
    BY <1>1, <2>2 DEF Decided, JobRow
  <2> QED
    BY <1>9, <2>2, <2>3 DEF DecidesOn, rows
<1>10. ASSUME NEW q \in Rules, EvaluateRule(w, q)
       PROVE  DecidesOn(w, q) \/ GoesOn(w)
  <2>1. pc[w] = "evaluate" /\ UNCHANGED rows /\ q \in job[w].left
    <3>1. job[w].left # {} /\ q = FirstOf(job[w].left) /\ job[w].left \in SUBSET Rules
      BY <1>1, <1>10 DEF EvaluateRule, JobRow
    <3> QED
      BY <1>10, <3>1, FirstIsOne DEF EvaluateRule
  <2>2. CASE job' = [job EXCEPT ![w].rule = q] /\ Goto(w, "insert") /\ UNCHANGED locks
    <3>1. /\ job'[w].event = job[w].event /\ job'[w].left = job[w].left
          /\ job'[w].firings = job[w].firings /\ job'[w].staged = job[w].staged
          /\ job'[w].base = job[w].base /\ pc'[w] = "insert"
      BY <1>1, <2>2 DEF JobRow, Goto
    <3> QED
      BY <2>1, <2>2, <3>1 DEF GoesOn, locks, rows
  <2>3. CASE progress[q] # None /\ Decide(w, q, progress[q]) /\ UNCHANGED locks
    <3>1. Read(q) = progress[q]
      BY <2>3 DEF Read
    <3> QED
      BY <1>9, <2>1, <2>3, <3>1 DEF locks
  <2>4. CASE /\ progress[q] = None /\ progressKey[q] = None /\ Decide(w, q, FreshProgress)
             /\ progressKey' = [progressKey EXCEPT ![q] = w]
             /\ UNCHANGED <<rowLock, logKey, budgetLock>>
    <3>1. Read(q) = FreshProgress
      BY <2>4 DEF Read
    <3> QED
      BY <1>9, <2>1, <2>4, <3>1
  <2> QED
    BY <1>10, <2>2, <2>3, <2>4 DEF EvaluateRule
<1>11. ASSUME InsertWakes(w), ~Fail(w)
       PROVE  \E q \in Rules : DecidesOn(w, q)
  <2> DEFINE q == job[w].rule
  <2>1. /\ pc[w] = "insert" /\ progress[q] = None /\ progressKey[q] = None
        /\ Decide(w, q, FreshProgress) /\ progressKey' = [progressKey EXCEPT ![q] = w]
        /\ UNCHANGED <<rows, logKey>>
    BY <1>11 DEF InsertWakes
  <2>2. q \in Rules /\ q \in job[w].left /\ Read(q) = FreshProgress
    BY <1>1, <2>1 DEF Knows, Disciplined, Read
  <2> HIDE DEF q
  <2>3. DecidesOn(w, q)
    BY <1>9, <2>1, <2>2
  <2> QED
    BY <2>2, <2>3
<1>12. ASSUME NEW q \in Rules, SkipIssued(w, q)
       PROVE  GoesOn(w)
  <2>1. /\ pc[w] = "issue" /\ pc' = pc
        /\ UNCHANGED <<progress, stale, ingested, posted, logKey, progressKey>>
        /\ job' = [job EXCEPT ![w].firings = job[w].firings \ {q}]
    BY <1>12 DEF SkipIssued, rows, locks
  <2>2. /\ job'[w].event = job[w].event /\ job'[w].left = job[w].left
        /\ job'[w].firings \subseteq job[w].firings /\ job'[w].staged = job[w].staged
        /\ job'[w].base = job[w].base
    BY <1>1, <2>1 DEF JobRow
  <2> QED
    BY <2>1, <2>2 DEF GoesOn
<1>13. ASSUME NEW q \in Rules, NEW n \in Amounts, CheckBudgets(w, q, n), ~Fail(w)
       PROVE  GoesOn(w)
  <2>1. /\ pc[w] = "issue" /\ pc' = [pc EXCEPT ![w] = "post"]
        /\ UNCHANGED <<progress, stale, ingested, posted, logKey, progressKey>>
        /\ job' = [job EXCEPT ![w] = [job[w] EXCEPT !.rule = q, !.amount = n]]
    BY <1>13 DEF CheckBudgets, rows, Goto
  <2>2. /\ job'[w].event = job[w].event /\ job'[w].left = job[w].left
        /\ job'[w].firings = job[w].firings /\ job'[w].staged = job[w].staged
        /\ job'[w].base = job[w].base /\ pc'[w] = "post"
    BY <1>1, <2>1 DEF JobRow
  <2> QED
    BY <2>1, <2>2 DEF GoesOn
<1>14. ASSUME RecordFailure(w)
       PROVE  LetsGo(w)
  <2>1. /\ pc[w] = "failed" /\ UNCHANGED <<progress, stale, ingested, posted, logKey, progressKey>>
        /\ \/ job' = [job EXCEPT ![w].event = None] /\ pc' = [pc EXCEPT ![w] = "drain"]
           \/ job' = [job EXCEPT ![w] = IdleJob] /\ pc' = [pc EXCEPT ![w] = "idle"]
    BY <1>14 DEF RecordFailure, Goto, locks
  <2>2. job[w].left = {} /\ job[w].firings = {} /\ job[w].staged = NoRows
    BY <2>1 DEF Disciplined, Working
  <2>3. /\ pc'[w] \notin Working /\ job'[w].left = {} /\ job'[w].firings = {}
        /\ job'[w].staged = NoRows
    BY <1>1, <2>1, <2>2 DEF JobRow, IdleJob, Working
  <2> QED
    BY <2>1, <2>3 DEF LetsGo, Working, Processed
<1>15. ASSUME Post(w), ~Fail(w)
       PROVE  GoesOn(w) \/ Commits(w)
  <2>1. /\ pc[w] = "post" /\ pc' = [pc EXCEPT ![w] = "record"]
        /\ \/ UNCHANGED <<progress, stale, ingested, posted, logKey, progressKey, job>>
           \/ /\ posted[FiringOf(w)] = None /\ CommitStaged(w)
              /\ posted' = [posted EXCEPT ![FiringOf(w)] = job[w].amount]
              /\ job' = [job EXCEPT ![w].staged = NoRows]
    BY <1>15 DEF Post, Goto, rows, locks
  <2>2. pc'[w] = "record"
    BY <1>1, <2>1
  <2>3. CASE UNCHANGED <<progress, stale, ingested, posted, logKey, progressKey, job>>
    BY <2>1, <2>2, <2>3 DEF GoesOn
  <2>4. CASE job' = [job EXCEPT ![w].staged = NoRows] /\ ~UNCHANGED posted
    <3>1. /\ job'[w].event = job[w].event /\ job'[w].left = job[w].left
          /\ job'[w].firings = job[w].firings /\ job'[w].staged = NoRows
      BY <1>1, <2>4 DEF JobRow
    <3> QED
      BY <2>1, <2>2, <2>4, <3>1 DEF Commits
  <2>5. CASE job' = [job EXCEPT ![w].staged = NoRows] /\ UNCHANGED posted
    <3>1. /\ job'[w].event = job[w].event /\ job'[w].left = job[w].left
          /\ job'[w].firings = job[w].firings /\ job'[w].staged = NoRows
      BY <1>1, <2>5 DEF JobRow
    <3> QED
      BY <2>1, <2>2, <2>3, <2>5, <3>1 DEF Commits
  <2> QED
    BY <2>1, <2>3, <2>4, <2>5
<1>16. ASSUME Record(w), ~Fail(w)
       PROVE  Commits(w) \/ Loses(w)
  <2>1. /\ pc[w] = "record" /\ pc' = [pc EXCEPT ![w] = "issue"]
        /\ job' = [job EXCEPT ![w] = Through(w)]
        /\ \/ CommitStaged(w) /\ UNCHANGED posted
           \/ /\ rewardEvents[FiringOf(w)] # None
              /\ Unlock(w) /\ UNCHANGED <<progress, stale, ingested, posted>>
    BY <1>16 DEF Record, Goto, rows
  <2>2. /\ job'[w].event = job[w].event /\ job'[w].left = job[w].left
        /\ job'[w].firings \subseteq job[w].firings /\ job'[w].staged = NoRows
        /\ pc'[w] = "issue"
    BY <1>1, <2>1 DEF JobRow, Through
  <2> QED
    BY <2>1, <2>2 DEF Commits, Loses
<1>17. ASSUME Finish(w)
       PROVE  Commits(w)
  <2>1. /\ pc[w] = "issue" /\ CommitStaged(w) /\ UNCHANGED posted
        /\ \/ pc' = [pc EXCEPT ![w] = "idle"] /\ job' = [job EXCEPT ![w] = IdleJob]
           \/ /\ pc' = [pc EXCEPT ![w] = "drain"]
              /\ job' = [job EXCEPT ![w] = [IdleJob EXCEPT !.claimed = job[w].claimed]]
    BY <1>17 DEF Finish, Goto
  <2>2. /\ pc'[w] \notin Working /\ job'[w].left = {} /\ job'[w].firings = {}
        /\ job'[w].staged = NoRows
    BY <1>1, <2>1 DEF IdleJob, Working
  <2> QED
    BY <2>1, <2>2 DEF Commits
<1>18. Fault(w) \/ Crash(w) \/ Drained(w) => LetsGo(w)
  BY <1>2, <1>3 DEF Fault, Crash, Drained
<1>19. ClaimPending(w) \/ Sweep(w) => LetsGo(w)
  BY <1>4 DEF ClaimPending, Sweep, Working
<1>20. ASSUME Step(w)
       PROVE  \/ LetsGo(w) \/ Begins(w) \/ (\E q \in Rules : DecidesOn(w, q))
              \/ GoesOn(w) \/ Commits(w) \/ Loses(w)
  <2>1. CASE (\E e \in Internal : DrainRow(w, e)) \/ Drained(w) \/ RecordFailure(w) \/ Finish(w)
    BY <1>8, <1>14, <1>17, <1>18, <2>1
  <2>2. CASE \E q \in Rules : EvaluateRule(w, q) \/ SkipIssued(w, q)
    BY <1>10, <1>12, <2>2
  <2>3. CASE \E q \in Rules, n \in Amounts : CheckBudgets(w, q, n)
    BY <1>3, <1>13, <2>3
  <2>4. CASE InsertWakes(w) \/ Post(w) \/ Record(w)
    BY <1>3, <1>11, <1>15, <1>16, <2>4
  <2> QED
    BY <1>20, <2>1, <2>2, <2>3, <2>4 DEF Step
<1> QED
  BY <1>5, <1>6, <1>7, <1>18, <1>19, <1>20 DEF Acts

-----------------------------------------------------------------------------
(* What was paid shows                                                     *)

\* A rule whose event alone says whether it is due.
Direct(r) == Rule[r].kind \in {"first_time", "value_based", "campaign"}

Due(r, e) == Evaluate(Rule[r], FreshProgress, Event[e], {}).fires

\* The row says that its rule fired.
Fired(p) == p # None /\ (p.triggers > 0 \/ p.status = "COMPLETED")

\* A rule that is due leaves a row that says it fired, and no other rule
\* changes its row or fires.
LEMMA DirectFires ==
    ASSUME NEW r \in Rules, Direct(r), NEW e \in Events, NEW p \in UserRuleProgress, NEW txns
    PROVE  LET made == Evaluate(Rule[r], p, Event[e], txns)
           IN  /\ made.fires => Due(r, e) /\ Fired(made.row)
               /\ ~made.fires => made.row = p
               /\ Due(r, e) => Fired(made.row)
<1> DEFINE rule == Rule[r]
           ev == Event[e]
           made == Evaluate(rule, p, ev, txns)
           low == rule.minAmount # None /\ ev.amount < rule.minAmount
<1>1. /\ ev.at \in Int \cup {None} /\ p.triggers \in Nat /\ p # None
      /\ p.status \in {"IN_PROGRESS", "COMPLETED"}
      /\ rule.kind \in {"first_time", "value_based", "campaign"}
  <2>1. ev \in [type: STRING, amount: Nat, at: Nat]
    BY RewardsAssumption
  <2>2. p # None
    BY NotNone
  <2> QED
    BY <2>1, <2>2 DEF UserRuleProgress, Direct
<1>2. FreshProgress.triggers = 0 /\ FreshProgress.status = "IN_PROGRESS"
  BY DEF FreshProgress
<1>3. \A q : Quiet(q).row = q /\ ~Quiet(q).fires /\ Firing(q).row = q /\ Firing(q).fires
  BY DEF Quiet, Firing
<1> DEFINE once == [p EXCEPT !.triggers = 1, !.lastAt = ev.at, !.status = "COMPLETED"]
           more == [p EXCEPT !.triggers = @ + 1, !.lastAt = ev.at]
<1>4. once \in UserRuleProgress /\ Fired(once)
  <2>1. once \in UserRuleProgress /\ once.status = "COMPLETED"
    BY <1>1 DEF UserRuleProgress
  <2> HIDE DEF once
  <2> QED
    BY <2>1, NotNone DEF Fired
<1>5. Fired(Stopped(rule, more))
  <2>1. more \in UserRuleProgress /\ more.triggers > 0
    <3>1. p.triggers + 1 \in Nat /\ p.triggers + 1 > 0
      BY <1>1
    <3> QED
      BY <1>1, <3>1 DEF UserRuleProgress
  <2> HIDE DEF more
  <2>2. [more EXCEPT !.status = "COMPLETED"] \in UserRuleProgress
        /\ [more EXCEPT !.status = "COMPLETED"].triggers > 0
    BY <2>1 DEF UserRuleProgress
  <2>3. Stopped(rule, more) \in UserRuleProgress /\ Stopped(rule, more).triggers > 0
    BY <2>1, <2>2 DEF Stopped
  <2> QED
    BY <2>3, NotNone DEF Fired
<1> HIDE DEF once, more, ev, rule
<1>6. CASE rule.kind = "first_time"
  <2>1. made = IF p.status = "COMPLETED" \/ low \/ p.triggers > 0 THEN Quiet(p) ELSE Firing(once)
    BY <1>6 DEF Evaluate, Dispatch, FirstTime, OneShot, once
  <2>2. Due(r, e) <=> ~low
    BY <1>2, <1>3, <1>6 DEF Due, Evaluate, Dispatch, FirstTime, OneShot, rule, ev
  <2> HIDE DEF made, low
  <2>3. /\ made.fires => Due(r, e) /\ Fired(made.row)
        /\ ~made.fires => made.row = p
        /\ Due(r, e) => Fired(made.row)
    BY <1>1, <1>3, <1>4, <2>1, <2>2 DEF Fired
  <2> QED
    BY <2>3 DEF made, rule, ev
<1>7. CASE rule.kind = "campaign"
  <2> DEFINE in == ev.at \in rule.from..rule.to
  <2>1. made = IF p.status = "COMPLETED" \/ low \/ ~in \/ p.triggers > 0 THEN Quiet(p)
               ELSE Firing(once)
    BY <1>7 DEF Evaluate, Dispatch, Campaign, OneShot, once
  <2>2. Due(r, e) <=> ~low /\ in
    BY <1>2, <1>3, <1>7 DEF Due, Evaluate, Dispatch, Campaign, OneShot, rule, ev
  <2> HIDE DEF made, low, in
  <2>3. /\ made.fires => Due(r, e) /\ Fired(made.row)
        /\ ~made.fires => made.row = p
        /\ Due(r, e) => Fired(made.row)
    BY <1>1, <1>3, <1>4, <2>1, <2>2 DEF Fired
  <2> QED
    BY <2>3 DEF made, rule, ev
<1>8. CASE rule.kind = "value_based"
  <2>1. made = IF p.status = "COMPLETED" \/ low THEN Quiet(p) ELSE Firing(Stopped(rule, more))
    BY <1>8 DEF Evaluate, Dispatch, ValueBased, more
  <2>2. Due(r, e) <=> ~low
    BY <1>2, <1>3, <1>8 DEF Due, Evaluate, Dispatch, ValueBased, rule, ev
  <2> HIDE DEF made, low
  <2>3. /\ made.fires => Due(r, e) /\ Fired(made.row)
        /\ ~made.fires => made.row = p
        /\ Due(r, e) => Fired(made.row)
    BY <1>1, <1>3, <1>5, <2>1, <2>2 DEF Fired
  <2> QED
    BY <2>3 DEF made, rule, ev
<1> QED
  BY <1>1, <1>6, <1>7, <1>8

\* The row of r as w sees it.
Seen(w, r) == IF job[w].staged[r] # None THEN job[w].staged[r] ELSE progress[r]

\* What was paid for an event was paid with the rows of all rules it made due.
ShownTables(r) ==
    /\ \A q \in Rules, e \in Events :
           posted[<<q, e>>] # None /\ r \in Candidates(e) /\ Due(r, e) => Fired(progress[r])
    /\ \A e \in Events : posted[<<r, e>>] # None => r \in Candidates(e) /\ Due(r, e)
    /\ progressKey[r] # None => progress[r] = None

\* A row that w would commit says that r fired, or is the first of r; and w
\* means to pay what it sees a row for.
ShownLocals(w, r) ==
    /\ job[w].staged[r] # None =>
           IF progress[r] = None THEN progressKey[r] = w ELSE Fired(job[w].staged[r])
    /\ r \in job[w].firings => Due(r, job[w].event)
    /\ pc[w] \in Working /\ r \in Candidates(job[w].event) \ job[w].left /\ Due(r, job[w].event)
           => Fired(Seen(w, r))

ShownInv(r) == ShownTables(r) /\ \A w \in Workers : ShownLocals(w, r)

\* A step that commits nothing, and takes no key from another worker.
LEMMA ShownQuiet ==
    ASSUME NEW r \in Rules, ShownInv(r), NEW w \in Workers, UNCHANGED <<progress, posted>>,
           \A t \in Workers \ {w} : /\ pc'[t] = pc[t] /\ job'[t] = job[t]
                                    /\ progressKey[r] = t => progressKey'[r] = t,
           progressKey'[r] # None => progress[r] = None,
           ShownLocals(w, r)'
    PROVE  ShownInv(r)'
<1>1. \A t \in Workers \ {w} : ShownLocals(t, r)'
  BY DEF ShownInv, ShownLocals, Seen
<1>2. ShownTables(r)'
  BY DEF ShownInv, ShownTables
<1> QED
  BY <1>1, <1>2 DEF ShownInv

\* A rule that decides leaves rows that show what it decided.
LEMMA ShownDecided ==
    ASSUME Inv, NEW r \in Rules, Direct(r), ShownInv(r), NEW w \in Workers, NEW q \in Rules,
           DecidesOn(w, q), \A t \in Workers \ {w} : pc'[t] = pc[t] /\ job'[t] = job[t]
    PROVE  ShownInv(r)'
<1>1. /\ JobsTyped /\ TablesTyped /\ Knows(w) /\ DOMAIN progressKey = Rules
      /\ job[w].staged \in [Rules -> {None} \cup UserRuleProgress]
  BY TypeParts DEF Inv, JobsTyped, LocksTyped, JobRow
<1>2. job[w].event \in Events /\ Read(q) \in UserRuleProgress
  BY <1>1, FreshTyped DEF Knows, Working, Events, TablesTyped, Read, DecidesOn
<1> DEFINE made == Made(w, q, Read(q))
<1>3. /\ UNCHANGED <<progress, posted>> /\ job'[w].event = job[w].event
      /\ job'[w].left = job[w].left \ {q} /\ pc[w] \in Working
      /\ job'[w].staged = [job[w].staged EXCEPT ![q] = IF made.row = progress[q] THEN None
                                                       ELSE made.row]
      /\ job'[w].firings = IF made.fires THEN job[w].firings \cup {q} ELSE job[w].firings
  BY DEF DecidesOn, Working
<1> HIDE DEF made
<1>4. /\ \A t \in Workers \ {w} : progressKey[r] = t => progressKey'[r] = t
      /\ progressKey'[r] # None => progress[r] = None
      /\ progress[r] = None /\ q = r => progressKey'[r] = w
      /\ progressKey[r] = w => progressKey'[r] = w
  <2>1. CASE progress[q] = None
    <3>1. progressKey[q] = None /\ progressKey' = [progressKey EXCEPT ![q] = w]
      BY <2>1 DEF DecidesOn
    <3> QED
      BY <1>1, <2>1, <3>1, NotNone DEF ShownInv, ShownTables
  <2>2. CASE progress[q] # None
    <3>1. progressKey' = progressKey
      BY <2>2 DEF DecidesOn
    <3> QED
      BY <2>2, <3>1 DEF ShownInv, ShownTables
  <2> QED
    BY <2>1, <2>2
<1>5. CASE q # r
  <2>1. /\ job'[w].staged[r] = job[w].staged[r]
        /\ r \in job'[w].firings <=> r \in job[w].firings
        /\ r \in job'[w].left <=> r \in job[w].left
    BY <1>1, <1>3, <1>5
  <2>2. ShownLocals(w, r)'
    BY <1>3, <1>4, <2>1 DEF ShownInv, ShownLocals, Seen
  <2> QED
    BY <1>3, <1>4, <2>2, ShownQuiet
<1>6. CASE q = r
  <2>1. /\ made.fires => Due(r, job[w].event) /\ Fired(made.row)
        /\ ~made.fires => made.row = Read(r)
        /\ Due(r, job[w].event) => Fired(made.row)
    BY <1>2, <1>6, DirectFires DEF made, Made
  <2>2. job'[w].staged[r] = IF made.row = progress[r] THEN None ELSE made.row
    BY <1>1, <1>3, <1>6
  <2>3. Seen(w, r)' = made.row
    <3>1. made.row # None
      BY <1>2, <1>6, RewardsAssumption, EvaluateTyped, NotNone DEF made, Made
    <3> QED
      BY <1>3, <2>2, <3>1 DEF Seen
  <2>4. job'[w].staged[r] # None =>
            IF progress[r] = None THEN progressKey'[r] = w ELSE Fired(job'[w].staged[r])
    <3>1. CASE progress[r] = None
      BY <1>4, <1>6, <3>1
    <3>2. CASE progress[r] # None
      <4>1. Read(r) = progress[r]
        BY <3>2 DEF Read
      <4> QED
        BY <2>1, <2>2, <3>2, <4>1
    <3> QED
      BY <3>1, <3>2
  <2>5. r \in job'[w].firings => Due(r, job'[w].event)
    BY <1>3, <1>6, <2>1 DEF ShownInv, ShownLocals
  <2>6. ShownLocals(w, r)'
    BY <1>3, <2>1, <2>3, <2>4, <2>5 DEF ShownLocals
  <2> QED
    BY <1>3, <1>4, <2>6, ShownQuiet
<1> QED
  BY <1>5, <1>6

\* A commit makes durable the rows of everything its event made due.
LEMMA ShownCommitted ==
    ASSUME Inv, NEW r \in Rules, ShownInv(r), NEW w \in Workers, Disciplined(w), Commits(w),
           \A t \in Workers \ {w} : pc'[t] = pc[t] /\ job'[t] = job[t]
    PROVE  ShownInv(r)'
<1>1. /\ JobsTyped /\ TablesTyped /\ Knows(w) /\ DOMAIN progressKey = Rules
      /\ ShownLocals(w, r) /\ ShownTables(r) /\ job[w].left = {} /\ pc[w] \in Working
  BY TypeParts DEF Inv, LocksTyped, ShownInv, Disciplined, Commits, Working
<1>2. /\ progress'[r] = Seen(w, r)
      /\ progressKey'[r] = IF progressKey[r] = w THEN None ELSE progressKey[r]
      /\ job'[w].staged[r] = None
  BY <1>1 DEF Commits, CommitStaged, Unlock, Freed, NoRows, Seen
<1>3. r \in Candidates(job[w].event) /\ Due(r, job[w].event) => Fired(progress'[r])
  BY <1>1, <1>2 DEF ShownLocals
<1>4. Fired(progress[r]) => Fired(progress'[r])
  BY <1>1, <1>2 DEF ShownLocals, Seen, Fired
<1>5. ASSUME NEW q \in Rules, NEW e \in Events, posted'[<<q, e>>] # None, posted[<<q, e>>] = None
      PROVE  q = job[w].rule /\ e = job[w].event /\ q \in job[w].firings
  <2>1. pc[w] = "post" /\ posted' = [posted EXCEPT ![FiringOf(w)] = job[w].amount]
    BY <1>5 DEF Commits
  <2>2. <<q, e>> = FiringOf(w)
    BY <1>1, <1>5, <2>1 DEF TablesTyped, Firings
  <2> QED
    BY <2>1, <2>2 DEF FiringOf, Disciplined
<1>6. ShownTables(r)'
  <2>1. ASSUME NEW q \in Rules, NEW e \in Events, posted'[<<q, e>>] # None,
               r \in Candidates(e), Due(r, e)
        PROVE  Fired(progress'[r])
    BY <1>1, <1>3, <1>4, <1>5, <2>1 DEF ShownTables
  <2>2. ASSUME NEW e \in Events, posted'[<<r, e>>] # None
        PROVE  r \in Candidates(e) /\ Due(r, e)
    BY <1>1, <1>5, <2>2 DEF ShownTables, ShownLocals, Disciplined
  <2>3. progressKey'[r] # None => progress'[r] = None
    BY <1>1, <1>2 DEF ShownTables, ShownLocals, Seen
  <2> QED
    BY <2>1, <2>2, <2>3 DEF ShownTables, Candidates, Due
<1>7. ShownLocals(w, r)'
  <2>1. r \in job'[w].firings => Due(r, job'[w].event)
    BY <1>1 DEF Commits, ShownLocals
  <2>2. pc'[w] \in Working => job'[w].event = job[w].event
    BY DEF Commits
  <2>3. Seen(w, r)' = progress'[r]
    BY <1>2 DEF Seen
  <2> QED
    BY <1>2, <1>3, <2>1, <2>2, <2>3 DEF ShownLocals, Candidates, Due
<1>8. ASSUME NEW t \in Workers \ {w}
      PROVE  ShownLocals(t, r)'
  <2>1. ShownLocals(t, r) /\ pc'[t] = pc[t] /\ job'[t] = job[t]
    BY DEF ShownInv
  <2>2. job[t].staged[r] # None =>
            IF progress'[r] = None THEN progressKey'[r] = t ELSE Fired(job[t].staged[r])
    BY <1>1, <1>2, <2>1 DEF ShownLocals, Seen
  <2>3. Fired(Seen(t, r)) => Fired(Seen(t, r)')
    BY <1>4, <2>1 DEF Seen
  <2> QED
    BY <2>1, <2>2, <2>3 DEF ShownLocals, Candidates, Due
<1> QED
  BY <1>6, <1>7, <1>8 DEF ShownInv

\* Every step of a worker keeps the rows of what was paid.
LEMMA ShownActs ==
    ASSUME Inv, NEW r \in Rules, Direct(r), ShownInv(r), NEW w \in Workers, Disciplined(w), Acts(w)
    PROVE  ShownInv(r)'
<1>1. JobsTyped /\ Knows(w) /\ DOMAIN progressKey = Rules
  BY TypeParts DEF Inv, LocksTyped
<1>2. \A t \in Workers \ {w} : pc'[t] = pc[t] /\ job'[t] = job[t]
  BY <1>1, Alone
<1>3. ASSUME Unlock(w) \/ UNCHANGED progressKey, UNCHANGED progress
      PROVE  /\ \A t \in Workers \ {w} : progressKey[r] = t => progressKey'[r] = t
             /\ progressKey'[r] # None => progress[r] = None
  BY <1>1, <1>3 DEF Unlock, Freed, ShownInv, ShownTables
<1>4. CASE LetsGo(w)
  <2>1. ShownLocals(w, r)'
    BY <1>4 DEF LetsGo, ShownLocals, NoRows
  <2> QED
    BY <1>2, <1>3, <1>4, <2>1, ShownQuiet DEF LetsGo
<1>5. CASE Begins(w)
  <2>1. ShownLocals(w, r)'
    BY <1>5 DEF Begins, ShownLocals, NoRows, Candidates, Due
  <2> QED
    BY <1>2, <1>3, <1>5, <2>1, ShownQuiet DEF Begins
<1>6. CASE \E q \in Rules : DecidesOn(w, q)
  BY <1>2, <1>6, ShownDecided
<1>7. CASE GoesOn(w)
  <2>1. ShownLocals(w, r)'
    BY <1>7 DEF GoesOn, ShownInv, ShownLocals, Seen, Candidates, Due, Working
  <2> QED
    BY <1>2, <1>3, <1>7, <2>1, ShownQuiet DEF GoesOn
<1>8. CASE Commits(w)
  BY <1>2, <1>8, ShownCommitted
<1>9. CASE Loses(w)
  <2>1. /\ pc[w] = "record" /\ job'[w].event = job[w].event /\ job'[w].left = job[w].left
        /\ job'[w].staged[r] = None /\ job'[w].firings \subseteq job[w].firings
        /\ UNCHANGED <<progress, posted>>
    BY <1>9 DEF Loses, NoRows
  <2>2. /\ job[w].rule \in Rules /\ job[w].event \in Events /\ posted[FiringOf(w)] # None
    BY <1>1, <2>1 DEF Knows, Working, Events
  <2>3. r \in Candidates(job[w].event) /\ Due(r, job[w].event) => Fired(progress[r])
    BY <2>2 DEF ShownInv, ShownTables, FiringOf
  <2>4. ShownLocals(w, r)'
    BY <2>1, <2>3 DEF ShownInv, ShownLocals, Seen, Candidates, Due
  <2> QED
    BY <1>2, <1>3, <1>9, <2>1, <2>4, ShownQuiet DEF Loses
<1> QED
  BY <1>4, <1>5, <1>6, <1>7, <1>8, <1>9, Shapes

DirectInv == \A r \in Rules : Direct(r) => ShownInv(r)

\* So does every step.
LEMMA StaysShown == ASSUME Inv, OneTimeInv, DirectInv, [Next]_vars PROVE DirectInv'
<1>1. ASSUME NEW w \in Workers, Acts(w)
      PROVE  DirectInv'
  BY <1>1, ShownActs DEF OneTimeInv, DirectInv, Direct
<1>2. CASE UNCHANGED <<outbox, ingested, progress, stale, posted, rewardEvents, locks, pc, job, faults>>
  BY <1>2 DEF DirectInv, ShownInv, ShownTables, ShownLocals, Seen, locks, Direct, Candidates, Due
<1> QED
  BY <1>1, <1>2, SomebodyActs

\* At the start nothing was paid.
LEMMA StartsShown == Init => DirectInv
<1> SUFFICES ASSUME Init, NEW r \in Rules PROVE ShownInv(r)
  BY DEF DirectInv
<1>1. /\ pc = [w \in Workers |-> "idle"] /\ job = [w \in Workers |-> IdleJob]
      /\ posted = [f \in Firings |-> None] /\ progress = NoRows
      /\ progressKey = [q \in Rules |-> None]
  BY DEF Init
<1>2. ShownTables(r)
  BY <1>1 DEF ShownTables, Firings
<1>3. \A w \in Workers : ShownLocals(w, r)
  BY <1>1 DEF ShownLocals, IdleJob, NoRows, Working
<1> QED
  BY <1>2, <1>3 DEF ShownInv

\* A reward that was paid by a rule that does not count up to it is never
\* shown as still locked: a first payment for an event commits the rows of all
\* rules the event made due, and a session that wrote a row from a stale one
\* wrote that the rule fired, too.
THEOREM PaidRewardsShow == Spec => []PaidIsShown
<1>1. DirectInv /\ Inv => PaidIsShown
  <2> SUFFICES ASSUME DirectInv, Inv, NEW r \in Rules, Direct(r), Paid(r) # {}
               PROVE  Standing(Rule[r], progress[r]) # "locked"
    BY DEF PaidIsShown, Direct
  <2>1. PICK e \in Events : posted[<<r, e>>] # None
    BY DEF Paid
  <2>2. Fired(progress[r])
    BY <2>1 DEF DirectInv, ShownInv, ShownTables
  <2>3. progress[r] # None /\ progress[r] \in UserRuleProgress
    BY <2>2, TypeParts DEF Inv, TablesTyped, Fired
  <2>4. Reached(Rule[r], progress[r]) = 1
    BY <2>2, <2>3 DEF Reached, Direct, Fired
  <2> QED
    BY <2>4 DEF Standing
<1> QED
  BY <1>1, StartsShown, StaysShown, StartsOnce, StaysOnce, Invariance, PTL DEF Spec

-----------------------------------------------------------------------------
(* What a milestone pays was earned                                        *)

\* A milestone that starts over and counts external events only.
Earning(r) ==
    /\ Rule[r].kind = "milestone" /\ Rule[r].resets
    /\ {e \in Events : r \in Candidates(e)} \subseteq External

CountOf(p) == IF p = None THEN 0 ELSE p.count

\* A milestone that fires starts over from a full count and leaves another row;
\* one that does not counts at most one more, and stays below the threshold.
LEMMA MilestoneCounts ==
    ASSUME NEW r \in Rules, Earning(r), NEW e \in Events, NEW p \in UserRuleProgress, NEW txns
    PROVE  LET made == Evaluate(Rule[r], p, Event[e], txns)
           IN  /\ made.row \in UserRuleProgress
               /\ made.fires => /\ made.row.count = 0 /\ p.count + 1 >= Rule[r].threshold
                                /\ made.row # p
               /\ ~made.fires => /\ made.row.count <= p.count + 1
                                 /\ made.row = p \/ made.row.count < Rule[r].threshold
<1> DEFINE rule == Rule[r]
           ev == Event[e]
           made == Evaluate(rule, p, ev, txns)
           late == [p EXCEPT !.count = 0, !.windowStart = None]
<1>0. \A n \in Nat : n + 1 \in Nat
  OBVIOUS
<1>1. /\ rule \in RuleRow /\ Creatable(rule) /\ ev \in [type: STRING, amount: Nat, at: Nat]
      /\ rule.threshold \in Nat /\ rule.kind = "milestone" /\ rule.resets
  BY RewardsAssumption DEF Earning, RuleRow, Creatable
<1>2. made.row \in UserRuleProgress
  BY <1>1, EvaluateTyped
<1>3. ASSUME NEW q \in UserRuleProgress, q.count <= p.count, q.triggers = p.triggers
      PROVE  LET counts == CountMilestone(rule, q, ev)
             IN  /\ counts.fires => /\ counts.row.count = 0 /\ p.count + 1 >= rule.threshold
                                    /\ counts.row # p
                 /\ ~counts.fires => /\ counts.row.count <= p.count + 1
                                     /\ counts.row.count < rule.threshold
  <2> DEFINE counted == [q EXCEPT !.count = @ + 1, !.lastAt = ev.at,
                                  !.windowStart = IF @ = None THEN ev.at ELSE @]
             fired == [counted EXCEPT !.triggers = @ + 1,
                                      !.count = IF rule.resets THEN 0 ELSE @,
                                      !.windowStart = IF rule.resets THEN None ELSE @]
  <2>1. p.count \in Nat /\ q.count \in Nat /\ q.triggers \in Nat /\ ev.at \in Int
    BY <1>1 DEF UserRuleProgress
  <2>2. /\ counted \in UserRuleProgress /\ counted.count = q.count + 1
        /\ counted.triggers = q.triggers
    <3>1. /\ q.count + 1 \in Nat
          /\ (IF q.windowStart = None THEN ev.at ELSE q.windowStart) \in Int \cup {None}
      BY <1>0, <2>1, ProgressColumns
    <3>2. counted \in UserRuleProgress
      BY <2>1, <3>1 DEF UserRuleProgress
    <3>3. counted.count = q.count + 1 /\ counted.triggers = q.triggers
      BY DEF UserRuleProgress
    <3> HIDE DEF counted
    <3> QED
      BY <3>2, <3>3
  <2> HIDE DEF counted
  <2>3. fired \in UserRuleProgress /\ fired.count = 0 /\ fired.triggers = q.triggers + 1
    <3>1. /\ counted.triggers + 1 \in Nat
          /\ (IF rule.resets THEN 0 ELSE counted.count) \in Nat
          /\ (IF rule.resets THEN None ELSE counted.windowStart) \in Int \cup {None}
      BY <1>0, <2>2, ProgressColumns
    <3>2. fired \in UserRuleProgress
      BY <2>2, <3>1 DEF UserRuleProgress
    <3>3. fired.count = 0 /\ fired.triggers = q.triggers + 1
      BY <1>1, <2>2 DEF UserRuleProgress
    <3> HIDE DEF fired
    <3> QED
      BY <3>2, <3>3
  <2> HIDE DEF fired
  <2>4. Stopped(rule, fired).count = 0 /\ Stopped(rule, fired).triggers = q.triggers + 1
    BY <2>3 DEF Stopped, UserRuleProgress
  <2>5. CountMilestone(rule, q, ev) = IF counted.count < rule.threshold THEN Quiet(counted)
                                      ELSE Firing(Stopped(rule, fired))
    BY DEF CountMilestone, counted, fired
  <2>6. /\ counted.count < rule.threshold => CountMilestone(rule, q, ev) = Quiet(counted)
        /\ ~(counted.count < rule.threshold)
               => CountMilestone(rule, q, ev) = Firing(Stopped(rule, fired))
    BY <2>5
  <2> QED
    BY <1>1, <1>3, <2>1, <2>2, <2>4, <2>6 DEF Quiet, Firing, UserRuleProgress
<1>4. /\ late \in UserRuleProgress /\ late.count <= p.count /\ p.count \in Nat
      /\ late.triggers = p.triggers
  <2>1. late \in UserRuleProgress
    BY DEF UserRuleProgress
  <2>2. late.count = 0 /\ p.count \in Nat /\ late.triggers = p.triggers
    BY DEF UserRuleProgress
  <2> HIDE DEF late
  <2> QED
    BY <2>1, <2>2
<1>5. made \in {Quiet(p), CountMilestone(rule, p, ev), CountMilestone(rule, late, ev)}
  <2> DEFINE expired == p.windowStart # None
                            /\ MilestoneWindowExpired(rule.window, p.windowStart, ev.at)
  <2>1. made = IF p.status = "COMPLETED" \/ (rule.minAmount # None /\ ev.amount < rule.minAmount)
               THEN Quiet(p) ELSE CountMilestone(rule, IF expired THEN late ELSE p, ev)
    BY <1>1 DEF Evaluate, Dispatch, Milestone
  <2> HIDE DEF expired, late, made
  <2> QED
    BY <2>1
<1> HIDE DEF late, made
<1>6. /\ made.fires => made.row.count = 0 /\ p.count + 1 >= rule.threshold /\ made.row # p
      /\ ~made.fires => /\ made.row.count <= p.count + 1
                        /\ made.row = p \/ made.row.count < rule.threshold
  BY <1>3, <1>4, <1>5 DEF Quiet
<1> QED
  BY <1>2, <1>6 DEF made

\* The logged event that w has yet to pay by r; and the events r has paid or is
\* about to.
Owes(w, r) == {e \in Processed : e = job[w].event /\ r \in job[w].firings}

Unpaid(r) == UNION {Owes(w, r) : w \in Workers}

Earnt(r) == Paid(r) \cup Unpaid(r)

\* Every event was counted once, into the counter or into a reward, but for
\* those that a write over a changed row counted again: fewer than a threshold.
EarnedTables(r) ==
    /\ IsFiniteSet(Earnt(r)) /\ IsFiniteSet(Processed)
    /\ Cardinality(Earnt(r)) * Rule[r].threshold + CountOf(progress[r])
           <= Cardinality(Processed) + stale[r] * (Rule[r].threshold - 1)

\* What a worker has staged for r follows from the row it read.  A consumer has
\* nothing of its own left to commit once its event is logged.
EarnedLocals(w, r) ==
    /\ job[w].staged[r] # None => r \in Candidates(job[w].event) \ job[w].left
    /\ r \notin job[w].left \cap job[w].firings
    /\ \A x \in External : logKey[x] = w => pc[w] \in Working /\ x = job[w].event
    /\ w \in Consumers /\ pc[w] \in Working =>
           /\ job[w].event \in Processed
                  => job[w].staged[r] = None /\ pc[w] \notin {"evaluate", "insert"}
           /\ job[w].event \notin Processed /\ r \in job[w].firings => job[w].staged[r] # None
           /\ job[w].staged[r] # None =>
                  /\ job[w].staged[r].count < Rule[r].threshold
                  /\ job[w].staged[r].count <= CountOf(job[w].base[r]) + 1
                  /\ r \in job[w].firings =>
                         /\ job[w].staged[r].count = 0
                         /\ CountOf(job[w].base[r]) + 1 >= Rule[r].threshold

EarnedInv(r) == EarnedTables(r) /\ \A w \in Workers : EarnedLocals(w, r)

LEMMA Products ==
    /\ \A n, m \in Nat : n * m \in Nat
    /\ \A n, m \in Nat : (n + 1) * m = n * m + m
    /\ \A n, m, k \in Nat : n <= m => n * k <= m * k
<1>1. \A n, m \in Nat : n * m \in Nat /\ (n + 1) * m = n * m + m
  OBVIOUS
<1>2. ASSUME NEW n \in Nat, NEW m \in Nat, NEW k \in Nat, n <= m
      PROVE  n * k <= m * k
  <2>1. PICK d \in Nat : m = n + d
    <3>1. m - n \in Nat /\ m = n + (m - n)
      BY <1>2
    <3> QED
      BY <3>1
  <2>2. (n + d) * k = n * k + d * k /\ d * k \in Nat /\ n * k \in Nat
    BY <1>1
  <2> QED
    BY <2>1, <2>2
<1> QED
  BY <1>1, <1>2

\* The figures are whole numbers.
LEMMA EarnedNumbers ==
    ASSUME Inv, NEW r \in Rules, Earning(r), EarnedTables(r)
    PROVE  /\ Rule[r].threshold \in Nat \ {0} /\ Rule[r].threshold - 1 \in Nat
           /\ Cardinality(Earnt(r)) \in Nat /\ Cardinality(Processed) \in Nat
           /\ CountOf(progress[r]) \in Nat /\ stale[r] \in Nat
           /\ Cardinality(Earnt(r)) * Rule[r].threshold \in Nat
           /\ stale[r] * (Rule[r].threshold - 1) \in Nat
<1>1. Rule[r].threshold \in Nat \ {0}
  BY RewardsAssumption DEF Earning, RuleRow, Creatable
<1>2. Rule[r].threshold - 1 \in Nat
  BY <1>1
<1>3. Cardinality(Earnt(r)) \in Nat /\ Cardinality(Processed) \in Nat
  BY FS_CardinalityType DEF EarnedTables
<1>4. progress[r] \in {None} \cup UserRuleProgress /\ stale[r] \in Nat
  BY TypeParts DEF Inv, TablesTyped
<1>5. CountOf(progress[r]) \in Nat
  BY <1>4 DEF CountOf, UserRuleProgress
<1>6. /\ Cardinality(Earnt(r)) * Rule[r].threshold \in Nat
      /\ stale[r] * (Rule[r].threshold - 1) \in Nat
  BY <1>1, <1>2, <1>3, <1>4, Products
<1> QED
  BY <1>1, <1>2, <1>3, <1>4, <1>5, <1>6

\* What is earned and not more, with no more events logged.
LEMMA EarnedFewer ==
    ASSUME Inv, NEW r \in Rules, Earning(r), EarnedTables(r), Earnt(r)' \subseteq Earnt(r),
           Processed' = Processed, progress'[r] = progress[r], stale'[r] = stale[r]
    PROVE  EarnedTables(r)'
<1>1. /\ IsFiniteSet(Earnt(r))' /\ Cardinality(Earnt(r))' <= Cardinality(Earnt(r))
      /\ Cardinality(Earnt(r))' \in Nat
  <2>1. IsFiniteSet(Earnt(r))
    BY DEF EarnedTables
  <2>2. \A S, U : IsFiniteSet(U) /\ S \subseteq U =>
            IsFiniteSet(S) /\ Cardinality(S) <= Cardinality(U) /\ Cardinality(S) \in Nat
    BY FS_Subset, FS_CardinalityType
  <2>3. \A S : IsFiniteSet(Earnt(r)) /\ S \subseteq Earnt(r) =>
            IsFiniteSet(S) /\ Cardinality(S) <= Cardinality(Earnt(r)) /\ Cardinality(S) \in Nat
    BY <2>2
  <2> QED
    BY <2>1, <2>3
<1>2. Cardinality(Earnt(r))' * Rule[r].threshold <= Cardinality(Earnt(r)) * Rule[r].threshold
  BY <1>1, EarnedNumbers, Products
<1>3. Cardinality(Earnt(r))' * Rule[r].threshold \in Nat
  BY <1>1, EarnedNumbers, Products
<1>4. CountOf(progress[r])' = CountOf(progress[r]) /\ Cardinality(Processed)' = Cardinality(Processed)
  BY DEF CountOf
<1>5. Cardinality(Earnt(r))' * Rule[r].threshold + CountOf(progress[r])'
          <= Cardinality(Processed)' + stale'[r] * (Rule[r].threshold - 1)
  BY <1>2, <1>3, <1>4, EarnedNumbers DEF EarnedTables
<1>6. IsFiniteSet(Processed)'
  BY DEF EarnedTables
<1> QED
  BY <1>1, <1>5, <1>6 DEF EarnedTables

\* A step that neither logs an event nor pays for one.
LEMMA EarnedQuiet ==
    ASSUME Inv, NEW r \in Rules, Earning(r), EarnedInv(r), NEW w \in Workers,
           progress'[r] = progress[r], stale'[r] = stale[r],
           \A e \in Events : posted'[<<r, e>>] = posted[<<r, e>>], Processed' = Processed,
           Owes(w, r)' \subseteq Owes(w, r),
           \A t \in Workers \ {w} : /\ pc'[t] = pc[t] /\ job'[t] = job[t]
                                    /\ \A x \in External : logKey'[x] = t => logKey[x] = t,
           EarnedLocals(w, r)'
    PROVE  EarnedInv(r)'
<1>1. Paid(r)' = Paid(r)
  BY DEF Paid
<1>2. \A t \in Workers \ {w} : Owes(t, r)' = Owes(t, r)
  BY DEF Owes
<1>3. Unpaid(r)' \subseteq Unpaid(r)
  <2>1. \A t \in Workers : Owes(t, r)' \subseteq Owes(t, r)
    BY <1>2
  <2> QED
    BY <2>1 DEF Unpaid
<1>4. EarnedTables(r)'
  <2>1. Earnt(r)' \subseteq Earnt(r)
    BY <1>1, <1>3 DEF Earnt
  <2> QED
    BY <2>1, EarnedFewer DEF EarnedInv
<1>5. ASSUME NEW t \in Workers \ {w}
      PROVE  EarnedLocals(t, r)'
  <2>1. EarnedLocals(t, r)
    BY DEF EarnedInv
  <2> QED
    BY <2>1 DEF EarnedLocals, Candidates, CountOf
<1> QED
  BY <1>4, <1>5 DEF EarnedInv

\* The event being evaluated is counted, or pays for a full count.
LEMMA EarnedDecided ==
    ASSUME Inv, NEW r \in Rules, Earning(r), EarnedInv(r), NEW w \in Workers, Disciplined(w),
           NEW q \in Rules, DecidesOn(w, q)
    PROVE  EarnedLocals(w, r)' /\ Owes(w, r)' \subseteq Owes(w, r)
<1>1. /\ JobsTyped /\ TablesTyped /\ Knows(w) /\ EarnedLocals(w, r) /\ EarnedTables(r)
      /\ job[w].staged \in [Rules -> {None} \cup UserRuleProgress]
      /\ job[w].base \in [Rules -> {None} \cup UserRuleProgress]
  BY TypeParts DEF Inv, JobsTyped, JobRow, EarnedInv
<1>2. job[w].event \in Events /\ Read(q) \in UserRuleProgress
  BY <1>1, FreshTyped DEF Knows, Working, Events, TablesTyped, Read, DecidesOn
<1> DEFINE made == Made(w, q, Read(q))
<1>3. /\ UNCHANGED <<progress, posted, logKey>> /\ job'[w].event = job[w].event
      /\ Processed' = Processed
      /\ job'[w].left = job[w].left \ {q} /\ pc[w] \in {"evaluate", "insert"}
      /\ q \in job[w].left /\ pc'[w] \in Working
      /\ job'[w].staged = [job[w].staged EXCEPT ![q] = IF made.row = progress[q] THEN None
                                                       ELSE made.row]
      /\ job'[w].base = [job[w].base EXCEPT ![q] = progress[q]]
      /\ job'[w].firings = IF made.fires THEN job[w].firings \cup {q} ELSE job[w].firings
  BY DEF DecidesOn, Working, Processed
<1> HIDE DEF made
<1>4. w \in Consumers => job[w].event \notin Processed
  BY <1>1, <1>3 DEF EarnedLocals, Working
<1>5. Owes(w, r)' \subseteq Owes(w, r)
  <2>1. CASE w \in Consumers
    BY <1>3, <1>4, <2>1 DEF Owes
  <2>2. CASE w \notin Consumers
    <3>1. job[w].event \in Internal
      BY <1>1, <1>3, <2>2 DEF Knows, Working
    <3>2. job[w].event \notin Processed
      BY <3>1, RewardsAssumption DEF Processed
    <3> QED
      BY <1>3, <3>2 DEF Owes
  <2> QED
    BY <2>1, <2>2
<1>6. CASE q # r
  <2>1. /\ job'[w].staged[r] = job[w].staged[r] /\ job'[w].base[r] = job[w].base[r]
        /\ r \in job'[w].firings <=> r \in job[w].firings
        /\ r \in job'[w].left <=> r \in job[w].left
    BY <1>1, <1>3, <1>6
  <2>2. pc[w] \in Working
    BY <1>3 DEF Working
  <2> QED
    BY <1>1, <1>3, <1>4, <1>5, <2>1, <2>2 DEF EarnedLocals, Candidates, CountOf
<1>7. CASE q = r
  <2>1. /\ made.row \in UserRuleProgress
        /\ made.fires => /\ made.row.count = 0 /\ Read(r).count + 1 >= Rule[r].threshold
                         /\ made.row # Read(r)
        /\ ~made.fires => /\ made.row.count <= Read(r).count + 1
                          /\ made.row = Read(r) \/ made.row.count < Rule[r].threshold
    BY <1>2, <1>7, MilestoneCounts DEF made, Made
  <2>2. /\ job'[w].staged[r] = IF made.row = progress[r] THEN None ELSE made.row
        /\ job'[w].base[r] = progress[r]
    BY <1>1, <1>3, <1>7
  <2>3. Read(r).count = CountOf(progress[r]) /\ Read(r).count \in Nat
    BY <1>2, <1>7 DEF Read, CountOf, FreshProgress, UserRuleProgress
  <2>4. r \notin job[w].firings /\ r \in Candidates(job[w].event) /\ r \notin job'[w].left
    BY <1>1, <1>3, <1>7 DEF EarnedLocals, Disciplined, Working
  <2>5. Rule[r].threshold \in Nat \ {0}
    BY <1>1, EarnedNumbers
  <2>6. r \in job'[w].firings <=> made.fires
    BY <1>3, <1>7, <2>4
  <2>7. made.fires => job'[w].staged[r] # None
    BY <2>1, <2>2, NotNone DEF Read
  <2>8. ASSUME job'[w].staged[r] # None
        PROVE  /\ job'[w].staged[r].count < Rule[r].threshold
               /\ job'[w].staged[r].count <= CountOf(job'[w].base[r]) + 1
               /\ r \in job'[w].firings =>
                      /\ job'[w].staged[r].count = 0
                      /\ CountOf(job'[w].base[r]) + 1 >= Rule[r].threshold
    <3>1. job'[w].staged[r] = made.row /\ made.row # progress[r]
      BY <2>2, <2>8
    <3>2. CASE made.fires
      BY <2>1, <2>2, <2>3, <2>5, <3>1, <3>2
    <3>3. CASE ~made.fires
      <4>1. made.row = Read(r) => made.row.count = 0
        BY <3>1 DEF Read, FreshProgress
      <4> QED
        BY <2>1, <2>2, <2>3, <2>5, <2>6, <3>1, <3>3, <4>1
    <3> QED
      BY <3>2, <3>3
  <2>9. CountOf(job'[w].base[r]) = CountOf(job[w].base[r])'
    BY DEF CountOf
  <2> QED
    BY <1>1, <1>3, <1>4, <1>5, <2>4, <2>6, <2>7, <2>8, <2>9 DEF EarnedLocals, Candidates, Working
<1> QED
  BY <1>6, <1>7

\* The commit of the consumer logs its event, and keeps what it counted of it.
LEMMA EarnedCommitted ==
    ASSUME Inv, NEW r \in Rules, Earning(r), EarnedInv(r), NEW w \in Consumers, w \in Workers,
           \A t \in Workers : Disciplined(t), Commits(w),
           \A t \in Workers \ {w} : job'[t] = job[t] /\ pc'[t] = pc[t]
    PROVE  /\ EarnedTables(r)' /\ EarnedLocals(w, r)'
           /\ \A t \in Workers \ {w} :
                  pc[t] \in Working /\ job[t].event \in Processed' => job[t].event \in Processed
<1>1. /\ JobsTyped /\ TablesTyped /\ LocksTyped /\ Knows(w) /\ EarnedLocals(w, r)
      /\ EarnedTables(r) /\ job[w].left = {} /\ pc[w] \in {"issue", "post", "record"}
      /\ pc[w] \in Working
  BY TypeParts DEF Inv, EarnedInv, Disciplined, Commits, Working
<1>2. job[w].event \in External /\ job[w].event \in Events /\ InLog(w, job[w].event)
  BY <1>1 DEF Knows, Events
<1>3. /\ progress'[r] = Seen(w, r) /\ job'[w].staged[r] = None
      /\ stale'[r] = IF job[w].staged[r] # None /\ job[w].base[r] # progress[r]
                     THEN stale[r] + 1 ELSE stale[r]
      /\ ingested' = [x \in External |-> IF logKey[x] = w THEN "PROCESSED" ELSE ingested[x]]
      /\ logKey' = Freed(logKey, w) /\ job'[w].left = {} /\ job'[w].firings \subseteq job[w].firings
      /\ pc'[w] \in Working => job'[w].event = job[w].event /\ pc'[w] \in {"issue", "record"}
      /\ pc'[w] \notin Working => job'[w].firings = {}
  BY <1>1 DEF Commits, CommitStaged, Unlock, NoRows, Seen, Working
<1>4. \A x \in External : logKey'[x] # w
  BY <1>1, <1>3, RewardsAssumption DEF LocksTyped, Freed, Workers
<1>5. Processed' = Processed \cup {job[w].event}
  <2>1. ASSUME NEW x \in External
        PROVE  ingested'[x] = "PROCESSED" <=> ingested[x] = "PROCESSED" \/ x = job[w].event
    BY <1>1, <1>2, <1>3 DEF EarnedLocals, InLog
  <2> QED
    BY <1>2, <2>1 DEF Processed
<1>6. EarnedLocals(w, r)'
  <2>1. pc'[w] \in Working => job'[w].event \in Processed'
    BY <1>3, <1>5
  <2> QED
    BY <1>3, <1>4, <2>1 DEF EarnedLocals
\* No other worker has the event in hand before it is logged.
<1>7. ASSUME NEW t \in Workers \ {w}, pc[t] \in Working, job[t].event \in Processed'
      PROVE  job[t].event \in Processed
  <2> SUFFICES ASSUME job[t].event = job[w].event, job[w].event \notin Processed
               PROVE  FALSE
    BY <1>5, <1>7
  <2>1. logKey[job[w].event] = w /\ ingested[job[w].event] = None
    BY <1>2 DEF InLog, Processed
  <2>2. Knows(t) /\ job[t].event # None
    BY <1>2, NotNone DEF Inv
  <2>3. job[t].event \notin Internal
    BY <1>2, RewardsAssumption
  <2>4. InLog(t, job[t].event)
    BY <1>7, <2>2, <2>3 DEF Knows
  <2> QED
    BY <1>2, <2>1, <2>4, NotNone DEF InLog, EventIngestionLog
<1>8. \A t \in Workers \ {w} : Owes(t, r)' \subseteq Owes(t, r)
  <2> SUFFICES ASSUME NEW t \in Workers \ {w} PROVE Owes(t, r)' \subseteq Owes(t, r)
    OBVIOUS
  <2>1. r \in job[t].firings => pc[t] \in Working
    BY DEF Disciplined
  <2> QED
    BY <1>7, <2>1 DEF Owes
<1>9. Owes(w, r)' \subseteq {e \in {job[w].event} : r \in job[w].firings}
  BY <1>3 DEF Owes
<1>10. Paid(r)' \subseteq Paid(r) \cup {e \in {job[w].event} : r \in job[w].firings}
  <2>1. CASE posted' = posted
    BY <2>1 DEF Paid
  <2>2. CASE pc[w] = "post" /\ posted' = [posted EXCEPT ![FiringOf(w)] = job[w].amount]
    <3>1. job[w].rule \in job[w].firings
      BY <1>1, <2>2 DEF Disciplined
    <3>2. \A e \in Events : posted'[<<r, e>>] = posted[<<r, e>>]
                            \/ (r = job[w].rule /\ e = job[w].event)
      BY <1>1, <2>2 DEF TablesTyped, FiringOf, Firings
    <3> QED
      BY <3>1, <3>2 DEF Paid
  <2> QED
    BY <2>1, <2>2 DEF Commits
<1>11. Earnt(r)' \subseteq Earnt(r) \cup {e \in {job[w].event} : r \in job[w].firings}
  BY <1>8, <1>9, <1>10 DEF Earnt, Unpaid
<1>12. CASE job[w].event \in Processed
  <2>1. job[w].staged[r] = None
    BY <1>1, <1>12 DEF EarnedLocals
  <2>2. progress'[r] = progress[r] /\ stale'[r] = stale[r] /\ Processed' = Processed
    BY <1>3, <1>5, <1>12, <2>1 DEF Seen
  <2>3. r \in job[w].firings => job[w].event \in Earnt(r)
    BY <1>12 DEF Earnt, Unpaid, Owes
  <2>4. EarnedTables(r)'
    BY <1>1, <1>11, <2>2, <2>3, EarnedFewer
  <2> QED
    BY <1>6, <1>7, <2>4
<1>13. CASE job[w].event \notin Processed
  <2> DEFINE T == Rule[r].threshold
             N == Cardinality(Earnt(r))
             event == job[w].event
  <2>1. /\ T \in Nat \ {0} /\ T - 1 \in Nat /\ N \in Nat /\ Cardinality(Processed) \in Nat
        /\ CountOf(progress[r]) \in Nat /\ stale[r] \in Nat /\ N * T \in Nat
        /\ stale[r] * (T - 1) \in Nat
        /\ N * T + CountOf(progress[r]) <= Cardinality(Processed) + stale[r] * (T - 1)
        /\ IsFiniteSet(Earnt(r)) /\ IsFiniteSet(Processed)
    BY <1>1, EarnedNumbers DEF EarnedTables
  <2>2. IsFiniteSet(Processed)' /\ Cardinality(Processed)' = Cardinality(Processed) + 1
    <3>1. /\ IsFiniteSet(Processed \cup {event})
          /\ Cardinality(Processed \cup {event}) = Cardinality(Processed) + 1
      BY <1>13, <2>1, FS_AddElement
    <3> QED
      BY <1>5, <3>1
  <2>3. /\ IsFiniteSet(Earnt(r))' /\ Cardinality(Earnt(r))' \in Nat
        /\ Cardinality(Earnt(r))' <= N + 1
        /\ r \notin job[w].firings => Cardinality(Earnt(r))' <= N
    <3>1. \A S, U : IsFiniteSet(U) /\ S \subseteq U =>
              IsFiniteSet(S) /\ Cardinality(S) <= Cardinality(U) /\ Cardinality(S) \in Nat
      BY FS_Subset, FS_CardinalityType
    <3>2. /\ IsFiniteSet(Earnt(r) \cup {event})
          /\ Cardinality(Earnt(r) \cup {event}) \in Nat
          /\ Cardinality(Earnt(r) \cup {event}) <= N + 1
      <4> DEFINE S == Earnt(r)
      <4> HIDE DEF S, event
      <4>1. IsFiniteSet(S) /\ Cardinality(S) \in Nat
        BY <2>1 DEF S, N
      <4>2. /\ IsFiniteSet(S \cup {event}) /\ Cardinality(S \cup {event}) \in Nat
            /\ Cardinality(S \cup {event}) <= Cardinality(S) + 1
        <5>1. CASE event \in S
          <6> DEFINE U == S \cup {event}
          <6>1. U = S
            BY <5>1
          <6> HIDE DEF U
          <6>2. IsFiniteSet(U) /\ Cardinality(U) \in Nat /\ Cardinality(U) <= Cardinality(S) + 1
            BY <4>1, <6>1
          <6> QED
            BY <6>2 DEF U
        <5>2. CASE event \notin S
          BY <4>1, <5>2, FS_AddElement
        <5> QED
          BY <5>1, <5>2
      <4> QED
        BY <4>2 DEF S, N
    <3>3. Earnt(r)' \subseteq Earnt(r) \cup {event}
      BY <1>11
    <3>4. r \notin job[w].firings => Earnt(r)' \subseteq Earnt(r)
      BY <1>11
    <3>5. \A S : S \subseteq Earnt(r) \cup {event} =>
              IsFiniteSet(S) /\ Cardinality(S) \in Nat
                  /\ Cardinality(S) <= Cardinality(Earnt(r) \cup {event})
      BY <3>1, <3>2
    <3>6. \A S : S \subseteq Earnt(r) => Cardinality(S) <= N
      BY <2>1, <3>1
    <3> HIDE DEF event, N
    <3>7. /\ IsFiniteSet(Earnt(r))' /\ Cardinality(Earnt(r))' \in Nat
          /\ Cardinality(Earnt(r))' <= Cardinality(Earnt(r) \cup {event})
      BY <3>3, <3>5
    <3>8. r \notin job[w].firings => Cardinality(Earnt(r))' <= N
      BY <3>4, <3>6
    <3> QED
      BY <2>1, <3>2, <3>7, <3>8
  <2> DEFINE M == Cardinality(Earnt(r))'
  <2>4. /\ M * T \in Nat /\ M * T <= N * T + T
        /\ r \notin job[w].firings => M * T <= N * T
        /\ (stale[r] + 1) * (T - 1) = stale[r] * (T - 1) + (T - 1)
    <3> HIDE DEF M, N, T
    <3>1. M * T <= (N + 1) * T /\ (N + 1) * T = N * T + T /\ M * T \in Nat
      BY <2>1, <2>3, Products DEF M
    <3>2. r \notin job[w].firings => M * T <= N * T
      BY <2>1, <2>3, Products DEF M
    <3>3. (stale[r] + 1) * (T - 1) = stale[r] * (T - 1) + (T - 1)
      BY <2>1, Products
    <3> QED
      BY <3>1, <3>2, <3>3
  <2>5. M * T + CountOf(progress'[r]) <= Cardinality(Processed)' + stale'[r] * (T - 1)
    <3>1. CASE job[w].staged[r] = None
      <4>1. /\ progress'[r] = progress[r] /\ stale'[r] = stale[r] /\ r \notin job[w].firings
        BY <1>1, <1>3, <1>13, <3>1 DEF Seen, EarnedLocals
      <4> HIDE DEF M, N, T
      <4> QED
        BY <2>1, <2>2, <2>4, <4>1
    <3>2. ASSUME job[w].staged[r] # None
          PROVE  M * T + CountOf(progress'[r]) <= Cardinality(Processed)' + stale'[r] * (T - 1)
      <4>1. /\ progress'[r] = job[w].staged[r] /\ CountOf(progress'[r]) = job[w].staged[r].count
            /\ job[w].staged[r].count \in Nat
        <5>1. job[w].staged[r] \in UserRuleProgress
          BY <1>1, <3>2, JobColumns DEF JobsTyped
        <5> QED
          BY <1>3, <3>2, <5>1 DEF Seen, CountOf, UserRuleProgress
      <4>2. /\ job[w].staged[r].count < T
            /\ job[w].staged[r].count <= CountOf(job[w].base[r]) + 1
            /\ r \in job[w].firings => /\ job[w].staged[r].count = 0
                                       /\ CountOf(job[w].base[r]) + 1 >= T
        BY <1>1, <3>2 DEF EarnedLocals
      <4> DEFINE n == job[w].staged[r].count
                 S == stale[r] * (T - 1)
                 P == Cardinality(Processed)
      <4>3. CASE job[w].base[r] = progress[r]
        <5>1. stale'[r] * (T - 1) = S
          BY <1>3, <4>3
        <5>2. n <= CountOf(progress[r]) + 1 /\ (r \in job[w].firings =>
                  n = 0 /\ CountOf(progress[r]) + 1 >= T)
          BY <4>2, <4>3
        <5>3. S \in Nat /\ P \in Nat /\ N * T + CountOf(progress[r]) <= P + S /\ n \in Nat
          BY <2>1, <4>1
        <5> HIDE DEF M, N, T, n, S, P
        <5>4. M * T + n <= P + 1 + S
          BY <2>1, <2>4, <5>2, <5>3
        <5> QED
          BY <2>2, <4>1, <5>1, <5>4 DEF P, n
      <4>4. CASE job[w].base[r] # progress[r]
        <5>1. stale'[r] * (T - 1) = S + (T - 1)
          <6>1. stale'[r] = stale[r] + 1
            BY <1>3, <3>2, <4>4
          <6> QED
            BY <2>4, <6>1
        <5>2. S \in Nat /\ P \in Nat /\ N * T + CountOf(progress[r]) <= P + S /\ n \in Nat /\ n < T
          BY <2>1, <4>1, <4>2
        <5>3. r \in job[w].firings => n = 0
          BY <4>2
        <5> HIDE DEF M, N, T, n, S, P
        <5>4. M * T + n <= P + 1 + S + (T - 1)
          BY <2>1, <2>4, <5>2, <5>3
        <5> QED
          BY <2>1, <2>2, <4>1, <5>1, <5>2, <5>4 DEF P, n
      <4> QED
        BY <4>3, <4>4
    <3> QED
      BY <3>1, <3>2
  <2>6. EarnedTables(r)'
    <3>1. CountOf(progress[r])' = CountOf(progress'[r])
      BY DEF CountOf
    <3> QED
      BY <2>2, <2>3, <2>5, <3>1 DEF EarnedTables
  <2> QED
    BY <1>6, <1>7, <2>6
<1> QED
  BY <1>12, <1>13

\* Every step of a worker keeps what was earned.
LEMMA EarnedActs ==
    ASSUME Inv, NEW r \in Rules, Earning(r), EarnedInv(r), NEW w \in Workers,
           Disciplined(w), \A t \in Workers : Disciplined(t), Acts(w)
    PROVE  EarnedInv(r)'
<1>1. /\ JobsTyped /\ TablesTyped /\ LocksTyped /\ Knows(w)
      /\ EarnedLocals(w, r) /\ EarnedTables(r)
  BY TypeParts DEF Inv, EarnedInv
<1>2. \A t \in Workers \ {w} : pc'[t] = pc[t] /\ job'[t] = job[t]
  BY <1>1, Alone
\* What releases a lock gives no other worker one.
<1>3. ASSUME logKey' = Freed(logKey, w) \/ UNCHANGED logKey
      PROVE  \A t \in Workers \ {w} : \A x \in External : logKey'[x] = t => logKey[x] = t
  BY <1>1, <1>3, RewardsAssumption DEF LocksTyped, Freed
<1>4. ASSUME job'[w].event = job[w].event, job'[w].firings \subseteq job[w].firings,
             Processed' = Processed
      PROVE  Owes(w, r)' \subseteq Owes(w, r)
  BY <1>4 DEF Owes
<1>5. CASE LetsGo(w)
  <2>1. \A x \in External : logKey'[x] # w
    BY <1>1, <1>5, RewardsAssumption DEF LetsGo, Unlock, LocksTyped, Freed, Workers, EarnedLocals
  <2>2. logKey' = Freed(logKey, w) \/ UNCHANGED logKey
    BY <1>5 DEF LetsGo, Unlock
  <2>3. EarnedLocals(w, r)'
    BY <1>5, <2>1 DEF LetsGo, EarnedLocals, NoRows
  <2>4. Owes(w, r)' \subseteq Owes(w, r)
    BY <1>5 DEF LetsGo, Owes
  <2> QED
    BY <1>2, <1>3, <1>5, <2>2, <2>3, <2>4, EarnedQuiet DEF LetsGo
<1>6. CASE Begins(w)
  <2>1. /\ job'[w].firings = {} /\ job'[w].staged[r] = None /\ Processed' = Processed
        /\ UNCHANGED <<progress, stale, posted>> /\ pc[w] \notin Working /\ pc'[w] \in Working
    BY <1>6 DEF Begins, NoRows, Processed, Working
  <2>2. \A x \in External : logKey'[x] = w => x = job'[w].event
    BY <1>1, <1>6, <2>1 DEF Begins, LocksTyped, EarnedLocals
  <2>3. \A t \in Workers \ {w} : \A x \in External : logKey'[x] = t => logKey[x] = t
    BY <1>1, <1>6 DEF Begins, LocksTyped
  <2>4. w \in Consumers => job'[w].event \notin Processed'
    BY <1>6, <2>1, NotNone DEF Begins, Processed, EventIngestionLog
  <2>5. EarnedLocals(w, r)'
    BY <2>1, <2>2, <2>4 DEF EarnedLocals
  <2>6. Owes(w, r)' \subseteq Owes(w, r)
    BY <2>1 DEF Owes
  <2> QED
    BY <1>2, <2>1, <2>3, <2>5, <2>6, EarnedQuiet
<1>7. CASE \E q \in Rules : DecidesOn(w, q)
  <2>1. EarnedLocals(w, r)' /\ Owes(w, r)' \subseteq Owes(w, r)
    BY <1>7, EarnedDecided
  <2>2. UNCHANGED <<progress, stale, posted, logKey>> /\ Processed' = Processed
    BY <1>7 DEF DecidesOn, Processed
  <2> QED
    BY <1>2, <2>1, <2>2, EarnedQuiet
<1>8. CASE GoesOn(w)
  <2>1. /\ UNCHANGED <<progress, stale, posted, logKey>> /\ Processed' = Processed
        /\ job'[w].event = job[w].event /\ job'[w].left = job[w].left
        /\ job'[w].staged = job[w].staged /\ job'[w].base = job[w].base
        /\ job'[w].firings \subseteq job[w].firings
        /\ pc[w] \in Working /\ pc'[w] \in Working
        /\ pc'[w] \in {"evaluate", "insert"} => pc[w] \in {"evaluate", "insert"}
    BY <1>8 DEF GoesOn, Processed, Working
  <2>2. EarnedLocals(w, r)'
    BY <1>1, <2>1 DEF EarnedLocals, Candidates, CountOf
  <2> QED
    BY <1>2, <1>4, <2>1, <2>2, EarnedQuiet
<1>9. CASE Commits(w)
  <2>1. CASE w \in Consumers
    <3>1. /\ EarnedTables(r)' /\ EarnedLocals(w, r)'
          /\ \A t \in Workers \ {w} :
                 pc[t] \in Working /\ job[t].event \in Processed' => job[t].event \in Processed
      BY <1>2, <1>9, <2>1, EarnedCommitted
    <3>2. ASSUME NEW t \in Workers \ {w}
          PROVE  EarnedLocals(t, r)'
      <4>1. EarnedLocals(t, r) /\ pc'[t] = pc[t] /\ job'[t] = job[t]
        BY <1>2 DEF EarnedInv
      <4>2. \A x \in External : logKey'[x] = t => logKey[x] = t
        BY <1>3, <1>9 DEF Commits, CommitStaged, Unlock
      <4>3. pc[t] \in Working => (job[t].event \in Processed' <=> job[t].event \in Processed)
        <5>1. Processed \subseteq Processed'
          BY <1>1, <1>9 DEF Commits, CommitStaged, Processed, TablesTyped
        <5> QED
          BY <3>1, <5>1
      <4> QED
        BY <4>1, <4>2, <4>3 DEF EarnedLocals, Candidates, CountOf
    <3> QED
      BY <3>1, <3>2 DEF EarnedInv
  <2>2. CASE w \notin Consumers
    <3>1. /\ pc[w] \in Working /\ job[w].event \in Internal /\ Disciplined(w)
          /\ job[w].staged[r] # None => r \in Candidates(job[w].event)
      BY <1>1, <1>9, <2>2 DEF Knows, Commits, EarnedLocals, Working
    <3>2. r \notin Candidates(job[w].event)
      BY <3>1, RewardsAssumption DEF Earning, Events
    <3>3. progress'[r] = progress[r] /\ stale'[r] = stale[r] /\ job'[w].staged[r] = None
      BY <3>1, <3>2, <1>9 DEF Commits, CommitStaged, NoRows
    <3>4. r \notin job[w].firings
      BY <3>1, <3>2 DEF Disciplined
    <3>5. \A e \in Events : posted'[<<r, e>>] = posted[<<r, e>>]
      <4>1. CASE posted' = posted
        BY <4>1
      <4>2. CASE pc[w] = "post" /\ posted' = [posted EXCEPT ![FiringOf(w)] = job[w].amount]
        <5>1. job[w].rule \in job[w].firings
          BY <3>1, <4>2 DEF Disciplined
        <5>2. \A e \in Events : <<r, e>> \in Firings /\ <<r, e>> # FiringOf(w)
          BY <3>4, <5>1 DEF FiringOf, Firings
        <5> QED
          BY <1>1, <4>2, <5>2 DEF TablesTyped
      <4> QED
        BY <1>9, <4>1, <4>2 DEF Commits
    <3>6. \A x \in External : logKey[x] # w
      BY <1>1, <2>2, RewardsAssumption DEF LocksTyped, Workers
    <3>7. logKey' = Freed(logKey, w) /\ Processed' = Processed
      <4>1. \A x \in External : ingested'[x] = ingested[x]
        BY <1>9, <3>6 DEF Commits, CommitStaged
      <4> QED
        BY <1>9, <4>1 DEF Commits, CommitStaged, Unlock, Processed
    <3>8. \A x \in External : logKey'[x] # w
      BY <3>6, <3>7, <1>1, RewardsAssumption DEF Freed, LocksTyped, Workers
    <3>9. r \notin job'[w].firings
      BY <1>9, <3>4 DEF Commits
    <3>10. EarnedLocals(w, r)' /\ Owes(w, r)' \subseteq Owes(w, r)
      BY <2>2, <3>3, <3>8, <3>9 DEF EarnedLocals, Owes
    <3> QED
      BY <1>2, <1>3, <3>3, <3>5, <3>7, <3>10, EarnedQuiet
  <2> QED
    BY <2>1, <2>2
<1>10. CASE Loses(w)
  <2>1. /\ pc[w] = "record" /\ pc'[w] = "issue" /\ job'[w].event = job[w].event
        /\ job'[w].left = job[w].left /\ job'[w].staged[r] = None
        /\ job'[w].firings \subseteq job[w].firings
        /\ UNCHANGED <<progress, stale, posted>> /\ Processed' = Processed
        /\ logKey' = Freed(logKey, w)
    BY <1>10 DEF Loses, NoRows, Processed, Unlock
  <2>2. \A x \in External : logKey'[x] # w
    BY <1>1, <2>1, RewardsAssumption DEF Freed, LocksTyped, Workers
  <2>3. w \in Consumers => job'[w].event \in Processed'
    <3> SUFFICES ASSUME w \in Consumers PROVE job[w].event \in Processed
      BY <2>1
    <3>1. job[w].event \in External /\ posted[FiringOf(w)] # None /\ job[w].rule \in Rules
      BY <1>1, <2>1 DEF Knows, Working
    <3> QED
      BY <3>1, RewardsAssumption DEF Inv, Happened, FiringOf, Events, Processed
  <2>4. EarnedLocals(w, r)'
    BY <1>1, <2>1, <2>2, <2>3 DEF EarnedLocals, Candidates
  <2> QED
    BY <1>2, <1>3, <1>4, <2>1, <2>4, EarnedQuiet
<1> QED
  BY <1>5, <1>6, <1>7, <1>8, <1>9, <1>10, Shapes

EarningInv == \A r \in Rules : Earning(r) => EarnedInv(r)

\* So does every step.
LEMMA StaysEarned ==
    ASSUME Inv, OneTimeInv, EarningInv, [Next]_vars
    PROVE  EarningInv'
<1>1. ASSUME NEW w \in Workers, Acts(w)
      PROVE  EarningInv'
  BY <1>1, EarnedActs DEF OneTimeInv, EarningInv, Earning, Candidates
<1>2. CASE UNCHANGED <<outbox, ingested, progress, stale, posted, rewardEvents, locks, pc, job, faults>>
  <2>1. /\ Processed' = Processed /\ progress' = progress /\ stale' = stale /\ logKey' = logKey
        /\ pc' = pc /\ job' = job
        /\ \A r \in Rules : Paid(r)' = Paid(r)
    BY <1>2 DEF Processed, Paid, locks
  <2>2. \A r \in Rules : Earnt(r)' = Earnt(r)
    BY <2>1 DEF Earnt, Unpaid, Owes
  <2>3. ASSUME NEW r \in Rules, Earning(r)
        PROVE  EarnedTables(r)' /\ \A w \in Workers : EarnedLocals(w, r)'
    <3>1. EarnedTables(r) /\ \A w \in Workers : EarnedLocals(w, r)
      BY <2>3 DEF EarningInv, EarnedInv
    <3>2. EarnedTables(r)'
      BY <2>1, <2>2, <3>1 DEF EarnedTables, CountOf
    <3>3. \A w \in Workers : EarnedLocals(w, r)'
      BY <2>1, <3>1 DEF EarnedLocals, Candidates, CountOf
    <3> QED
      BY <3>2, <3>3
  <2> QED
    BY <2>3 DEF EarningInv, EarnedInv, Earning, Candidates
<1> QED
  BY <1>1, <1>2, SomebodyActs

\* At the start nothing was earned or paid.
LEMMA StartsEarned == Init => EarningInv
<1> SUFFICES ASSUME Init, NEW r \in Rules, Earning(r) PROVE EarnedInv(r)
  BY DEF EarningInv
<1>1. /\ pc = [w \in Workers |-> "idle"] /\ job = [w \in Workers |-> IdleJob]
      /\ posted = [f \in Firings |-> None] /\ progress = NoRows
      /\ stale = [q \in Rules |-> 0]
      /\ ingested = [x \in External |-> None] /\ logKey = [x \in External |-> None]
  BY DEF Init
<1>2. Earnt(r) = {} /\ Processed = {}
  <2>1. Paid(r) = {}
    BY <1>1 DEF Paid, Firings
  <2>2. Processed = {}
    BY <1>1, NotNone DEF Processed, EventIngestionLog
  <2> QED
    BY <2>1, <2>2 DEF Earnt, Unpaid, Owes
<1>3. IsFiniteSet({}) /\ Cardinality({}) = 0
  BY FS_EmptySet
<1>4. EarnedTables(r)
  <2>1. CountOf(progress[r]) = 0 /\ stale[r] = 0
    BY <1>1 DEF CountOf, NoRows
  <2>2. Rule[r].threshold \in Nat \ {0}
    BY RewardsAssumption DEF Earning, RuleRow, Creatable
  <2>3. 0 * Rule[r].threshold = 0 /\ 0 * (Rule[r].threshold - 1) = 0
    BY <2>2
  <2> QED
    BY <1>2, <1>3, <2>1, <2>3 DEF EarnedTables
<1>5. \A w \in Workers : EarnedLocals(w, r)
  BY <1>1, RewardsAssumption DEF EarnedLocals, IdleJob, NoRows, Working
<1> QED
  BY <1>4, <1>5 DEF EarnedInv

\* A milestone over external events that starts over pays once per threshold of
\* them, whoever takes the events in and whatever interleaves: an event is
\* counted by the commit that logs it, into the counter or into a reward, and
\* each write over a counter changed meanwhile hides at most threshold - 1.
THEOREM MilestonesEarned == Spec => []MilestoneEarned
<1>1. EarningInv /\ Inv => MilestoneEarned
  <2> SUFFICES ASSUME EarningInv, Inv, NEW r \in Rules, Earning(r)
               PROVE  Cardinality(Paid(r)) * Rule[r].threshold
                          <= Cardinality({x \in External : ingested[x] = "PROCESSED"})
                                 + stale[r] * (Rule[r].threshold - 1)
    BY DEF MilestoneEarned, Earning
  <2>1. EarnedTables(r)
    BY DEF EarningInv, EarnedInv
  <2>2. /\ Cardinality(Paid(r)) \in Nat /\ Cardinality(Paid(r)) <= Cardinality(Earnt(r))
    <3>1. Paid(r) \subseteq Earnt(r) /\ IsFiniteSet(Earnt(r))
      BY <2>1 DEF Earnt, EarnedTables
    <3> QED
      BY <3>1, FS_Subset, FS_CardinalityType
  <2>3. /\ Cardinality(Paid(r)) * Rule[r].threshold \in Nat
        /\ Cardinality(Paid(r)) * Rule[r].threshold <= Cardinality(Earnt(r)) * Rule[r].threshold
    BY <2>1, <2>2, EarnedNumbers, Products
  <2> QED
    BY <2>1, <2>3, EarnedNumbers DEF EarnedTables, Processed
<1>2. Inv /\ OneTimeInv /\ EarningInv /\ [Next]_vars => EarningInv'
  BY StaysEarned
<1> QED
  BY <1>1, <1>2, StartsEarned, StartsOnce, StaysOnce, Invariance, PTL DEF Spec

\* What the rules pay is what was earned, is recorded and shows.
THEOREM FiringsSound == Spec => []FiringsExact
BY MilestonesEarned, FirstPaidOnce, PaidRewardsShow, RecordedIsPaid, PTL DEF FiringsExact

=============================================================================
