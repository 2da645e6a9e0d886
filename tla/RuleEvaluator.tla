---------------------------- MODULE RuleEvaluator ----------------------------
(***************************************************************************)
(* The rules engine's decision for one user, one rule and one event        *)
(* (app/modules/rules/evaluator.py): pure operators from a progress row    *)
(* and an event to the row that is left and whether the rule fires.        *)
(* Timestamps are day numbers, so toordinal() is the identity on them.     *)
(*                                                                         *)
(* A rule is a record                                                      *)
(*   [kind, type, pays, reward, minAmount, threshold, window, resets,      *)
(*    stopAfter, from, to, units, unit, operator, conditions]              *)
(* of which its kind reads what it needs, and an event a record            *)
(* [type, amount, at]. The segment a rule may be bound to is left out.     *)
(***************************************************************************)
EXTENDS Integers, FiniteSets

CONSTANT None

\* A rule and its sub-conditions; a column that its kind does not read may be None.
RuleCondition == [type: STRING, minAmount: Nat \cup {None}, threshold: Nat]

RuleRow ==
    [kind: {"first_time", "milestone", "value_based", "campaign", "streak", "composite"},
     type: STRING \cup {None}, pays: {"points", "cashback"}, reward: Nat \ {0},
     minAmount: Nat \cup {None}, threshold: Nat \cup {None},
     window: {"lifetime", "calendar_month", "rolling_7d"}, resets: BOOLEAN,
     stopAfter: Nat \cup {None}, from: Nat \cup {None}, to: Nat \cup {None},
     units: Nat \cup {None}, unit: {"day", "week", None}, operator: {"AND", "OR", None},
     conditions: SUBSET RuleCondition]

\* What RuleCreateRequest lets through: the evaluator reads the columns of a
\* rule's kind without asking whether they are there.
Creatable(rule) ==
    /\ rule.threshold # 0 /\ rule.stopAfter # 0
    /\ rule.units # None => rule.units >= 2
    /\ rule.kind = "milestone" => rule.threshold # None
    /\ rule.kind = "first_time" => rule.threshold = None
    /\ rule.kind # "composite" => rule.type # None
    /\ rule.kind = "streak" => rule.units # None /\ rule.unit # None
    /\ rule.kind = "value_based" => rule.minAmount \notin {None, 0}
    /\ rule.kind = "campaign" =>
           rule.from # None /\ rule.to # None /\ rule.from <= rule.to
    /\ IF rule.kind = "composite"
       THEN /\ rule.operator # None /\ Cardinality(rule.conditions) >= 2
            /\ \A c \in rule.conditions : c.threshold >= 1
       ELSE rule.operator = None /\ rule.conditions = {}

\* What the app shows of a rule: how far the user is, and where he stands.
Reached(rule, p) ==
    CASE rule.kind = "milestone" -> IF p = None THEN 0 ELSE p.count
      [] rule.kind = "streak" -> IF p = None THEN 0 ELSE p.streak
      [] OTHER -> IF p # None /\ (p.triggers > 0 \/ p.status = "COMPLETED") THEN 1 ELSE 0

Standing(rule, p) ==
    IF p # None /\ p.status = "COMPLETED" THEN "earned"
    ELSE IF Reached(rule, p) > 0 THEN "in_progress" ELSE "locked"

UserRuleProgress ==
    [count: Nat, triggers: Nat, streak: Nat, windowStart: Int \cup {None},
     lastAt: Int \cup {None}, status: {"IN_PROGRESS", "COMPLETED"}]

\* What INSERT INTO user_rule_progress leaves.
FreshProgress ==
    [count |-> 0, triggers |-> 0, streak |-> 0, windowStart |-> None,
     lastAt |-> None, status |-> "IN_PROGRESS"]

Quiet(p) == [row |-> p, fires |-> FALSE]
Firing(p) == [row |-> p, fires |-> TRUE]

\* stop_after_n_triggers: the row that fired for the last time is COMPLETED.
Stopped(rule, p) ==
    IF rule.stopAfter # None /\ p.triggers >= rule.stopAfter
    THEN [p EXCEPT !.status = "COMPLETED"] ELSE p

OneShot(p, ev) ==
    IF p.triggers > 0 THEN Quiet(p)
    ELSE Firing([p EXCEPT !.triggers = 1, !.lastAt = ev.at, !.status = "COMPLETED"])

FirstTime(rule, p, ev) == OneShot(p, ev)

Campaign(rule, p, ev) ==
    IF ev.at \in rule.from..rule.to THEN OneShot(p, ev) ELSE Quiet(p)

ValueBased(rule, p, ev) ==
    Firing(Stopped(rule, [p EXCEPT !.triggers = @ + 1, !.lastAt = ev.at]))

Month(at) == at \div 30

MilestoneWindowExpired(window, start, at) ==
    \/ window = "calendar_month" /\ Month(start) # Month(at)
    \/ window = "rolling_7d" /\ at - start > 7

\* Counts the event; at the threshold the rule fires and may start over.
CountMilestone(rule, p, ev) ==
    LET counted == [p EXCEPT !.count = @ + 1, !.lastAt = ev.at,
                             !.windowStart = IF @ = None THEN ev.at ELSE @]
        fired == [counted EXCEPT !.triggers = @ + 1,
                                 !.count = IF rule.resets THEN 0 ELSE @,
                                 !.windowStart = IF rule.resets THEN None ELSE @]
    IN IF counted.count < rule.threshold THEN Quiet(counted)
       ELSE Firing(Stopped(rule, fired))

Milestone(rule, p, ev) ==
    LET expired == p.windowStart # None
                     /\ MilestoneWindowExpired(rule.window, p.windowStart, ev.at)
    IN CountMilestone(rule,
           IF expired THEN [p EXCEPT !.count = 0, !.windowStart = None] ELSE p, ev)

PeriodIndex(at, unit) == IF unit = "week" THEN at \div 7 ELSE at

\* An event gap periods after the last one: a gap of one extends the streak,
\* any other restarts it, a gap back in time included.
AdvanceStreak(rule, p, ev, gap) ==
    LET next == [p EXCEPT !.lastAt = ev.at,
                          !.streak = IF p.lastAt # None /\ gap = 1 THEN @ + 1 ELSE 1]
    IN IF next.streak < rule.units THEN Quiet(next)
       ELSE Firing(Stopped(rule, [next EXCEPT !.triggers = @ + 1,
                                              !.streak = IF rule.resets THEN 0 ELSE @]))

\* Mutant: a rule of weeks measures the gap in days.
GapInDays(rule, p, ev) == ev.at - p.lastAt

Gap(rule, p, ev) == PeriodIndex(ev.at, rule.unit) - PeriodIndex(p.lastAt, rule.unit)

Streak(rule, p, ev) ==
    IF p.lastAt # None /\ Gap(rule, p, ev) = 0 THEN Quiet([p EXCEPT !.lastAt = ev.at])
    ELSE AdvanceStreak(rule, p, ev, Gap(rule, p, ev))

\* The COMPLETED transactions that satisfy a sub-condition since start.
Qualifying(txns, cond, start) ==
    {t \in txns :
        /\ t.type = cond.type
        /\ cond.minAmount # None => t.amount >= cond.minAmount
        /\ start # None => t.at >= start}

CompositeWindowLowerBound(window, at) ==
    CASE window = "calendar_month" -> 30 * Month(at)
      [] window = "rolling_7d" -> at - 7
      [] OTHER -> None

\* txns are the user's COMPLETED transactions when the rule is evaluated.
Composite(rule, p, ev, txns) ==
    LET lower == CompositeWindowLowerBound(rule.window, ev.at)
        start == IF lower # None /\ (p.windowStart = None \/ lower > p.windowStart)
                 THEN lower ELSE p.windowStart
        Satisfied(cond) == Cardinality(Qualifying(txns, cond, start)) >= cond.threshold
        met == IF rule.operator = "AND" THEN \A c \in rule.conditions : Satisfied(c)
               ELSE \E c \in rule.conditions : Satisfied(c)
    IN IF met /\ (rule.resets \/ p.triggers = 0)
       THEN Firing(Stopped(rule,
                [p EXCEPT !.triggers = @ + 1, !.lastAt = ev.at,
                          !.windowStart = IF rule.resets THEN ev.at ELSE @]))
       ELSE Quiet(p)

Dispatch(rule, p, ev, txns) ==
    CASE rule.kind = "first_time" -> FirstTime(rule, p, ev)
      [] rule.kind = "milestone" -> Milestone(rule, p, ev)
      [] rule.kind = "value_based" -> ValueBased(rule, p, ev)
      [] rule.kind = "campaign" -> Campaign(rule, p, ev)
      [] rule.kind = "streak" -> Streak(rule, p, ev)
      [] rule.kind = "composite" -> Composite(rule, p, ev, txns)

Evaluate(rule, p, ev, txns) ==
    IF p.status = "COMPLETED" \/ (rule.minAmount # None /\ ev.amount < rule.minAmount)
    THEN Quiet(p)
    ELSE Dispatch(rule, p, ev, txns)

\* The active rules of the tenant that an event may trigger.
IsCandidate(rule, ev) ==
    \/ rule.type = ev.type
    \/ rule.kind = "composite" /\ \E c \in rule.conditions : c.type = ev.type

=============================================================================
