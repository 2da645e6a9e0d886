------------------------------ MODULE MCRewards ------------------------------
(***************************************************************************)
(* One user, with two payments and three external events, which two        *)
(* workers take in at the same time.                                       *)
(***************************************************************************)
EXTENDS Rewards, SequencesExt

CONSTANTS E1, E2, X1, X2, X3, First, Spend, Visits

Ev(type, amount, at) == [type |-> type, amount |-> amount, at |-> at]

MCEvent ==
    [e \in Events |-> IF e \in Internal THEN Ev("p2p", 2, IF e = E1 THEN 1 ELSE 2)
                      ELSE Ev("visit", 1, IF e = X1 THEN 1 ELSE 2)]

R(kind, type, pays, reward) ==
    [kind |-> kind, type |-> type, pays |-> pays, reward |-> reward, minAmount |-> None,
     threshold |-> None, window |-> "lifetime", resets |-> TRUE, stopAfter |-> None,
     from |-> None, to |-> None, units |-> None, unit |-> None, operator |-> None,
     conditions |-> {}]

\* Points for the first payment and for every payment of 2 or more, cashback
\* for every second visit.
MCRule ==
    [r \in Rules |->
        CASE r = First -> R("first_time", "p2p", "points", 1)
          [] r = Spend -> [R("value_based", "p2p", "points", 1) EXCEPT !.minAmount = 2]
          [] r = Visits -> [R("milestone", "visit", "cashback", 1) EXCEPT !.threshold = 2]]

MCBoosts == [r \in Rules |-> IF r = First THEN {1, 2} ELSE {1}]

MCRank == [r \in Rules |-> CASE r = First -> 1 [] r = Spend -> 2 [] r = Visits -> 3]

MCBudgets == {[scope |-> None, pays |-> "points", cap |-> 1]}

-----------------------------------------------------------------------------
(* The evaluator fed one event after another                               *)

StreakRule(unit) == [R("streak", "visit", "points", 1) EXCEPT !.units = 2, !.unit = unit]

\* How often the rule fires on events of these days, in this order.
TimesFired(rule, days) ==
    FoldLeft(LAMBDA acc, d :
                 LET made == Evaluate(rule, acc.row, Ev("visit", 1, d), {})
                 IN [row |-> made.row, fired |-> IF made.fires THEN acc.fired + 1 ELSE acc.fired],
             [row |-> FreshProgress, fired |-> 0], days).fired

\* The reference: every maximal run of consecutive periods is paid once per
\* units periods.
StreaksIn(rule, periods) ==
    LET Runs == {<<i, j>> \in periods \X periods :
                    /\ i..j \subseteq periods
                    /\ i - 1 \notin periods /\ j + 1 \notin periods /\ i <= j}
    IN MapThenSumSet(LAMBDA run : (run[2] - run[1] + 1) \div rule.units, Runs)

InOrder(n) == {s \in [1..n -> 0..4] : \A i \in 1..(n - 1) : s[i] <= s[i + 1]}

\* Day 1 is a Monday, as ordinal 1 of a date is: the Sundays are the multiples
\* of 7.
Sundays(day) == Cardinality({d \in 1..day : d % 7 = 0})

\* A streak rule counts periods, not events: for a user who starts without any
\* history, on events that arrive in order, it fires once per run of units
\* consecutive days (or weeks), however many events fall into one
\* (evaluator.py:394, _evaluate_streak).  The weeks are those the code has
\* (evaluator.py:370): they begin on a Sunday.  Those of its docstring
\* (evaluator.py:363-365), "ISO weeks since the epoch", begin on a Monday, and
\* the property fails for them.
StreakCountsPeriods ==
    Init => \A n \in 1..5, unit \in {"day", "week"} : \A s \in InOrder(n) :
                LET days == [i \in 1..n |-> IF unit = "week" THEN 4 * s[i] ELSE s[i]]
                IN TimesFired(StreakRule(unit), days)
                       = StreaksIn(StreakRule(unit),
                             {IF unit = "week" THEN Sundays(days[i]) ELSE days[i] : i \in 1..n})

=============================================================================
