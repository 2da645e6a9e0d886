SPECIFICATION FairSpec
CONSTANTS
    None = None
    E1 = E1
    E2 = E2
    X1 = X1
    X2 = X2
    X3 = X3
    First = First
    Spend = Spend
    Visits = Visits
    Handlers = {h1}
    Sweepers = {s1}
    Consumers = {c1, c2}
    Internal = {E1, E2}
    External = {X1, X2, X3}
    Event <- MCEvent
    Rules = {First, Spend, Visits}
    Rule <- MCRule
    Rank <- MCRank
    Budgets <- MCBudgets
    Boosts <- MCBoosts
    Funds = 0
    TopUpTo = 1
    Batch = 2
    Pool = 2
    MAX_ATTEMPTS = 2
    MaxFaults = 1
INVARIANTS
    TypeOK
    FiringsExact
    BudgetOverrun
    StreakCountsPeriods
PROPERTIES
    OnceSpec
    EveryIntentEnds
CHECK_DEADLOCK FALSE
