SPECIFICATION Spec
CONSTANTS
    None = None
    Broken = Broken
    Tiers = Tiers
    Other = Other
    Visits = Visits
    Spend = Spend
    Users = {u1}
    Ids = {1, 2, 3}
    Groups = {Tiers, Other}
    System = {1}
    SystemGroups = {Tiers}
    Metrics = {Visits, Spend}
    MaxValue = 1
    Criteria <- MCCriteria
    Priorities = {1, 2}
    Seeded <- MCSeeded
    RuleIds = {r1}
    Keys = {k1}
    Launched <- MCLaunched
    Evaluators = {e1, e2}
    Admins = {a1, a2}
    MaxEdits = 2
SYMMETRY MCSymmetry
CONSTRAINT OneRecompute
INVARIANTS
    TypeOK
    SegmentsExact
CHECK_DEADLOCK FALSE
