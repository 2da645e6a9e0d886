SPECIFICATION Spec
CONSTANTS
    None = None
    Consumer = Consumer
    Super = Super
    T1 = T1
    T2 = T2
    T3 = T3
    Sessions = {s1, s2}
    Otps = {1, 2, 3}
    LONG_WINDOW_MAX = 2
    Rules = {r1, r2}
    TwoSided = {r1}
    Budgets <- MCBudgets
    Tokens = {t1, t2}
    MaxAttempts = 2
    Ttl = 2
    Keys = {k1, k2}
    Spent = {k2}
    Types <- MCTypes
    Seeded <- MCSeeded
    System = {Consumer, Super}
    Category <- MCCategory
    People = {p1, p2}
    Newcomers = {p1}
    Enrolled <- MCEnrolled
    Coins = {c1}
    Commissions = TRUE
    Base = p2p
    Variants = {gift}
    Callers = {T2, Super}
    Roles = {teller, guest}
    Seasoned <- MCSeasoned
    Plans <- MCPlans
    Booked <- MCBooked
    Orders <- MCOrders
    OrderKeys = {k1}
    Staff <- MCStaff
    DefaultRole <- MCDefaultRole
    Superiors <- MCSuperiors
    Defaults <- MCSeasoned
    Currency = c1
    p1 = p1
    p2 = p2
    c1 = c1
    p2p = p2p
    gift = gift
    teller = teller
    guest = guest
    k1 = k1
    k2 = k2
SYMMETRY MCSymmetry
INVARIANTS
    TypeOK
    TriesBounded
    SuspendedHasNoSession
    PinChangePaid
    RegistrationOnce
    HierarchyKept
    WalletsComplete
    PolicyBinds
    BandsDisjoint
    PaymentsGoverned
CHECK_DEADLOCK FALSE
