SPECIFICATION Spec
CONSTANTS
    None = None
    K1 = K1
    K2 = K2
    K3 = K3
    K4 = K4
    Keys = {K1, K2, K3, K4}
    Handlers = {h1, h2}
    Sweepers = {s1}
    Batch = 2
    Accounts <- MCAccounts
    Guarded <- MCGuarded
    Capped <- MCCapped
    Cap <- MCCap
    Opening <- MCOpening
    Requests <- MCRequests
    Unseeded = {4}
SYMMETRY HandlerSymmetry
INVARIANTS
    WellFormed
    BooksBalance
    SnapshotMatchesLedger
    NoOverdraft
    CeilingRespected
    ChecksStayValid
    RewardIntent
PROPERTIES
    AtomicSpec
