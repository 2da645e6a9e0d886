SPECIFICATION Spec
CONSTANTS
    None = None
    K1 = K1
    K2 = K2
    O1 = O1
    O2 = O2
    O3 = O3
    ClientKeys = {K1, K2}
    Redeemers = {p1, p2}
    MaxAttempts = 2
    Points <- MCPoints
    Sink <- MCSink
    Cashback <- MCCashback
    Wallet <- MCWallet
    Accounts <- MCAccounts
    Guarded <- MCGuarded
    Capped <- MCCapped
    Cap <- MCCap
    Opening <- MCOpening
    Amount <- MCAmount
    Rates <- MCRates
    OtherRequests <- MCOthers
    Keys <- MCKeys
    Requests <- MCRequests
SYMMETRY RedeemerSymmetry
INVARIANTS
    TypeOK
    PointsFloor
    BurnIsSettled
    FirstAttemptExact
