SPECIFICATION Spec
CONSTANTS
    None = None
    Pay = Pay
    PayAgain = PayAgain
    Top = Top
    Fund = Fund
    CashIn = CashIn
    CashOut = CashOut
    Draw = Draw
    Alice = Alice
    Agent = Agent
    Keys = {Pay, PayAgain, Top, Fund, CashIn, CashOut, Draw}
    Accounts <- MCAccounts
    Guarded <- MCGuarded
    Capped <- MCCapped
    Cap <- MCCap
    Opening <- MCOpening
    Requests <- MCRequests
    Order <- MCOrders
    Tariff <- MCTariff
    FeeAccount = 4
    ServiceTax = 4
    CommissionTax = 4
    Pool = 4
    SendCap <- MCSendCap
    ReceiveCap <- MCReceiveCap
    ServiceCap <- MCServiceCap
    Owner <- MCOwner
    CommissionWallets <- MCCommissionWallets
    Sessions = {s1, s2}
    MaxRequests = 3
SYMMETRY MCSymmetry
INVARIANTS
    TypeOK
    ShownTruthfully
    RechargeSettled
CHECK_DEADLOCK FALSE
