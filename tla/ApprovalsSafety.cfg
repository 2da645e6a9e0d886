SPECIFICATION Spec
CONSTANTS
    None = None
    P1 = P1
    P2 = P2
    Phone = Phone
    Email = Email
    Account = Account
    Old = Old
    Key = Key
    OtherKey = OtherKey
    Partner = Partner
    All = All
    Admins = {a1, a2, a3}
    Sessions = {s1, s2}
    Proposals = {P1, P2}
    Policy <- MCPolicy
    MaxRounds = 1
    Accounts <- MCAccounts
    Guarded <- MCGuarded
    Capped <- MCCapped
    Cap <- MCCap
    Opening <- MCOpening
    CurrencyOf <- MCCurrencyOf
    Floats <- MCFloats
    Mirrors <- MCMirrors
    Mirrored <- MCMirrored
    Names <- MCNames
    Mains <- MCMains
    MoneyOffers <- MCMoneyOffers
    UserOffers <- MCUserOffers
    People <- MCPeople
    Extras <- MCExtras
    AccountNumbers <- MCAccountNumbers
    PartnerOffers <- MCPartnerOffers
    ApiKeys = {Partner}
    ConfigOffers <- MCConfigOffers
    BatchOffers <- MCBatchOffers
    Earners <- MCEarners
    WalletOf <- MCWalletOf
    Seeded <- MCSeeded
    Keys <- MCKeys
    Requests <- MCRequests
SYMMETRY MCSymmetry
CONSTRAINT OneQueue
INVARIANTS
    TypeOK
    ApprovedIsApplied
    AppliedTookEffect
    BatchTruthful
PROPERTIES
    ScheduleReplacedWhole
CHECK_DEADLOCK FALSE
