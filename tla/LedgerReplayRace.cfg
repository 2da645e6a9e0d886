SPECIFICATION Spec
CONSTANTS
    None = None
    K1 = K1
    K2 = K2
    K3 = K3
    K4 = K4
    Keys = {K1, K2}
    Batch = 2
    Accounts <- MCAccounts
    Guarded <- MCGuarded
    Capped <- MCCapped
    Cap <- Uncapped
    Opening <- MCOpening
    Unseeded = {4}
    Handlers = {h1, h2}
    Sweepers = {}
    Requests <- TransferRequests
INVARIANTS
    SpentKeyIsReplayed
