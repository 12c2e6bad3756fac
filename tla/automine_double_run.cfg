CONSTANTS
    Clients = {c1, c2}
    c1 = c1
    c2 = c2
    t1 = t1
    t2 = t2
    t3 = t3
    TxIds <- MCTxIds
    Invalid <- MCInvalid
    OpsOf <- MCOpsAutoMine
    MaxHeight = 2
    MaxFatal = 1
    MaxStoreFail = 0
    NoClient = NoClient
    NoTx = NoTx

SPECIFICATION Spec

INVARIANT SealedExactlyOnce

