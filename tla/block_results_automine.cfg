CONSTANTS
    Clients = {c1, c2}
    c1 = c1
    c2 = c2
    t1 = t1
    t2 = t2
    t3 = t3
    TxIds <- MCTxIds
    Invalid <- MCInvalid
    OpsOf <- MCOpsBlockReadsAutoMine
    MaxHeight = 2
    MaxFatal = 0
    MaxStoreFail = 0
    NoClient = NoClient
    NoTx = NoTx


SPECIFICATION Spec

PROPERTY BlockResultsSealed
