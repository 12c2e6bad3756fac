CONSTANTS
    Clients = {c1, c2}
    c1 = c1
    c2 = c2
    t1 = t1
    t2 = t2
    t3 = t3
    TxIds <- MCTxIds
    Invalid <- MCInvalid
    OpsOf <- MCOpsSerialized
    MaxHeight = 2
    MaxFatal = 1
    MaxStoreFail = 1
    NoClient = NoClient
    NoTx = NoTx

SPECIFICATION Spec

INVARIANT TypeOK
INVARIANT SealedExactlyOnce
INVARIANT NoTxSealedTwice
INVARIANT PendingOnTopOfLatest
PROPERTY CommitExtendsChain
PROPERTY ChainSpec
INVARIANT CreateAccountReadsOwnResult
INVARIANT CreateAccountHasResult
PROPERTY CallsReturn
PROPERTY BlockResultsSealed
