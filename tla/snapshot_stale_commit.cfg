CONSTANTS
    Clients = {c1, c2}
    c1 = c1
    c2 = c2
    s0 = s0
    s1 = s1
    Names <- MCNames
    Default = s0
    OpsOf <- MCOpsSnapshotAndCommit
    MaxCommits = 2
    MaxSnapshotOps = 2
    MaxStoreFail = 0
    MaxConfigFail = 0
    NoBlock = NoBlock
    NoName = NoName
    Builds = {"api"}
    SnapshotConfigs = {TRUE}

SPECIFICATION Spec

INVARIANT StoreChainLinked
