CONSTANTS
    Clients = {c1, c2}
    c1 = c1
    c2 = c2
    s0 = s0
    s1 = s1
    Names <- MCNames
    Default = s0
    OpsOf <- MCOpsLegacyCommit
    MaxCommits = 2
    MaxSnapshotOps = 2
    MaxStoreFail = 1
    MaxConfigFail = 0
    NoBlock = NoBlock
    NoName = NoName
    Builds = {"legacy"}
    SnapshotConfigs = {TRUE}

SPECIFICATION Spec

INVARIANT RESTCommitReportsOwnBlock
