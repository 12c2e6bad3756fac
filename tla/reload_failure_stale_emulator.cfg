CONSTANTS
    Clients = {c1, c2}
    c1 = c1
    c2 = c2
    s0 = s0
    s1 = s1
    Names <- MCNames
    Default = s0
    OpsOf <- MCOpsSerial
    MaxCommits = 2
    MaxSnapshotOps = 2
    MaxStoreFail = 1
    MaxConfigFail = 1
    NoBlock = NoBlock
    NoName = NoName
    Builds = {"api", "legacy"}
    SnapshotConfigs = {TRUE, FALSE}

SPECIFICATION Spec

INVARIANT EmulatorOnLatest
