-------------------------- MODULE MCEmulatorServer --------------------------
(* Instances of EmulatorServer for TLC: which requests each client makes. *)
EXTENDS EmulatorServer

CONSTANTS c1, c2, s0, s1

MCNames == {s0, s1}

\* one client makes every request of either build, one at a time, but the
\* older newBlock handler (legacy_commit_error_ignored shows its error path)
MCOpsSerial == (c1 :> Ops \ {"LegacyCommitBlock"}) @@ (c2 :> {})

\* one client commits through the REST handler; the other queries events
MCOpsCommitAndQuery ==
    (c1 :> {"CommitBlock"}) @@ (c2 :> {"GetEventsForHeightRange"})

\* two concurrent /emulator/newBlock requests
MCOpsTwoCommits ==
    [c \in {c1, c2} |-> {"CommitBlock", "GetEventsForHeightRange"}]

\* the older /emulator/newBlock handler of server/emulator.go
MCOpsLegacyCommit ==
    (c1 :> {"LegacyCommitBlock"}) @@ (c2 :> {"GetEventsForHeightRange"})

\* a snapshot request while another client commits
MCOpsSnapshotAndCommit ==
    (c1 :> {"SnapshotCreate", "SnapshotJump", "GetEventsForHeightRange"}) @@
    (c2 :> {"CommitBlock"})

\* a snapshot jump while another client commits through the REST handler
MCOpsJumpAndCommit ==
    (c1 :> {"CommitBlock"}) @@ (c2 :> {"SnapshotJump"})

\* both clients create and jump between snapshots; one also commits and the
\* other queries events (the handlers of either build)
MCOpsConcurrentSnapshots ==
    (c1 :> {"SnapshotCreate", "SnapshotJump", "CommitBlock",
            "LegacySnapshotCreate", "LegacySnapshotJump",
            "LegacyCommitBlock"}) @@
    (c2 :> {"SnapshotCreate", "SnapshotJump", "LegacySnapshotCreate",
            "LegacySnapshotJump", "GetEventsForHeightRange"})

\* a script at a height while another client commits and jumps between
\* snapshots
MCOpsScriptAcrossJump ==
    (c1 :> {"CommitBlock", "SnapshotCreate", "SnapshotJump"}) @@
    (c2 :> {"ExecuteScriptAtBlockHeight"})

\* the storage endpoint while another client commits and jumps between
\* snapshots
MCOpsStorageAcrossJump ==
    (c1 :> {"CommitBlock", "SnapshotCreate", "SnapshotJump"}) @@
    (c2 :> {"Storage"})

\* an event query while another client commits and jumps between snapshots
MCOpsQueryAcrossJump ==
    (c1 :> {"CommitBlock", "SnapshotCreate", "SnapshotJump"}) @@
    (c2 :> {"GetEventsForHeightRange"})

====
