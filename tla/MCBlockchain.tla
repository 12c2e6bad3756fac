---------------------------- MODULE MCBlockchain ----------------------------
(* Instances of Blockchain for TLC: which API methods each caller calls. *)
EXTENDS Blockchain

CONSTANTS c1, c2, t1, t2, t3

MCTxIds == {t1, t2, t3}

MCInvalid == {t3}

\* one goroutine submits through AddTransaction, creates accounts and
\* commits through the locked API (a test, or a client that mines what it
\* submits); another steps execution, resets, and reads blocks' results
\* back (gRPC GetTransactionResultsByBlockID)
MCOpsSerialized ==
    (c1 :> {"AddTransaction", "CreateAccount", "CommitBlock",
            "ExecuteAndCommitBlock"}) @@
    (c2 :> {"ExecuteNextTransaction", "ResetPendingBlock",
            "GetTransactionResultsByBlockID"})

\* one goroutine submits through AddTransaction and creates accounts, one
\* mines through the locked API (REST /emulator/newBlock)
MCOpsSubmitterAndMiner ==
    (c1 :> {"AddTransaction", "CreateAccount"}) @@
    (c2 :> {"ExecuteNextTransaction", "CommitBlock", "ExecuteAndCommitBlock",
            "ResetPendingBlock"})

\* both goroutines submit, and c2 also mines through the locked API
MCOpsTwoSubmitters ==
    (c1 :> {"AddTransaction"}) @@
    (c2 :> {"AddTransaction", "ExecuteAndCommitBlock"})

\* gRPC SendTransaction from two clients with auto-mine on
MCOpsAutoMine ==
    (c1 :> {"SendTransaction", "EnableAutoMine"}) @@
    (c2 :> {"SendTransaction"})

\* auto-mine SendTransaction from one client while another mines through
\* the locked CommitBlock (REST /emulator/newBlock)
MCOpsAutoMineAndMiner ==
    (c1 :> {"SendTransaction", "EnableAutoMine"}) @@
    (c2 :> {"CommitBlock"})

\* one client creates accounts and submits; the other mines only through
\* the locked API
MCOpsCreateAccountLocked ==
    (c1 :> {"CreateAccount", "AddTransaction"}) @@
    (c2 :> {"CommitBlock", "ExecuteAndCommitBlock", "ResetPendingBlock"})

\* CreateAccount (e.g. the REST or gRPC account API) while another client
\* submits through AddTransaction
MCOpsCreateAccount ==
    (c1 :> {"CreateAccount"}) @@ (c2 :> {"AddTransaction"})

\* CreateAccount with no other caller (for the store-failure path)
MCOpsCreateAccountAlone == (c1 :> {"CreateAccount"}) @@ (c2 :> {})

\* auto-mine SendTransaction from one client while another reads the
\* results of a block (gRPC GetTransactionResultsByBlockID)
MCOpsBlockReadsAutoMine ==
    (c1 :> {"SendTransaction", "EnableAutoMine"}) @@
    (c2 :> {"GetTransactionResultsByBlockID"})

\* CreateAccount while another client submits with auto-mine on
MCOpsCreateAccountAutoMine ==
    (c1 :> {"CreateAccount"}) @@ (c2 :> {"SendTransaction", "EnableAutoMine"})

\* a client submits with auto-mine on or off and executes or resets the
\* pending block; another polls GetTransactionResult / GetTransaction (and
\* a block's transactions by GetTransactionsByBlockID)
MCOpsReads ==
    (c1 :> {"SendTransaction", "EnableAutoMine", "DisableAutoMine",
            "ExecuteBlock", "ResetPendingBlock"}) @@
    (c2 :> {"GetTransactionResult", "GetTransaction",
            "GetTransactionsByBlockID"})

\* as MCOpsReads, but the reader also mines through the locked CommitBlock
MCOpsReadsAndMiner ==
    (c1 :> {"SendTransaction", "EnableAutoMine", "DisableAutoMine",
            "ResetPendingBlock"}) @@
    (c2 :> {"GetTransactionResult", "GetTransaction", "CommitBlock"})

=============================================================================
