----------------------------- MODULE Blockchain -----------------------------
(***************************************************************************)
(* The Blockchain coordinator of src/unnamed/part_000 (package emulator): *)
(* API callers (goroutines of the gRPC/REST servers, or a test) calling   *)
(* the state-changing methods of one *Blockchain concurrently.            *)
(*                                                                         *)
(* b.mu is a sync.RWMutex, but only some entry points take it:            *)
(*   locked   : ExecuteNextTransaction, CommitBlock, ExecuteAndCommitBlock,*)
(*              ResetPendingBlock, CreateAccount                           *)
(*   read-locked: GetTransactionResult, GetTransaction                     *)
(*   unlocked : AddTransaction, SendTransaction (including the auto-mine   *)
(*              executeAndCommitBlock it runs), ExecuteBlock,              *)
(*              EnableAutoMine, DisableAutoMine                            *)
(* so a call is split into the steps at which another goroutine may       *)
(* observe or change b.pendingBlock or the store; pc[c] is the step       *)
(* caller c is about to take.  A locked call holds mu from its Lock step  *)
(* to its return (defer b.mu.Unlock()).                                    *)
(*                                                                         *)
(* Data is abstracted: a transaction is an ID; a VM run of a transaction  *)
(* is recorded as that ID appended to the view it ran against; a ledger   *)
(* delta is the sequence of runs; the store keeps, per height, the        *)
(* block's transaction IDs and its delta.                                  *)
(***************************************************************************)
EXTENDS Naturals, Sequences, SequencesExt, FiniteSets, TLC, PendingBlock

CONSTANTS
    Clients,    \* goroutines calling into the Blockchain
    TxIds,      \* transaction IDs (content hashes) callers submit
    Invalid,    \* the IDs transactionValidator.Validate rejects
    OpsOf,      \* OpsOf[c]: the API methods caller c calls
    MaxHeight,  \* bound: no commit-capable call starts at this height
    MaxFatal,   \* bound: number of fatal VM errors in a behaviour
    MaxStoreFail, \* bound: number of failed storage.CommitBlock calls
    NoClient,   \* model value: mu is free
    NoTx        \* model value: no transaction argument

\* the state-changing and transaction-reading methods of the Emulator
\* interface (blockchain/emulator.go) that callers reach, and the
\* ResetPendingBlock and CreateAccount methods of *Blockchain
Ops == {"AddTransaction", "SendTransaction", "ExecuteNextTransaction",
        "ExecuteBlock", "CommitBlock", "ExecuteAndCommitBlock",
        "ResetPendingBlock", "EnableAutoMine", "DisableAutoMine",
        "GetTransactionResult", "GetTransaction", "CreateAccount",
        "GetTransactionResultsByBlockID", "GetTransactionsByBlockID"}

ASSUME /\ Invalid \subseteq TxIds
       /\ OpsOf \in [Clients -> SUBSET Ops]
       /\ MaxHeight \in Nat /\ MaxFatal \in Nat /\ MaxStoreFail \in Nat

VARIABLES
    blocks,        \* store: height -> [txs, delta] of the committed block
    latest,        \* store: height of LatestBlock
    pendingBlock,  \* b.pendingBlock (a PendingBlock record)
    mu,            \* the caller holding b.mu for writing, or NoClient
    rmu,           \* the callers holding b.mu for reading (RLock)
    autoMine,      \* b.autoMine
    pc,            \* pc[c]: next step of caller c ("Idle" between calls)
    op,            \* op[c]: the API method caller c is in
    arg,           \* arg[c]: the transaction c submits or is running
    hgt,           \* hgt[c]: height of the block c is committing
    held,          \* held[c]: the pending block c is executing in is still
                   \* b.pendingBlock (FALSE once a commit or reset replaced it)
    accepted,      \* history: IDs whose AddTransaction returned nil
    discarded,     \* history: IDs dropped by ResetPendingBlock
    fatals,        \* number of fatal VM errors so far
    obs,           \* obs[c]: status of arg[c] when c took the read lock
    res,           \* res[c]: the status c's last read returned
    results,       \* results[c]: the runs c's ExecuteBlock has returned so far
    mine,          \* mine[c]: the transaction c's CreateAccount submitted
    lastResult,    \* lastResult[c]: the transaction of CreateAccount's
                   \* results[len(results)-1], once taken
    storeFails,    \* number of failed storage.CommitBlock calls so far
    qtx,           \* qtx[c]: IDs of the block's collection a by-block query
                   \* has still to look up
    qres           \* qres[c]: what the by-block query has collected so far

storeVars == <<blocks, latest, storeFails>>
callVars == <<pc, op, arg, hgt, held>>
readVars == <<rmu, obs, res, qtx, qres>>
caVars == <<results, mine, lastResult>>
vars == <<blocks, latest, pendingBlock, mu, autoMine, pc, op, arg, hgt, held,
          accepted, discarded, fatals, rmu, obs, res, results, mine,
          lastResult, storeFails, qtx, qres>>

Locked == {"ExecuteNextTransaction", "CommitBlock", "ExecuteAndCommitBlock",
           "ResetPendingBlock", "CreateAccount"}

\* the read-locked queries: they look in the pending block, then in storage
RLocked == {"GetTransactionResult", "GetTransaction"}

\* the queries that read a stored block, then each of its transactions
\* through GetTransactionResult / GetTransaction (one RLock each)
ByBlock == {"GetTransactionResultsByBlockID", "GetTransactionsByBlockID"}

\* the access.TransactionResult status a query reports (GetTransaction
\* reports the first two as the transaction found, Unknown as
\* TransactionNotFoundError); ranked by how far the transaction has got
Statuses == {"Unknown", "Pending", "Sealed"}
Rank == [s \in Statuses |-> CASE s = "Unknown" -> 0 [] s = "Pending" -> 1
                                [] s = "Sealed" -> 2]

\* calls that may commit a block; MaxHeight bounds when they may start
MayCommit == {"SendTransaction", "CommitBlock", "ExecuteAndCommitBlock",
              "CreateAccount"}

\* the first step a locked call takes once it holds mu
AfterLock == [o \in Locked |->
                CASE o = "ExecuteNextTransaction" -> "ENTBegin"
                  [] o = "CommitBlock"            -> "CBCheck"
                  [] o = "ExecuteAndCommitBlock"  -> "EBStart"
                  [] o = "ResetPendingBlock"      -> "Reset"
                  [] o = "CreateAccount"          -> "AddCheck"]

\* IDs the store holds (storage.TransactionByID finds them)
SealedTxs == UNION {ToSet(blocks[h].txs) : h \in DOMAIN blocks}

\* IDs the store holds a result for (storage.TransactionResultByID finds
\* them): commitBlock stores the results of the block's runs only
SealedResults == UNION {ToSet(blocks[h].delta) : h \in DOMAIN blocks}

Block == [txs : Seq(TxIds), delta : Seq(TxIds)]

Labels == {"Idle", "Lock", "AddCheck", "AddAppend", "EBStart", "LoopHead",
           "ENTBegin", "ENTEnd", "CBCheck", "CBStore", "CBSwap", "Reset", "Panicked",
           "RLock", "GRPending", "GRStore", "CALast", "TBBlock", "TBNext"}

-----------------------------------------------------------------------------
(* Call bookkeeping *)

Goto(c, l) ==
    /\ pc' = [pc EXCEPT ![c] = l]
    /\ UNCHANGED <<op, arg, mu, readVars, caVars>>

\* Mutation of RecordRun: the result is put in front of the earlier ones
RecordRunPrepend(c) ==
    /\ pc' = [pc EXCEPT ![c] = "LoopHead"]
    /\ results' = IF op[c] = "CreateAccount"
                  THEN [results EXCEPT ![c] = <<arg[c]>> \o @]
                  ELSE results
    /\ UNCHANGED <<op, arg, mu, readVars, mine, lastResult>>

\* Mutation of RecordRun: the result is not appended to results
RecordRunDropped(c) ==
    /\ pc' = [pc EXCEPT ![c] = "LoopHead"]
    /\ UNCHANGED <<op, arg, mu, readVars, mine, lastResult, results>>

\* executeNextTransaction returned a result: ExecuteBlock appends it to
\* its results and loops.  Only CreateAccount reads the results, so only
\* its calls keep them (the others' results slices are not state any
\* property looks at, and would grow with every reset and rerun).
RecordRun(c) ==
    /\ pc' = [pc EXCEPT ![c] = "LoopHead"]
    /\ results' = IF op[c] = "CreateAccount"
                  THEN [results EXCEPT ![c] = Append(@, arg[c])]
                  ELSE results
    /\ UNCHANGED <<op, arg, mu, readVars, mine, lastResult>>

\* Mutation of Return: the deferred b.mu.Unlock() is missing
ReturnKeepLock(c) ==
    /\ pc' = [pc EXCEPT ![c] = "Idle"]
    /\ op' = [op EXCEPT ![c] = "None"]
    /\ arg' = [arg EXCEPT ![c] = NoTx]
    /\ mu' = mu
    /\ results' = [results EXCEPT ![c] = <<>>]
    /\ mine' = [mine EXCEPT ![c] = NoTx]
    /\ lastResult' = [lastResult EXCEPT ![c] = NoTx]
    /\ UNCHANGED readVars

\* the call returns, with a result or an error; a locked call unlocks
Return(c) ==
    /\ pc' = [pc EXCEPT ![c] = "Idle"]
    /\ op' = [op EXCEPT ![c] = "None"]
    /\ arg' = [arg EXCEPT ![c] = NoTx]
    /\ mu' = IF mu = c THEN NoClient ELSE mu
    /\ results' = [results EXCEPT ![c] = <<>>]
    /\ mine' = [mine EXCEPT ![c] = NoTx]
    /\ lastResult' = [lastResult EXCEPT ![c] = NoTx]
    /\ UNCHANGED readVars

Call(c, o, t) ==
    /\ pc[c] = "Idle"
    /\ o \in OpsOf[c]
    /\ o \in MayCommit => latest < MaxHeight
    /\ pc' = [pc EXCEPT ![c] = IF o \in Locked THEN "Lock"
                                ELSE IF o \in RLocked THEN "RLock"
                                ELSE IF o = "ExecuteBlock" THEN "EBStart"
                                ELSE "AddCheck"]
    /\ op' = [op EXCEPT ![c] = o]
    /\ arg' = [arg EXCEPT ![c] = t]
    /\ mine' = [mine EXCEPT ![c] = IF o = "CreateAccount" THEN t ELSE NoTx]
    /\ UNCHANGED <<storeVars, pendingBlock, mu, autoMine, hgt, held,
                   accepted, discarded, fatals, readVars, results, lastResult>>

-----------------------------------------------------------------------------
(* Entry points *)

NewBlockchainInit ==
    /\ blocks = (0 :> [txs |-> <<>>, delta |-> <<>>])
    /\ latest = 0
    /\ pendingBlock = NewPendingBlock(0)
    /\ mu = NoClient
    /\ autoMine = FALSE
    /\ pc = [c \in Clients |-> "Idle"]
    /\ op = [c \in Clients |-> "None"]
    /\ arg = [c \in Clients |-> NoTx]
    /\ hgt = [c \in Clients |-> 0]
    /\ held = [c \in Clients |-> FALSE]
    /\ accepted = {}
    /\ discarded = {}
    /\ fatals = 0
    /\ rmu = {}
    /\ obs = [c \in Clients |-> "Unknown"]
    /\ res = [c \in Clients |-> "Unknown"]
    /\ results = [c \in Clients |-> <<>>]
    /\ mine = [c \in Clients |-> NoTx]
    /\ lastResult = [c \in Clients |-> NoTx]
    /\ storeFails = 0
    /\ qtx = [c \in Clients |-> <<>>]
    /\ qres = [c \in Clients |-> <<>>]

AddTransaction(c, t) == Call(c, "AddTransaction", t)

SendTransaction(c, t) == Call(c, "SendTransaction", t)

ExecuteBlock(c) == Call(c, "ExecuteBlock", NoTx)

ExecuteNextTransaction(c) == Call(c, "ExecuteNextTransaction", NoTx)

CommitBlock(c) == Call(c, "CommitBlock", NoTx)

ExecuteAndCommitBlock(c) == Call(c, "ExecuteAndCommitBlock", NoTx)

ResetPendingBlock(c) == Call(c, "ResetPendingBlock", NoTx)

SetAutoMine(c, o, v) ==
    /\ pc[c] = "Idle"
    /\ o \in OpsOf[c]
    /\ autoMine' = v
    /\ UNCHANGED <<storeVars, pendingBlock, mu, callVars, accepted,
                   discarded, fatals, readVars, caVars>>

EnableAutoMine(c) == SetAutoMine(c, "EnableAutoMine", TRUE)

DisableAutoMine(c) == SetAutoMine(c, "DisableAutoMine", FALSE)

CreateAccount(c, t) == Call(c, "CreateAccount", t)

GetTransactionResult(c, t) == Call(c, "GetTransactionResult", t)

GetTransaction(c, t) == Call(c, "GetTransaction", t)

\* b.mu.Lock(): no writer and no reader holds mu
Lock(c) ==
    /\ pc[c] = "Lock"
    /\ mu = NoClient
    /\ rmu = {}
    /\ mu' = c
    /\ pc' = [pc EXCEPT ![c] = AfterLock[op[c]]]
    /\ UNCHANGED <<storeVars, pendingBlock, autoMine, op, arg, hgt, held,
                   accepted, discarded, fatals, readVars, caVars>>


-----------------------------------------------------------------------------
(* AddTransaction: the checks, then the append to b.pendingBlock.  No lock *)
(* is held, so another caller may run between the two steps.              *)

\* Mutation of AddRejected: the storage duplicate lookup is missing
AddRejectedNoStore(t) ==
    \/ ExecutionStarted(pendingBlock)
    \/ ContainsTransaction(pendingBlock, t)
    \/ t \in Invalid

AddRejected(t) ==
    \/ ExecutionStarted(pendingBlock)        \* PendingBlockMidExecutionError
    \/ ContainsTransaction(pendingBlock, t)  \* DuplicateTransactionError
    \/ t \in SealedTxs                       \* duplicate found in storage
    \/ t \in Invalid                         \* transactionValidator.Validate

AddCheck(c) ==
    /\ pc[c] = "AddCheck"
    /\ \/ /\ AddRejected(arg[c])
          /\ Return(c)
       \/ /\ ~AddRejected(arg[c])
          /\ Goto(c, "AddAppend")
    /\ UNCHANGED <<storeVars, pendingBlock, autoMine, hgt, held, accepted,
                   discarded, fatals>>

\* b.pendingBlock.AddTransaction(tx), its error ignored, then return nil;
\* SendTransaction goes on to executeAndCommitBlock when b.autoMine is set,
\* CreateAccount always does.
AddAppend(c) ==
    /\ pc[c] = "AddAppend"
    /\ pendingBlock' = AddTx(pendingBlock, arg[c])
    /\ accepted' = accepted \cup {arg[c]}
    /\ IF (op[c] = "SendTransaction" /\ autoMine) \/ op[c] = "CreateAccount"
       THEN Goto(c, "EBStart")
       ELSE Return(c)
    /\ UNCHANGED <<storeVars, autoMine, hgt, held, discarded, fatals>>

-----------------------------------------------------------------------------
(* ExecuteBlock and executeNextTransaction                                 *)

\* ExecuteBlock returned without error: executeAndCommitBlock commits next
ExecuteBlockReturns(c) ==
    IF op[c] = "ExecuteBlock" THEN Return(c) ELSE Goto(c, "CBCheck")

EBStart(c) ==
    /\ pc[c] = "EBStart"
    /\ \/ /\ Empty(pendingBlock)               \* empty block: a no-op
          /\ ExecuteBlockReturns(c)
       \/ /\ ~Empty(pendingBlock)              \* TransactionsExhausted
          /\ ExecutionComplete(pendingBlock)
          /\ Return(c)
       \/ /\ ~Empty(pendingBlock)
          /\ ~ExecutionComplete(pendingBlock)
          /\ Goto(c, "ENTBegin")
    /\ UNCHANGED <<storeVars, pendingBlock, autoMine, hgt, held, accepted,
                   discarded, fatals>>

\* for !b.pendingBlock.ExecutionComplete() { ... }
LoopHead(c) ==
    /\ pc[c] = "LoopHead"
    /\ \/ /\ ExecutionComplete(pendingBlock)
          /\ ExecuteBlockReturns(c)
       \/ /\ ~ExecutionComplete(pendingBlock)
          /\ Goto(c, "ENTBegin")
    /\ UNCHANGED <<storeVars, pendingBlock, autoMine, hgt, held, accepted,
                   discarded, fatals>>

\* Mutation of ENTBegin: the run is started without taking the transaction
\* at the cursor
ENTBeginNoCapture(c) ==
    /\ pc[c] = "ENTBegin"
    /\ \/ /\ ExecutionComplete(pendingBlock)
          /\ Return(c)
          /\ UNCHANGED held
       \/ /\ pendingBlock.index < Len(pendingBlock.txs)
          /\ held' = [held EXCEPT ![c] = TRUE]
          /\ pc' = [pc EXCEPT ![c] = "ENTEnd"]
          /\ UNCHANGED <<op, mu, arg, readVars, caVars>>
       \/ /\ pendingBlock.index > Len(pendingBlock.txs)
          /\ Goto(c, "Panicked")
          /\ UNCHANGED held
    /\ UNCHANGED <<storeVars, pendingBlock, autoMine, hgt, accepted,
                   discarded, fatals>>

\* executeNextTransaction: the exhausted check, then pendingBlock's
\* ExecuteNextTransaction takes the transaction at the cursor.  A cursor
\* past the end of the queue indexes the slice out of range: a panic,
\* which ends the process.
ENTBegin(c) ==
    /\ pc[c] = "ENTBegin"
    /\ \/ /\ ExecutionComplete(pendingBlock)
          /\ Return(c)
          /\ UNCHANGED held
       \/ /\ pendingBlock.index < Len(pendingBlock.txs)
          /\ arg' = [arg EXCEPT ![c] = NextTransaction(pendingBlock)]
          /\ held' = [held EXCEPT ![c] = TRUE]
          /\ pc' = [pc EXCEPT ![c] = "ENTEnd"]
          /\ UNCHANGED <<op, mu, readVars, caVars>>
       \/ /\ pendingBlock.index > Len(pendingBlock.txs)
          /\ Goto(c, "Panicked")
          /\ UNCHANGED held
    /\ UNCHANGED <<storeVars, pendingBlock, autoMine, hgt, accepted,
                   discarded, fatals>>

\* b.vm.Run has run the transaction against the view of the block it was
\* taken from.  A fatal error returns without advancing the cursor and
\* every caller up the stack returns it.  Otherwise that block records the
\* run and advances its cursor; if the block is no longer b.pendingBlock
\* the writes land in a discarded object.
ENTEnd(c) ==
    /\ pc[c] = "ENTEnd"
    /\ held' = [held EXCEPT ![c] = FALSE]
    /\ \/ /\ fatals < MaxFatal
          /\ fatals' = fatals + 1
          /\ Return(c)
          /\ UNCHANGED pendingBlock
       \/ /\ pendingBlock' = IF held[c]
                             THEN ApplyExecuted(pendingBlock, arg[c])
                             ELSE pendingBlock
          /\ IF op[c] = "ExecuteNextTransaction"
             THEN Return(c)
             ELSE RecordRun(c)
          /\ UNCHANGED fatals
    /\ UNCHANGED <<storeVars, autoMine, hgt, accepted, discarded>>

-----------------------------------------------------------------------------
(* commitBlock: the lifecycle checks and storage.CommitBlock, then the     *)
(* replacement of b.pendingBlock by a fresh block on the committed one.    *)

\* Mutation of CommitAllowed: the PendingBlockMidExecutionError check is missing
CommitAllowedMidExecution(pb) == ExecutionStarted(pb) \/ Empty(pb)

CommitAllowed(pb) ==
    /\ ExecutionStarted(pb) \/ Empty(pb)           \* else CommitBeforeExecution
    /\ ExecutionStarted(pb) => ExecutionComplete(pb)  \* else MidExecution

\* Mutation of StoreCommitBlock: the latest height is not advanced
StoreCommitBlockNoLatest(h, b) ==
    /\ blocks' = (h :> b) @@ blocks
    /\ latest' = latest
    /\ UNCHANGED storeFails

\* Store.CommitBlock: the block at its height, which becomes the latest
StoreCommitBlock(h, b) ==
    /\ blocks' = (h :> b) @@ blocks
    /\ latest' = h
    /\ UNCHANGED storeFails

\* Store.CommitBlock returned an error: commitBlock returns it before it
\* swaps b.pendingBlock.  A failed write is taken to leave the store as it was.
StoreCommitFails ==
    /\ storeFails < MaxStoreFail
    /\ storeFails' = storeFails + 1
    /\ UNCHANGED <<blocks, latest>>

\* commitBlock's lifecycle checks: PendingBlockCommitBeforeExecutionError
\* or PendingBlockMidExecutionError.  AddTransaction takes no lock, so an
\* append may still land between these checks and the reads below.
CBCheck(c) ==
    /\ pc[c] = "CBCheck"
    /\ IF CommitAllowed(pendingBlock) THEN Goto(c, "CBStore") ELSE Return(c)
    /\ UNCHANGED <<storeVars, pendingBlock, autoMine, hgt, held, accepted,
                   discarded, fatals>>

\* Mutation of CBStore: the ledger delta is left out of storage.CommitBlock
CBStoreNoDelta(c) ==
    /\ pc[c] = "CBStore"
    /\ \/ StoreCommitFails /\ Return(c) /\ UNCHANGED hgt
       \/ /\ StoreCommitBlock(pendingBlock.height,
                              [txs |-> pendingBlock.txs, delta |-> <<>>])
          /\ hgt' = [hgt EXCEPT ![c] = pendingBlock.height]
          /\ Goto(c, "CBSwap")
    /\ UNCHANGED <<pendingBlock, autoMine, held, accepted, discarded, fatals>>

\* the reads of b.pendingBlock (its block, transactions, results of its
\* runs and ledger delta), then storage.CommitBlock
CBStore(c) ==
    /\ pc[c] = "CBStore"
    /\ \/ StoreCommitFails /\ Return(c) /\ UNCHANGED hgt
       \/ /\ StoreCommitBlock(pendingBlock.height,
                              [txs |-> pendingBlock.txs,
                               delta |-> pendingBlock.view])
          /\ hgt' = [hgt EXCEPT ![c] = pendingBlock.height]
          /\ Goto(c, "CBSwap")
    /\ UNCHANGED <<pendingBlock, autoMine, held, accepted, discarded, fatals>>

\* Mutation of CBSwap: the new pending block is built on the parent
CBSwapOnParent(c) ==
    /\ pc[c] = "CBSwap"
    /\ pendingBlock' = NewPendingBlock(hgt[c] - 1)
    /\ held' = [x \in Clients |-> FALSE]
    /\ hgt' = [hgt EXCEPT ![c] = 0]
    /\ IF op[c] = "CreateAccount" /\ mine[c] # NoTx
       THEN Goto(c, "CALast")
       ELSE Return(c)
    /\ UNCHANGED <<storeVars, autoMine, accepted, discarded, fatals>>

CBSwap(c) ==
    /\ pc[c] = "CBSwap"
    /\ pendingBlock' = NewPendingBlock(hgt[c])
    /\ held' = [x \in Clients |-> FALSE]
    /\ hgt' = [hgt EXCEPT ![c] = 0]
    /\ IF op[c] = "CreateAccount" /\ mine[c] # NoTx
       THEN Goto(c, "CALast")
       ELSE Return(c)
    /\ UNCHANGED <<storeVars, autoMine, accepted, discarded, fatals>>

\* ResetPendingBlock: a fresh block on the latest committed one
Reset(c) ==
    /\ pc[c] = "Reset"
    /\ pendingBlock' = NewPendingBlock(latest)
    /\ discarded' = discarded \cup ToSet(pendingBlock.txs)
    /\ held' = [x \in Clients |-> FALSE]
    /\ Return(c)
    /\ UNCHANGED <<storeVars, autoMine, hgt, accepted, fatals>>

-----------------------------------------------------------------------------
(* GetTransactionResult and GetTransaction: under b.mu.RLock(), look the   *)
(* ID up in b.pendingBlock, then in storage.  Locked writers are excluded; *)
(* the unlocked AddTransaction, ExecuteBlock and auto-mine commit are not. *)

\* the store lookup of query o: GetTransactionResult's
\* storage.TransactionResultByID finds a stored result, GetTransaction's
\* storage.TransactionByID a stored transaction
StoreFinds(o, t) ==
    IF o \in {"GetTransactionResult", "GetTransactionResultsByBlockID"}
    THEN t \in SealedResults
    ELSE t \in SealedTxs

\* what query o would report if it ran in one atomic step
TxStatus(o, t) ==
    IF ContainsTransaction(pendingBlock, t) THEN "Pending"
    ELSE IF StoreFinds(o, t) THEN "Sealed"
    ELSE "Unknown"

\* Mutation of RLock: the query does not take b.mu.RLock()
RLockMissing(c) ==
    /\ pc[c] = "RLock"
    /\ obs' = [obs EXCEPT ![c] = TxStatus(op[c], arg[c])]
    /\ pc' = [pc EXCEPT ![c] = "GRPending"]
    /\ UNCHANGED <<storeVars, pendingBlock, mu, autoMine, op, arg, hgt, held,
                   accepted, discarded, fatals, rmu, res, qtx, qres, caVars>>

\* b.mu.RLock(): a waiting writer holds off new readers (sync.RWMutex)
RLock(c) ==
    /\ pc[c] = "RLock"
    /\ mu = NoClient
    /\ \A d \in Clients : pc[d] # "Lock"
    /\ rmu' = rmu \cup {c}
    /\ obs' = [obs EXCEPT ![c] = TxStatus(op[c], arg[c])]
    /\ pc' = [pc EXCEPT ![c] = "GRPending"]
    /\ UNCHANGED <<storeVars, pendingBlock, mu, autoMine, op, arg, hgt, held,
                   accepted, discarded, fatals, res, qtx, qres, caVars>>

\* the query returns status s; the deferred b.mu.RUnlock()
ReadReturn(c, s) ==
    /\ pc' = [pc EXCEPT ![c] = "Idle"]
    /\ op' = [op EXCEPT ![c] = "None"]
    /\ arg' = [arg EXCEPT ![c] = NoTx]
    /\ rmu' = rmu \ {c}
    /\ res' = [res EXCEPT ![c] = s]
    /\ UNCHANGED <<mu, obs, hgt, qtx, qres, caVars>>

\* a by-block query returns its result or error (nothing of it is kept)
QueryReturn(c) ==
    /\ pc' = [pc EXCEPT ![c] = "Idle"]
    /\ op' = [op EXCEPT ![c] = "None"]
    /\ arg' = [arg EXCEPT ![c] = NoTx]
    /\ hgt' = [hgt EXCEPT ![c] = 0]
    /\ qtx' = [qtx EXCEPT ![c] = <<>>]
    /\ qres' = [qres EXCEPT ![c] = <<>>]

\* inside a by-block query: the per-transaction call returns s and
\* RUnlocks; result = append(result, s).  GetTransactionsByBlockID returns
\* the TransactionNotFoundError of an unknown ID at once.
Collect(c, s) ==
    /\ rmu' = rmu \ {c}
    /\ obs' = [obs EXCEPT ![c] = "Unknown"]
    /\ IF op[c] = "GetTransactionsByBlockID" /\ s = "Unknown"
       THEN QueryReturn(c)
       ELSE /\ pc' = [pc EXCEPT ![c] = "TBNext"]
            /\ qres' = [qres EXCEPT ![c] = Append(@, s)]
            /\ UNCHANGED <<op, arg, hgt, qtx>>
    /\ UNCHANGED <<mu, res, caVars>>

\* the lookup's answer goes to the caller, or into the by-block result
Answer(c, s) == IF op[c] \in ByBlock THEN Collect(c, s) ELSE ReadReturn(c, s)

\* b.pendingBlock.ContainsTransaction / GetTransaction
GRPending(c) ==
    /\ pc[c] = "GRPending"
    /\ IF ContainsTransaction(pendingBlock, arg[c])
       THEN Answer(c, "Pending")
       ELSE Goto(c, "GRStore") /\ UNCHANGED hgt
    /\ UNCHANGED <<storeVars, pendingBlock, autoMine, held, accepted,
                   discarded, fatals>>

\* storage.TransactionResultByID / TransactionByID: ErrNotFound is Unknown
GRStore(c) ==
    /\ pc[c] = "GRStore"
    /\ Answer(c, IF StoreFinds(op[c], arg[c]) THEN "Sealed" ELSE "Unknown")
    /\ UNCHANGED <<storeVars, pendingBlock, autoMine, held, accepted,
                   discarded, fatals>>

-----------------------------------------------------------------------------
(* GetTransactionResultsByBlockID / GetTransactionsByBlockID: an unlocked  *)
(* GetBlockByID, then GetCollectionByID and, for each transaction of the   *)
(* block's one collection, GetTransactionResult / GetTransaction, each     *)
(* under its own RLock.  A block is named by its height (its ID is a hash  *)
(* of it); the collection is stored with the block, so its lookup finds it. *)

\* the call, for the block at height h
BlockQuery(c, o, h) ==
    /\ pc[c] = "Idle"
    /\ o \in OpsOf[c] \cap ByBlock
    /\ pc' = [pc EXCEPT ![c] = "TBBlock"]
    /\ op' = [op EXCEPT ![c] = o]
    /\ hgt' = [hgt EXCEPT ![c] = h]
    /\ qtx' = [qtx EXCEPT ![c] = <<>>]
    /\ qres' = [qres EXCEPT ![c] = <<>>]
    /\ UNCHANGED <<storeVars, pendingBlock, mu, rmu, autoMine, arg, held,
                   accepted, discarded, fatals, obs, res, caVars>>

\* storage.BlockByID (no lock): ErrNotFound returns codes.NotFound;
\* otherwise the collection's transaction IDs
TBBlock(c) ==
    /\ pc[c] = "TBBlock"
    /\ IF hgt[c] \in DOMAIN blocks
       THEN /\ pc' = [pc EXCEPT ![c] = "TBNext"]
            /\ qtx' = [qtx EXCEPT ![c] = blocks[hgt[c]].txs]
            /\ UNCHANGED <<op, arg, hgt, mu, rmu, obs, res, qres, caVars>>
       ELSE QueryReturn(c) /\ UNCHANGED <<mu, rmu, obs, res, caVars>>
    /\ UNCHANGED <<storeVars, pendingBlock, autoMine, held, accepted,
                   discarded, fatals>>

\* the loop over the collection's transactions: the next one is looked up
\* through the read-locked query; after the last, the results return
TBNext(c) ==
    /\ pc[c] = "TBNext"
    /\ IF qtx[c] = <<>>
       THEN QueryReturn(c)
       ELSE /\ pc' = [pc EXCEPT ![c] = "RLock"]
            /\ arg' = [arg EXCEPT ![c] = Head(qtx[c])]
            /\ qtx' = [qtx EXCEPT ![c] = Tail(@)]
            /\ UNCHANGED <<op, hgt, qres>>
    /\ UNCHANGED <<storeVars, pendingBlock, autoMine, mu, rmu, held,
                   accepted, discarded, fatals, obs, res, caVars>>

-----------------------------------------------------------------------------
(* CreateAccount (locked): AddTransaction of its account-creation         *)
(* transaction, executeAndCommitBlock, then lastResult :=                 *)
(* results[len(results)-1] and a second commitBlock.  The AddTransaction  *)
(* and executeAndCommitBlock steps are the ones above, with op[c] =       *)
(* "CreateAccount"; after the first swap the call reaches CALast.         *)

\* lastResult := results[len(results)-1]: with no results the index is -1,
\* a panic; otherwise the second b.commitBlock()
CALast(c) ==
    /\ pc[c] = "CALast"
    /\ pc' = [pc EXCEPT ![c] = IF results[c] = <<>> THEN "Panicked"
                                                    ELSE "CBCheck"]
    /\ mine' = [mine EXCEPT ![c] = NoTx]
    /\ lastResult' = [lastResult EXCEPT ![c] = IF results[c] = <<>> THEN NoTx
                                                ELSE Last(results[c])]
    /\ UNCHANGED <<storeVars, pendingBlock, mu, autoMine, op, arg, hgt, held,
                   accepted, discarded, fatals, readVars, results>>

-----------------------------------------------------------------------------

\* an unrecovered panic in any goroutine ends the process
Crashed == \E c \in Clients : pc[c] = "Panicked"

Step(c) ==
    \/ AddCheck(c) \/ AddAppend(c) \/ EBStart(c) \/ LoopHead(c)
    \/ ENTBegin(c) \/ ENTEnd(c) \/ CBCheck(c) \/ CBStore(c) \/ CBSwap(c) \/ Reset(c)
    \/ GRPending(c) \/ GRStore(c) \/ CALast(c) \/ TBBlock(c) \/ TBNext(c)

Invoke(c) ==
    \/ \E t \in TxIds : AddTransaction(c, t) \/ SendTransaction(c, t)
    \/ ExecuteBlock(c) \/ ExecuteNextTransaction(c) \/ CommitBlock(c)
    \/ ExecuteAndCommitBlock(c) \/ ResetPendingBlock(c)
    \/ EnableAutoMine(c) \/ DisableAutoMine(c)
    \/ \E t \in TxIds : GetTransactionResult(c, t) \/ GetTransaction(c, t)
    \/ \E t \in TxIds : CreateAccount(c, t)
    \/ \E o \in ByBlock, h \in 1..MaxHeight : BlockQuery(c, o, h)

Next ==
    /\ ~Crashed
    /\ \E c \in Clients : Invoke(c) \/ Lock(c) \/ RLock(c) \/ Step(c)

\* Goroutines are preemptively scheduled, so a caller that can take its
\* next step eventually does; sync.Mutex switches to starvation mode for
\* a waiter blocked over 1ms, so a caller waiting on mu while it is
\* released infinitely often eventually gets it; a waiting writer holds
\* off new readers, and a reader waits only for writers.  Callers are not obliged
\* to call anything.
Fairness ==
    \A c \in Clients : WF_vars(Step(c)) /\ SF_vars(Lock(c)) /\ SF_vars(RLock(c))

Spec == NewBlockchainInit /\ [][Next]_vars /\ Fairness

-----------------------------------------------------------------------------
(* Properties                                                              *)

TypeOK ==
    /\ DOMAIN blocks \subseteq Nat /\ \A h \in DOMAIN blocks : blocks[h] \in Block
    /\ latest \in DOMAIN blocks
    /\ pendingBlock \in PendingBlocks(TxIds)
    /\ mu \in Clients \cup {NoClient}
    /\ autoMine \in BOOLEAN
    /\ pc \in [Clients -> Labels]
    /\ op \in [Clients -> Ops \cup {"None"}]
    /\ arg \in [Clients -> TxIds \cup {NoTx}]
    /\ hgt \in [Clients -> Nat]
    /\ held \in [Clients -> BOOLEAN]
    /\ accepted \subseteq TxIds /\ discarded \subseteq TxIds
    /\ fatals \in 0..MaxFatal
    /\ rmu \subseteq Clients
    /\ obs \in [Clients -> Statuses] /\ res \in [Clients -> Statuses]
    /\ results \in [Clients -> Seq(TxIds)]
    /\ mine \in [Clients -> TxIds \cup {NoTx}]
    /\ lastResult \in [Clients -> TxIds \cup {NoTx}]
    /\ storeFails \in 0..MaxStoreFail
    /\ qtx \in [Clients -> Seq(TxIds)] /\ qres \in [Clients -> Seq(Statuses)]

\* Every committed block's ledger delta is exactly its transactions, run
\* once each in admission order (spec 4.1 ordering guarantee; spec 8:
\* state at h and h+1 differ exactly by the transactions sealed in h+1).
\* Broken when two goroutines run executeNextTransaction on one pending
\* block, or a block is committed before its runs are complete.
SealedExactlyOnce ==
    \A h \in DOMAIN blocks : blocks[h].delta = blocks[h].txs

\* No transaction ID is sealed twice: a duplicate submission is refused
\* whether the first copy is pending or committed (spec 8), so an ID
\* occurs once in all committed blocks together.
NoTxSealedTwice ==
    \A h1, h2 \in DOMAIN blocks :
        \A i \in DOMAIN blocks[h1].txs, j \in DOMAIN blocks[h2].txs :
            blocks[h1].txs[i] = blocks[h2].txs[j] => <<h1, i>> = <<h2, j>>

\* Committed history is never rewritten: a step that changes the store
\* adds the block at the next height, and it becomes the latest (spec 3:
\* height strictly increasing by 1 per commit; spec 5: commit order
\* equals height order).
CommitExtendsChain ==
    [][blocks' # blocks =>
         /\ latest' = latest + 1
         /\ latest' \notin DOMAIN blocks
         /\ DOMAIN blocks' = DOMAIN blocks \cup {latest'}]_vars

\* The pending block sits on the latest committed block (spec 3:
\* "its height is always committed-height + 1"), except inside
\* commitBlock between storage.CommitBlock and the swap of pendingBlock.
PendingOnTopOfLatest ==
    (\A c \in Clients : pc[c] # "CBSwap") => pendingBlock.height = latest + 1

\* A transaction whose AddTransaction/SendTransaction returned nil is
\* pending, committed, or was dropped by ResetPendingBlock: it is never
\* silently lost.
AcceptedNotLost ==
    \A t \in accepted :
        ContainsTransaction(pendingBlock, t) \/ t \in SealedTxs \/ t \in discarded

\* Every API call returns: no caller waits forever on mu (a writer behind
\* readers, a reader behind a waiting writer) or loops forever in
\* ExecuteBlock, unless a panic has ended the process.
CallsReturn == \A c \in Clients : pc[c] # "Idle" ~> (pc[c] = "Idle" \/ Crashed)

\* CreateAccount reads the address from the events of its own
\* transaction: the last result executeAndCommitBlock returned is the one
\* of the transaction CreateAccount submitted.
CreateAccountReadsOwnResult ==
    \A c \in Clients :
        pc[c] = "CALast" /\ results[c] # <<>> => Last(results[c]) = mine[c]

\* CreateAccount's executeAndCommitBlock returns at least one result, so
\* results[len(results)-1] is in range: it ran the transaction it had
\* just added.
CreateAccountHasResult ==
    \A c \in Clients : pc[c] = "CALast" => results[c] # <<>>

\* CreateAccount returns an error only if it has not created the account:
\* once its first executeAndCommitBlock has sealed the account transaction
\* and lastResult is taken, the call does not fail.  The second
\* b.commitBlock() returns an error when storage.CommitBlock fails, or when
\* another goroutine's unlocked AddTransaction has put a transaction into the
\* fresh pending block (PendingBlockCommitBeforeExecutionError); CreateAccount
\* returns that error although its account exists.
CreateAccountErrorMeansNotCreated ==
    [][\A c \in Clients :
         lastResult[c] # NoTx /\ pc[c] \in {"CBCheck", "CBStore"}
              /\ pc'[c] = "Idle"
             => lastResult[c] \notin SealedTxs']_vars

\* A query never reports a transaction as less far along than it was when
\* the read lock was taken: GetTransactionResult / GetTransaction look in
\* the pending block before storage, and commitBlock stores the block
\* before it swaps b.pendingBlock, so an unlocked commit racing the two
\* lookups cannot make a pending or sealed transaction look unknown.
ResultNotStale ==
    [][\A c \in Clients :
         pc[c] \in {"GRPending", "GRStore"} /\ pc'[c] = "Idle"
             => Rank[res'[c]] >= Rank[obs[c]]]_vars

\* GetTransactionResultsByBlockID reports every transaction of the block it
\* found in storage as sealed: a caller that got the block back never sees
\* one of its transactions pending or unknown.  The block is read with no
\* lock and each result under its own RLock, so this rests on a locked
\* commit storing the block and swapping the pending block under one
\* b.mu.Lock(), and on AddTransaction refusing an ID already in storage.
BlockResultsSealed ==
    [][\A c \in Clients :
         pc[c] = "TBNext" /\ pc'[c] = "Idle"
         /\ op[c] = "GetTransactionResultsByBlockID"
             => \A i \in DOMAIN qres[c] : qres[c][i] = "Sealed"]_vars

-----------------------------------------------------------------------------
(* Refinement: the coordinator implements ChainAbstract.  While a commit  *)
(* is between storage.CommitBlock and the swap, the committed block is    *)
(* no longer pending: the mapping shows an empty pending block.           *)

InCommit == \E c \in Clients : pc[c] = "CBSwap"

Chain == INSTANCE ChainAbstract WITH
    chain  <- [i \in 1..latest + 1 |-> blocks[i - 1].txs],
    ledger <- FlattenSeq([i \in 1..latest |-> blocks[i].delta]),
    queue  <- IF InCommit THEN <<>> ELSE pendingBlock.txs,
    done   <- IF InCommit THEN 0 ELSE pendingBlock.index,
    view   <- IF InCommit THEN <<>> ELSE pendingBlock.view

\* Every behaviour of the coordinator is a behaviour of ChainAbstract.
ChainSpec == Chain!ASpec

=============================================================================
