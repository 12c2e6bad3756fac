--------------------------- MODULE EmulatorServer ---------------------------
(***************************************************************************)
(* The REST admin API of src/server/api.go (EmulatorAPIServer) and the    *)
(* store it shares with every Blockchain it configures, together with the *)
(* block-addressed reads of src/unnamed/part_000: the event queries by   *)
(* height range and by block IDs, the script executions at the latest    *)
(* block, a height or a block ID, and GetAccount.                         *)
(*                                                                         *)
(* The store keeps named snapshot contexts (storage.SnapshotProvider);    *)
(* reads and writes go to the current one.  SnapshotCreate and            *)
(* SnapshotJump switch the store's context, configure a fresh Blockchain  *)
(* on it (configureBlockchain -> NewBlockchain) and install it with       *)
(* adapter.SetEmulator.  None of these takes a lock: the old Blockchain   *)
(* is still the adapter's emulator until SetEmulator, and its pending     *)
(* block still sits on the block that was latest in the old context.      *)
(*                                                                         *)
(* A Blockchain instance is reduced to the block its pending block is     *)
(* built on (tip); its CommitBlock is one step, as it holds that          *)
(* instance's mu throughout (Blockchain.tla splits it).  Pending blocks   *)
(* are empty here: a block is its identity, the instance that committed   *)
(* it and its height, and its parent's identity.  Events at a height are  *)
(* identified by the block stored at that height when they are read, and *)
(* so is the ledger view at a height.                                     *)
(***************************************************************************)
EXTENDS Naturals, Sequences, SequencesExt, FiniteSets, TLC

CONSTANTS
    Clients,         \* goroutines serving REST and gRPC requests
    Names,           \* snapshot (context) names
    Default,         \* the context the store starts in
    OpsOf,           \* OpsOf[c]: the requests client c makes
    MaxCommits,      \* bound: commit requests in a behaviour
    MaxSnapshotOps,  \* bound: snapshot create/jump requests in a behaviour
    MaxStoreFail,    \* bound: failed storage.CommitBlock calls
    MaxConfigFail,   \* bound: failed configureBlockchain calls
    NoBlock,         \* model value: nothing stored at a height
    NoName,          \* model value: the empty form value name=""
    Builds,          \* handler sets the server may be built with
    SnapshotConfigs  \* whether the configured store supports snapshots

\* the AccessProvider methods (blockchain/emulator.go) that resolve blocks,
\* then read the data at their heights
BlockReads == {"GetEventsForHeightRange", "GetEventsForBlockIDs",
               "ExecuteScript", "ExecuteScriptAtBlockHeight",
               "ExecuteScriptAtBlockID", "GetAccount", "Storage"}

\* the REST admin handlers of api.go, and those of the older
\* server/emulator.go, which a build registers instead
ApiHandlers == {"CommitBlock", "SnapshotCreate", "SnapshotJump", "SnapshotList",
                "Config", "Storage"}

LegacyHandlers == {"LegacyCommitBlock", "LegacySnapshotCreate",
                   "LegacySnapshotJump", "LegacySnapshotList", "LegacyStorage"}

Ops == ApiHandlers \cup LegacyHandlers \cup BlockReads

\* the requests a server of build b serves
Served(b) == Ops \ (IF b = "api" THEN LegacyHandlers ELSE ApiHandlers)

ASSUME /\ Default \in Names
       /\ OpsOf \in [Clients -> SUBSET Ops]
       /\ {MaxCommits, MaxSnapshotOps, MaxStoreFail, MaxConfigFail} \subseteq Nat
       /\ Builds \subseteq {"api", "legacy"} /\ SnapshotConfigs \subseteq BOOLEAN

Heights == 0..MaxCommits

\* instance 0 committed genesis; instance 1 is the emulator the server
\* starts with; every snapshot request configures one more
Insts == 1..(1 + MaxSnapshotOps)

\* a block: the instance that committed it, its height, and the instance
\* that committed its parent (the parent's ID is <<pinst, h - 1>>)
Blocks == [inst : 0..(1 + MaxSnapshotOps), h : Heights,
           pinst : 0..(1 + MaxSnapshotOps)]

Genesis == [inst |-> 0, h |-> 0, pinst |-> 0]

Id(b) == <<b.inst, b.h>>

AllIds == (0..(1 + MaxSnapshotOps)) \X Heights

ParentId(b) == <<b.pinst, b.h - 1>>

\* GetEventsForHeightRange(eventType, startHeight, endHeight) arguments;
\* an end height past the latest exercises the clamp
Queries == [type : {"valid", "empty"}, start : Heights,
            end : 0..(MaxCommits + 1)]

\* "Aborted": the handler panicked; net/http drops the connection
Statuses == {"None", "OK", "Invalid", "NotFound", "Conflict", "Internal",
             "Aborted"}

VARIABLES
    ctx,        \* store: ctx[n][h], the block at height h in context n
    top,        \* store: top[n], LatestBlock's height in context n
    known,      \* store: Snapshots()
    cur,        \* store: the context reads and writes go to
    tip,        \* tip[i]: the block instance i's pending block is built on
    nInst,      \* instances configured so far
    rl,         \* rl[c]: the instance whose mu c holds for reading (0: none)
    emu,        \* adapter.Emulator()
    commits,    \* commit requests made so far
    snapOps,    \* snapshot requests made so far
    storeFails, \* failed storage.CommitBlock calls so far
    configFails, \* failed configureBlockchain calls so far
    pc,         \* pc[c]: next step of client c ("Idle" between requests)
    op,         \* op[c]: the request c is serving
    arg,        \* arg[c]: its snapshot name, height, block ID or query
    blk,        \* blk[c]: the block c's commit committed, or read last
    inst,       \* inst[c]: the instance c's snapshot request configured
    lat,        \* lat[c]: the latest height c's event query read
    lo, hi,     \* the event query's next height and clamped end height
    acc,        \* acc[c]: the event query's results so far
    resp,       \* resp[c]: the block c's response reports
    status,     \* status[c]: how c's last request ended
    build,      \* "api" or "legacy": the handlers registered (fixed)
    snapOn      \* the store supports snapshots (fixed): api.go's
                \* SnapshotProvider with SupportSnapshotsWithCurrentConfig,
                \* server/emulator.go's *badger.Store

storeVars == <<ctx, top, known, cur>>
serverVars == <<tip, nInst, emu, rl>>
boundVars == <<commits, snapOps, storeFails, configFails>>
clientVars == <<pc, op, arg, blk, inst, lat, lo, hi, acc, resp, status>>
cfgVars == <<build, snapOn>>
vars == <<storeVars, serverVars, boundVars, clientVars, cfgVars>>

\* an ID no block has: instance 0 commits genesis only
UnknownId == <<0, 1>>

\* the IDs a request names: those of the blocks some context holds, and one
\* no block has
IdArgs == UNION {{Id(ctx[n][h]) : h \in {k \in Heights : ctx[n][k] # NoBlock}}
                 : n \in known}
          \cup {UnknownId}

\* lists of one or two IDs of a set
IdLists(ids) == {<<x>> : x \in ids} \cup (ids \X ids)

\* GetEventsForBlockIDs(eventType, blockIDs) arguments
IdQueries == [type : {"valid", "empty"}, ids : IdLists(IdArgs)]

(***************************************************************************)
(* Initial state: NewBlockchain on an empty store bootstraps the ledger   *)
(* and commits genesis (configureNewLedger); the server starts with that  *)
(* emulator, whose pending block is built on genesis.                     *)
(***************************************************************************)
EmptyContext == [h \in Heights |-> NoBlock]

Init ==
    /\ ctx = [n \in Names |-> IF n = Default
                              THEN [EmptyContext EXCEPT ![0] = Genesis]
                              ELSE EmptyContext]
    /\ top = [n \in Names |-> 0]
    /\ known = {Default}
    /\ cur = Default
    /\ tip = [i \in Insts |-> Genesis]
    /\ nInst = 1
    /\ emu = 1
    /\ rl = [c \in Clients |-> 0]
    /\ commits = 0 /\ snapOps = 0 /\ storeFails = 0 /\ configFails = 0
    /\ pc = [c \in Clients |-> "Idle"]
    /\ op = [c \in Clients |-> "None"]
    /\ arg = [c \in Clients |-> Default]
    /\ blk = [c \in Clients |-> NoBlock]
    /\ inst = [c \in Clients |-> 1]
    /\ lat = [c \in Clients |-> 0]
    /\ lo = [c \in Clients |-> 0]
    /\ hi = [c \in Clients |-> 0]
    /\ acc = [c \in Clients |-> <<>>]
    /\ resp = [c \in Clients |-> NoBlock]
    /\ status = [c \in Clients |-> "None"]
    /\ build \in Builds
    /\ snapOn \in SnapshotConfigs

(***************************************************************************)
(* The store (storage.Store, shared by every configured Blockchain)       *)
(***************************************************************************)

\* storage.LatestBlock in the current context
LatestBlock == ctx[cur][top[cur]]

\* storage.CommitBlock: the block is written at its height in the current
\* context, which becomes the latest height
StoreCommitBlock(b) ==
    /\ ctx' = [ctx EXCEPT ![cur][b.h] = b]
    /\ top' = [top EXCEPT ![cur] = b.h]

\* SnapshotProvider.JumpToSnapshot(name, true): a new context holding the
\* current one's blocks becomes current; an existing name is refused
JumpToNewSnapshot(n) ==
    /\ n \notin known
    /\ known' = known \cup {n}
    /\ ctx' = [ctx EXCEPT ![n] = ctx[cur]]
    /\ top' = [top EXCEPT ![n] = top[cur]]
    /\ cur' = n

\* SnapshotProvider.JumpToSnapshot(name, false): the named context, with
\* the blocks it held when it was left, becomes current
JumpToSnapshot(n) ==
    /\ cur' = n
    /\ UNCHANGED <<ctx, top, known>>

(***************************************************************************)
(* A Blockchain instance                                                   *)
(***************************************************************************)

\* the block commitBlock seals: b.pendingBlock.Block(), built on the block
\* the pending block was created on
PendingBlockOf(i) ==
    [inst |-> i, h |-> tip[i].h + 1, pinst |-> tip[i].inst]

\* CommitBlock of instance i once storage.CommitBlock succeeded:
\* b.pendingBlock = newPendingBlock(block, ledgerView)
CommitPending(i) ==
    /\ StoreCommitBlock(PendingBlockOf(i))
    /\ tip' = [tip EXCEPT ![i] = PendingBlockOf(i)]

\* mutant: configureLedger bootstraps a new ledger on genesis even though the
\* store holds blocks
ConfigureBlockchainOnGenesis(i) ==
    tip' = [tip EXCEPT ![i] = Genesis]

\* configureBlockchain -> NewBlockchain on the shared store: configureLedger
\* finds a latest block and configureExistingLedger builds the new
\* instance's pending block on it
ConfigureBlockchain(i) ==
    tip' = [tip EXCEPT ![i] = LatestBlock]

(***************************************************************************)
(* Store reads of a Blockchain instance, each one store access in the     *)
(* current context                                                         *)
(***************************************************************************)

\* getBlockByHeight / GetBlockByHeight: NoBlock is BlockNotFoundByHeightError
BlockByHeight(h) == ctx[cur][h]

\* GetBlockByID: storage.BlockByID; NoBlock is BlockNotFoundByIDError
GetBlockByID(id) ==
    IF /\ id[2] \in Heights
       /\ ctx[cur][id[2]] # NoBlock
       /\ Id(ctx[cur][id[2]]) = id
    THEN ctx[cur][id[2]]
    ELSE NoBlock

\* GetEventsByHeight: the events stored at a height, named by the block
\* stored there
EventsByHeight(h) == ctx[cur][h]

\* mutant: the ledger view of the latest height, whatever block was asked for
StateAtLatest(h) == ctx[cur][top[cur]]

\* executeScriptAtBlock / GetAccountAtBlockHeight:
\* storage.LedgerViewByHeight(height), the state after the block stored there
StateAt(h) == ctx[cur][h]

\* validateEventType: a blank event type is an invalid query
ValidEventType(q) == q.type = "valid"

(***************************************************************************)
(* Requests                                                                *)
(***************************************************************************)

\* NewEmulatorAPIServer of api.go: the router's handlers
Routes ==
    ("CommitBlock" :> "Commit") @@
    ("SnapshotCreate" :> "SCCheck") @@ ("SnapshotJump" :> "SJCheck") @@
    ("SnapshotList" :> "SnapshotList") @@ ("Storage" :> "Storage") @@
    ("Config" :> "Config")

\* NewEmulatorAPIServer of server/emulator.go
LegacyRoutes ==
    ("LegacyCommitBlock" :> "Commit") @@
    ("LegacySnapshotCreate" :> "LegacySCCheck") @@
    ("LegacySnapshotJump" :> "LegacySJCheck") @@
    ("LegacySnapshotList" :> "LegacySnapshotList") @@
    ("LegacyStorage" :> "LegacyStorage")

FirstStep ==
    Routes @@ LegacyRoutes @@
    ("GetEventsForHeightRange" :> "EVLatest") @@
    ("GetEventsForBlockIDs" :> "EIValidate") @@
    ("ExecuteScript" :> "XSLatest") @@ ("GetAccount" :> "XSLatest") @@
    ("ExecuteScriptAtBlockHeight" :> "XSHeight") @@
    ("ExecuteScriptAtBlockID" :> "XSId")

\* every step moves one client's pc; the build never changes
Goto(c, l) == pc' = [pc EXCEPT ![c] = l] /\ UNCHANGED cfgVars

Return(c, s) ==
    /\ pc' = [pc EXCEPT ![c] = "Idle"]
    /\ status' = [status EXCEPT ![c] = s]
    /\ UNCHANGED cfgVars

Call(c, o, a) ==
    /\ pc[c] = "Idle"
    /\ o \in OpsOf[c] \cap Served(build)
    /\ Goto(c, FirstStep[o])
    /\ op' = [op EXCEPT ![c] = o]
    /\ arg' = [arg EXCEPT ![c] = a]
    /\ blk' = [blk EXCEPT ![c] = NoBlock]
    /\ resp' = [resp EXCEPT ![c] = NoBlock]
    /\ acc' = [acc EXCEPT ![c] = <<>>]
    /\ status' = [status EXCEPT ![c] = "None"]
    /\ UNCHANGED <<storeVars, serverVars, inst, lat, lo, hi>>

Invoke(c) ==
    \/ /\ commits < MaxCommits
       /\ \E o \in {"CommitBlock", "LegacyCommitBlock"} : Call(c, o, Default)
       /\ commits' = commits + 1
       /\ UNCHANGED <<snapOps, storeFails, configFails>>
    \/ /\ snapOps < MaxSnapshotOps
       /\ \/ \E n \in Names \cup {NoName},
                o \in {"SnapshotCreate", "LegacySnapshotCreate"} : Call(c, o, n)
          \/ \E n \in Names,
                o \in {"SnapshotJump", "LegacySnapshotJump"} : Call(c, o, n)
       /\ snapOps' = snapOps + 1
       /\ UNCHANGED <<commits, storeFails, configFails>>
    \/ /\ \/ \E q \in Queries : Call(c, "GetEventsForHeightRange", q)
          \/ \E q \in IdQueries : Call(c, "GetEventsForBlockIDs", q)
          \/ \E o \in {"ExecuteScript", "GetAccount", "Storage", "LegacyStorage",
                       "SnapshotList", "LegacySnapshotList", "Config"} :
                Call(c, o, Default)
          \/ \E h \in Heights : Call(c, "ExecuteScriptAtBlockHeight", h)
          \/ \E id \in IdArgs : Call(c, "ExecuteScriptAtBlockID", id)
       /\ UNCHANGED boundVars

\* POST /emulator/newBlock (api.go CommitBlock): CommitBlock() of emulator
\* i.  On a storage error, api.go answers 500; the older handler of
\* server/emulator.go ignores the error and goes on to answer 200.
CommitOn(c, i) ==
    /\ pc[c] = "Commit"
    /\ \A d \in Clients : rl[d] # i
    /\ \/ /\ storeFails < MaxStoreFail
          /\ storeFails' = storeFails + 1
          /\ IF op[c] = "CommitBlock"
             THEN Return(c, "Internal")
             ELSE Goto(c, "Respond") /\ UNCHANGED status
          /\ UNCHANGED <<storeVars, tip, blk, configFails>>
       \/ /\ CommitPending(i)
          /\ blk' = [blk EXCEPT ![c] = PendingBlockOf(i)]
          /\ Goto(c, "Respond")
          /\ UNCHANGED <<known, cur, storeFails, configFails, status>>
    /\ UNCHANGED <<nInst, emu, rl, commits, snapOps, op, arg, inst, lat, lo,
                   hi, acc, resp>>

\* mutant: the handler commits through the Blockchain the server started
\* with (m.server.blockchain) instead of m.adapter.Emulator()
CommitOnStartupEmulator(c) == CommitOn(c, 1)

\* mutant: api.go's handler going on after a failed CommitBlock
CommitIgnoringError(c) ==
    /\ pc[c] = "Commit"
    /\ \A d \in Clients : rl[d] # emu
    /\ \/ /\ storeFails < MaxStoreFail
          /\ storeFails' = storeFails + 1
          /\ Goto(c, "Respond")
          /\ UNCHANGED <<storeVars, tip, blk, status, configFails>>
       \/ /\ CommitPending(emu)
          /\ blk' = [blk EXCEPT ![c] = PendingBlockOf(emu)]
          /\ Goto(c, "Respond")
          /\ UNCHANGED <<known, cur, storeFails, configFails, status>>
    /\ UNCHANGED <<nInst, emu, rl, commits, snapOps, op, arg, inst, lat, lo,
                   hi, acc, resp>>

\* the request goes to adapter.Emulator()
Commit(c) == CommitOn(c, emu)

\* the tail of CommitBlock and of reloadBlockchainFromSnapshot:
\* adapter.Emulator().GetLatestBlock() is encoded into the response
Respond(c) ==
    /\ pc[c] = "Respond"
    /\ resp' = [resp EXCEPT ![c] = LatestBlock]
    /\ Return(c, "OK")
    /\ UNCHANGED <<storeVars, serverVars, boundVars, op, arg, blk, inst, lat,
                   lo, hi, acc>>

\* POST /emulator/snapshots: an empty name is answered 500, and so is a
\* store without snapshots; Snapshots() is listed and a taken name answered
\* 409 (Conflict)
SCCheck(c) ==
    /\ pc[c] = "SCCheck"
    /\ CASE arg[c] = NoName -> Return(c, "Internal")
         []  ~snapOn -> Return(c, "Internal")
         []  arg[c] \in known -> Return(c, "Conflict")
         []  OTHER -> Goto(c, "SCJump") /\ UNCHANGED status
    /\ UNCHANGED <<storeVars, serverVars, boundVars, op, arg, blk, inst, lat,
                   lo, hi, acc, resp>>

\* mutant: the handler goes on to reload after JumpToSnapshot failed
SCJumpIgnoringError(c) ==
    /\ pc[c] = "SCJump"
    /\ \/ JumpToNewSnapshot(arg[c])
       \/ arg[c] \in known /\ UNCHANGED storeVars
    /\ Goto(c, "Configure")
    /\ UNCHANGED <<serverVars, boundVars, op, arg, blk, inst, lat, lo, hi, acc,
                   resp, status>>

\* JumpToSnapshot(name, true); its error (the name was taken after the
\* check) is answered 500
SCJump(c) ==
    /\ pc[c] = "SCJump"
    /\ \/ /\ JumpToNewSnapshot(arg[c])
          /\ Goto(c, "Configure")
          /\ UNCHANGED status
       \/ /\ arg[c] \in known
          /\ Return(c, "Internal")
          /\ UNCHANGED storeVars
    /\ UNCHANGED <<serverVars, boundVars, op, arg, blk, inst, lat, lo, hi, acc,
                   resp>>

\* PUT /emulator/snapshots/{name}: a store without snapshots is answered
\* 500, an unknown name 404
SJCheck(c) ==
    /\ pc[c] = "SJCheck"
    /\ CASE ~snapOn -> Return(c, "Internal")
         []  arg[c] \notin known -> Return(c, "NotFound")
         []  OTHER -> Goto(c, "SJJump") /\ UNCHANGED status
    /\ UNCHANGED <<storeVars, serverVars, boundVars, op, arg, blk, inst, lat,
                   lo, hi, acc, resp>>

\* SnapshotCreate and SnapshotJump of server/emulator.go: the same checks,
\* with Store().(*badger.Store) (its ok form) as the snapshot support test
\* and ListContexts as the list of names; JumpToContext and the reload are
\* the steps api.go's handlers take
LegacySCCheck(c) ==
    /\ pc[c] = "LegacySCCheck"
    /\ CASE arg[c] = NoName -> Return(c, "Internal")
         []  ~snapOn -> Return(c, "Internal")
         []  arg[c] \in known -> Return(c, "Conflict")
         []  OTHER -> Goto(c, "SCJump") /\ UNCHANGED status
    /\ UNCHANGED <<storeVars, serverVars, boundVars, op, arg, blk, inst, lat,
                   lo, hi, acc, resp>>

LegacySJCheck(c) ==
    /\ pc[c] = "LegacySJCheck"
    /\ CASE ~snapOn -> Return(c, "Internal")
         []  arg[c] \notin known -> Return(c, "NotFound")
         []  OTHER -> Goto(c, "SJJump") /\ UNCHANGED status
    /\ UNCHANGED <<storeVars, serverVars, boundVars, op, arg, blk, inst, lat,
                   lo, hi, acc, resp>>

SJJump(c) ==
    /\ pc[c] = "SJJump"
    /\ JumpToSnapshot(arg[c])
    /\ Goto(c, "Configure")
    /\ UNCHANGED <<serverVars, boundVars, op, arg, blk, inst, lat, lo, hi, acc,
                   resp, status>>

\* GET /emulator/snapshots (api.go): a store without snapshots is answered
\* 500, otherwise Snapshots() is listed
SnapshotList(c) ==
    /\ pc[c] = "SnapshotList"
    /\ Return(c, IF snapOn THEN "OK" ELSE "Internal")
    /\ UNCHANGED <<storeVars, serverVars, boundVars, op, arg, blk, inst, lat,
                   lo, hi, acc, resp>>

\* GET /emulator/snapshots (server/emulator.go): Store().(*badger.Store) is
\* asserted without the ok form, so another store makes the handler panic
LegacySnapshotList(c) ==
    /\ pc[c] = "LegacySnapshotList"
    /\ Return(c, IF snapOn THEN "OK" ELSE "Aborted")
    /\ UNCHANGED <<storeVars, serverVars, boundVars, op, arg, blk, inst, lat,
                   lo, hi, acc, resp>>

\* GET /emulator/config: the service key of m.server.blockchain, the
\* Blockchain the server started with, whichever one the adapter serves;
\* every instance is configured with the same service key
Config(c) ==
    /\ pc[c] = "Config"
    /\ Return(c, "OK")
    /\ UNCHANGED <<storeVars, serverVars, boundVars, op, arg, blk, inst, lat,
                   lo, hi, acc, resp>>

\* reloadBlockchainFromSnapshot: configureBlockchain(logger, config, store);
\* its error (configureLedger's storage.LatestBlock failing with anything
\* but ErrNotFound) is answered 500 before SetEmulator, so the adapter
\* keeps the emulator it had, though the store has already jumped
Configure(c) ==
    /\ pc[c] = "Configure"
    /\ \/ /\ nInst' = nInst + 1
          /\ ConfigureBlockchain(nInst + 1)
          /\ inst' = [inst EXCEPT ![c] = nInst + 1]
          /\ Goto(c, "SetEmulator")
          /\ UNCHANGED <<configFails, status>>
       \/ /\ configFails < MaxConfigFail
          /\ configFails' = configFails + 1
          /\ Return(c, "Internal")
          /\ UNCHANGED <<tip, nInst, inst>>
    /\ UNCHANGED <<storeVars, emu, rl, commits, snapOps, storeFails, op, arg,
                   blk, lat, lo, hi, acc, resp>>

\* m.adapter.SetEmulator(blockchain)
SetEmulator(c) ==
    /\ pc[c] = "SetEmulator"
    /\ emu' = inst[c]
    /\ Goto(c, "Respond")
    /\ UNCHANGED <<storeVars, tip, nInst, rl, boundVars, op, arg, blk, inst,
                   lat, lo, hi, acc, resp, status>>

(***************************************************************************)
(* GetEventsForHeightRange (no lock): the latest height is read once, the *)
(* range clamped, then each height's block and events are read in turn.   *)
(***************************************************************************)

\* mutants: the clamp without its "not set" case, and without its upper one
ClampEndNoDefault(end, latestHeight) ==
    IF end > latestHeight THEN latestHeight ELSE end

ClampEndNoUpper(end, latestHeight) ==
    IF end = 0 THEN latestHeight ELSE end

\* "if end height is not set, use the latest block height; if end height
\* is higher than latest, use latest"
ClampEnd(end, latestHeight) ==
    IF end = 0 \/ end > latestHeight THEN latestHeight ELSE end

\* validateEventType, GetLatestBlock, the clamp and "startHeight > endHeight"
EVLatest(c) ==
    /\ pc[c] = "EVLatest"
    /\ \/ /\ ~ValidEventType(arg[c])
          /\ Return(c, "Invalid")
          /\ UNCHANGED <<lat, lo, hi>>
       \/ /\ ValidEventType(arg[c])
          /\ lat' = [lat EXCEPT ![c] = top[cur]]
          /\ IF arg[c].start > ClampEnd(arg[c].end, top[cur])
             THEN Return(c, "Invalid") /\ UNCHANGED <<lo, hi>>
             ELSE /\ lo' = [lo EXCEPT ![c] = arg[c].start]
                  /\ hi' = [hi EXCEPT ![c] = ClampEnd(arg[c].end, top[cur])]
                  /\ Goto(c, "EVBlock")
                  /\ UNCHANGED status
    /\ UNCHANGED <<storeVars, serverVars, boundVars, op, arg, blk, inst, acc,
                   resp>>

\* the loop head "height <= endHeight", then GetBlockByHeight(height): a
\* height the store does not hold is BlockNotFoundByHeightError
EVBlock(c) ==
    /\ pc[c] = "EVBlock"
    /\ \/ /\ lo[c] > hi[c]
          /\ Return(c, "OK")
          /\ UNCHANGED blk
       \/ /\ lo[c] <= hi[c]
          /\ BlockByHeight(lo[c]) = NoBlock
          /\ Return(c, "NotFound")
          /\ UNCHANGED blk
       \/ /\ lo[c] <= hi[c]
          /\ BlockByHeight(lo[c]) # NoBlock
          /\ blk' = [blk EXCEPT ![c] = BlockByHeight(lo[c])]
          /\ Goto(c, "EVEvents")
          /\ UNCHANGED status
    /\ UNCHANGED <<storeVars, serverVars, boundVars, op, arg, inst, lat, lo,
                   hi, acc, resp>>

\* GetEventsByHeight(height, eventType), then the BlockEvents of the block
\* read before and of these events is appended and height++; a height with
\* no block in the current context has no events
EVEvents(c) ==
    /\ pc[c] = "EVEvents"
    /\ acc' = [acc EXCEPT ![c] = Append(@, [block |-> blk[c],
                                            data |-> EventsByHeight(lo[c])])]
    /\ lo' = [lo EXCEPT ![c] = @ + 1]
    /\ Goto(c, "EVBlock")
    /\ UNCHANGED <<storeVars, serverVars, boundVars, op, arg, blk, inst, lat,
                   hi, resp, status>>

(***************************************************************************)
(* Script executions and GetAccount: a block is resolved in one store     *)
(* read, then the ledger view at its height is read in another.           *)
(* ExecuteScript and ExecuteScriptAtBlockHeight hold b.mu.RLock of the    *)
(* instance serving them throughout (rl); ExecuteScriptAtBlockID and      *)
(* GetAccount take no lock.                                                *)
(***************************************************************************)

XSUnchanged ==
    UNCHANGED <<storeVars, tip, nInst, emu, boundVars, op, arg, inst, lat, lo,
                hi, resp>>

\* ExecuteScript: RLock, GetLatestBlock; GetAccount: GetLatestBlock
XSLatest(c) ==
    /\ pc[c] = "XSLatest"
    /\ rl' = [rl EXCEPT ![c] = IF op[c] = "ExecuteScript" THEN emu ELSE 0]
    /\ blk' = [blk EXCEPT ![c] = LatestBlock]
    /\ Goto(c, "XSRun")
    /\ UNCHANGED <<acc, status>>
    /\ XSUnchanged

\* ExecuteScriptAtBlockHeight: RLock, getBlockByHeight; on not-found the
\* deferred RUnlock runs
XSHeight(c) ==
    /\ pc[c] = "XSHeight"
    /\ \/ /\ BlockByHeight(arg[c]) = NoBlock
          /\ Return(c, "NotFound")
          /\ UNCHANGED <<rl, blk>>
       \/ /\ BlockByHeight(arg[c]) # NoBlock
          /\ rl' = [rl EXCEPT ![c] = emu]
          /\ blk' = [blk EXCEPT ![c] = BlockByHeight(arg[c])]
          /\ Goto(c, "XSRun")
          /\ UNCHANGED status
    /\ UNCHANGED acc
    /\ XSUnchanged

\* ExecuteScriptAtBlockID: GetBlockByID, no lock
XSId(c) ==
    /\ pc[c] = "XSId"
    /\ \/ /\ GetBlockByID(arg[c]) = NoBlock
          /\ Return(c, "NotFound")
          /\ UNCHANGED blk
       \/ /\ GetBlockByID(arg[c]) # NoBlock
          /\ blk' = [blk EXCEPT ![c] = GetBlockByID(arg[c])]
          /\ Goto(c, "XSRun")
          /\ UNCHANGED status
    /\ UNCHANGED <<rl, acc>>
    /\ XSUnchanged

\* executeScriptAtBlock (or GetAccountAtBlockHeight): LedgerViewByHeight of
\* the resolved block's height, then vm.Run; a fatal VM error is returned
\* (for GetAccount: the account is not found), then the RLock is released
XSRun(c) ==
    /\ pc[c] = "XSRun"
    /\ rl' = [rl EXCEPT ![c] = 0]
    /\ \/ /\ acc' = [acc EXCEPT ![c] = <<[block |-> blk[c],
                                          data |-> StateAt(blk[c].h)]>>]
          /\ Return(c, "OK")
       \/ /\ Return(c, IF op[c] = "GetAccount" THEN "NotFound" ELSE "Internal")
          /\ UNCHANGED acc
    /\ UNCHANGED blk
    /\ XSUnchanged

\* GetAccountStorage: a child view of b.pendingBlock.ledgerView, taken with
\* no lock; the pending block is empty here, so its view is the state after
\* the block it is built on
PendingView(i) == tip[i]

\* GET /emulator/storages/{address}: adapter.Emulator().GetAccountStorage;
\* an account not found is answered 404, another error 500
Storage(c) ==
    /\ pc[c] = "Storage"
    /\ \/ /\ acc' = [acc EXCEPT ![c] = <<[block |-> LatestBlock,
                                          data |-> PendingView(emu)]>>]
          /\ Return(c, "OK")
       \/ /\ \E s \in {"NotFound", "Internal"} : Return(c, s)
          /\ UNCHANGED acc
    /\ UNCHANGED <<storeVars, serverVars, boundVars, op, arg, blk, inst, lat,
                   lo, hi, resp>>

\* GET /emulator/storages/{address} of server/emulator.go:
\* m.backend.GetAccountStorage, answered as api.go's handler answers it
LegacyStorage(c) ==
    /\ pc[c] = "LegacyStorage"
    /\ \/ /\ acc' = [acc EXCEPT ![c] = <<[block |-> LatestBlock,
                                          data |-> PendingView(emu)]>>]
          /\ Return(c, "OK")
       \/ /\ \E s \in {"NotFound", "Internal"} : Return(c, s)
          /\ UNCHANGED acc
    /\ UNCHANGED <<storeVars, serverVars, boundVars, op, arg, blk, inst, lat,
                   lo, hi, resp>>

(***************************************************************************)
(* GetEventsForBlockIDs (no lock): each ID is resolved, then the events   *)
(* at the block's height are read.                                         *)
(***************************************************************************)

EIUnchanged ==
    UNCHANGED <<storeVars, serverVars, boundVars, op, arg, inst, lat, hi, resp>>

\* validateEventType
EIValidate(c) ==
    /\ pc[c] = "EIValidate"
    /\ IF ValidEventType(arg[c])
       THEN Goto(c, "EIBlock") /\ lo' = [lo EXCEPT ![c] = 1] /\ UNCHANGED status
       ELSE Return(c, "Invalid") /\ UNCHANGED lo
    /\ UNCHANGED <<blk, acc>>
    /\ EIUnchanged

\* the loop over blockIDs, then GetBlockByID(blockID)
EIBlock(c) ==
    /\ pc[c] = "EIBlock"
    /\ \/ /\ lo[c] > Len(arg[c].ids)
          /\ Return(c, "OK")
          /\ UNCHANGED blk
       \/ /\ lo[c] <= Len(arg[c].ids)
          /\ GetBlockByID(arg[c].ids[lo[c]]) = NoBlock
          /\ Return(c, "NotFound")
          /\ UNCHANGED blk
       \/ /\ lo[c] <= Len(arg[c].ids)
          /\ GetBlockByID(arg[c].ids[lo[c]]) # NoBlock
          /\ blk' = [blk EXCEPT ![c] = GetBlockByID(arg[c].ids[lo[c]])]
          /\ Goto(c, "EIEvents")
          /\ UNCHANGED status
    /\ UNCHANGED <<lo, acc>>
    /\ EIUnchanged

\* GetEventsByHeight(block.Header.Height, eventType), then the BlockEvents
\* is appended
EIEvents(c) ==
    /\ pc[c] = "EIEvents"
    /\ acc' = [acc EXCEPT ![c] = Append(@, [block |-> blk[c],
                                            data |-> EventsByHeight(blk[c].h)])]
    /\ lo' = [lo EXCEPT ![c] = @ + 1]
    /\ Goto(c, "EIBlock")
    /\ UNCHANGED <<blk, status>>
    /\ EIUnchanged

Step(c) ==
    \/ Commit(c) \/ Respond(c)
    \/ SCCheck(c) \/ SCJump(c) \/ SJCheck(c) \/ SJJump(c)
    \/ LegacySCCheck(c) \/ LegacySJCheck(c)
    \/ Configure(c) \/ SetEmulator(c)
    \/ SnapshotList(c) \/ LegacySnapshotList(c) \/ Config(c)
    \/ EVLatest(c) \/ EVBlock(c) \/ EVEvents(c)
    \/ XSLatest(c) \/ XSHeight(c) \/ XSId(c) \/ XSRun(c)
    \/ EIValidate(c) \/ EIBlock(c) \/ EIEvents(c) \/ Storage(c)
    \/ LegacyStorage(c)

Next == \E c \in Clients : Invoke(c) \/ Step(c)

\* goroutines are scheduled preemptively: a request that can step does
Spec == Init /\ [][Next]_vars /\ \A c \in Clients : WF_vars(Step(c))

(***************************************************************************)
(* Properties                                                              *)
(***************************************************************************)

TypeOK ==
    /\ ctx \in [Names -> [Heights -> Blocks \cup {NoBlock}]]
    /\ top \in [Names -> Heights]
    /\ known \subseteq Names /\ cur \in known
    /\ tip \in [Insts -> Blocks]
    /\ nInst \in Insts /\ emu \in 1..nInst
    /\ rl \in [Clients -> 0..nInst]
    /\ commits \in 0..MaxCommits /\ snapOps \in 0..MaxSnapshotOps
    /\ storeFails \in 0..MaxStoreFail
    /\ configFails \in 0..MaxConfigFail
    /\ op \in [Clients -> Ops \cup {"None"}]
    /\ \A c \in Clients :
          arg[c] \in CASE op[c] = "GetEventsForHeightRange" -> Queries
                     [] op[c] = "GetEventsForBlockIDs" ->
                          [type : {"valid", "empty"}, ids : IdLists(AllIds)]
                     [] op[c] = "ExecuteScriptAtBlockHeight" -> Heights
                     [] op[c] = "ExecuteScriptAtBlockID" -> AllIds
                     [] OTHER -> Names \cup {NoName}
    /\ blk \in [Clients -> Blocks \cup {NoBlock}]
    /\ inst \in [Clients -> Insts]
    /\ lat \in [Clients -> Heights]
    /\ lo \in [Clients -> 0..(MaxCommits + 3)]
    /\ hi \in [Clients -> Heights]
    /\ acc \in [Clients -> Seq([block : Blocks, data : Blocks \cup {NoBlock}])]
    /\ resp \in [Clients -> Blocks \cup {NoBlock}]
    /\ status \in [Clients -> Statuses]

\* Every context of the store is a chain: each height from genesis to the
\* latest holds a block whose parent is the block one below.  A commit
\* through a Blockchain whose pending block was built in another context
\* (the adapter's emulator before SetEmulator, or one configured before a
\* later jump) breaks it.
StoreChainLinked ==
    \A n \in known :
        /\ \A h \in 0..top[n] : ctx[n][h] # NoBlock
        /\ \A h \in 1..top[n] : ParentId(ctx[n][h]) = Id(ctx[n][h - 1])

\* Whenever no request is in flight, the adapter's emulator has its pending
\* block on the latest block of the store's current context, so the next
\* commit extends that chain (the state reloadBlockchainFromSnapshot and
\* commitBlock each leave behind).
EmulatorOnLatest ==
    (\A c \in Clients : pc[c] = "Idle") => tip[emu] = LatestBlock

\* A commit request answered 200 reports the block it committed: the
\* /emulator/newBlock handler reads GetLatestBlock after its CommitBlock.
RESTCommitReportsOwnBlock ==
    \A c \in Clients :
        (/\ pc[c] = "Idle" /\ status[c] = "OK"
         /\ op[c] \in {"CommitBlock", "LegacyCommitBlock"})
        => resp[c] = blk[c]

\* The reference for GetEventsForHeightRange (spec.md 4.2): every committed
\* height from startHeight up to endHeight, where an endHeight of 0 means no
\* upper limit, in ascending order.
EventHeightsRef(q, latestHeight) ==
    SetToSortSeq({h \in 0..latestHeight :
                     q.start <= h /\ (q.end = 0 \/ h <= q.end)}, <)

\* A finished query with a valid event type is an invalid-argument error
\* exactly when the reference range is empty, and otherwise, when it
\* succeeds, returns one BlockEvents per height of the reference range in
\* order: the clamp of the end height and the loop bounds agree with it.
EventsMatchReference ==
    \A c \in Clients :
        (/\ pc[c] = "Idle" /\ op[c] = "GetEventsForHeightRange"
         /\ arg[c].type = "valid")
        => /\ (status[c] = "Invalid") = (EventHeightsRef(arg[c], lat[c]) = <<>>)
           /\ status[c] = "OK" =>
                 [k \in DOMAIN acc[c] |-> acc[c][k].block.h]
                    = EventHeightsRef(arg[c], lat[c])

\* A block-addressed read that succeeds returns, for every block it names,
\* that block's data (its events, or the ledger view the script or the
\* account lookup ran on); the storage endpoint names no block and reports
\* the state of its emulator's pending block, which is to be the store's
\* latest block.  Each resolves the block in one store read and
\* reads its height's data in another, and historical reads are meant to
\* see immutable committed snapshots (spec.md, concurrency model); the
\* reads take no lock a snapshot switch respects: ExecuteScript and
\* ExecuteScriptAtBlockHeight hold their instance's RLock, the others none,
\* and the storage endpoint may still reach the emulator a snapshot request
\* is about to replace.
ReadsMatchBlock ==
    \A c \in Clients :
        (/\ pc[c] = "Idle" /\ status[c] = "OK"
         /\ op[c] \in BlockReads \cup {"LegacyStorage"})
        => \A k \in DOMAIN acc[c] : acc[c][k].data = acc[c][k].block


\* Two requests that create the same snapshot are never both answered 200.
\* SnapshotCreate lists Snapshots() and then calls JumpToSnapshot(name,
\* true) with no lock in between, so two creates of one name both pass the
\* check; only the store's refusal of an existing name, and the handler
\* answering it with 500, keeps the second from reporting a snapshot it did
\* not create.
SnapshotCreatedOnce ==
    \A c, d \in Clients :
        /\ c # d
        /\ {op[c], op[d]} \subseteq {"SnapshotCreate", "LegacySnapshotCreate"}
        /\ arg[c] = arg[d]
        => ~(status[c] = "OK" /\ status[d] = "OK")

====
