---------------------------- MODULE ChainAbstract ----------------------------
(***************************************************************************)
(* What the emulator's coordinator promises, with no goroutines, locks or *)
(* storage in sight (spec.md sections 3, 4.1 and 8):                      *)
(*   - the committed chain is a sequence of blocks, genesis first, and    *)
(*     each commit appends exactly one block;                             *)
(*   - a block holds the transactions admitted to the pending block, in   *)
(*     admission order, and is committed only once all of them ran;       *)
(*   - the transactions run against the pending view one at a time, in    *)
(*     admission order, each exactly once;                                *)
(*   - the committed ledger is the committed runs, block after block;     *)
(*   - a transaction ID is admitted at most once while it is pending or   *)
(*     committed;                                                         *)
(*   - a reset drops the pending block and its uncommitted runs.          *)
(* Blockchain.tla is checked to implement this module under a refinement  *)
(* mapping (Blockchain!ChainSpec).                                        *)
(***************************************************************************)
EXTENDS Naturals, Sequences, SequencesExt

CONSTANT TxIds

VARIABLES
    chain,      \* committed blocks, each the sequence of its transaction IDs
    ledger,     \* committed runs, in the order they were applied
    queue,      \* the pending block's admitted transactions
    done,       \* how many of them have run
    view        \* the runs applied to the pending view

avars == <<chain, ledger, queue, done, view>>

Sealed == UNION {ToSet(chain[i]) : i \in DOMAIN chain}

AInit ==
    /\ chain = <<<<>>>>
    /\ ledger = <<>>
    /\ queue = <<>>
    /\ done = 0
    /\ view = <<>>

Submit(t) ==
    /\ done = 0
    /\ t \notin ToSet(queue) \cup Sealed
    /\ queue' = Append(queue, t)
    /\ UNCHANGED <<chain, ledger, done, view>>

Execute ==
    /\ done < Len(queue)
    /\ view' = Append(view, queue[done + 1])
    /\ done' = done + 1
    /\ UNCHANGED <<chain, ledger, queue>>

Commit ==
    /\ done = Len(queue)
    /\ chain' = Append(chain, queue)
    /\ ledger' = ledger \o view
    /\ queue' = <<>>
    /\ done' = 0
    /\ view' = <<>>

Reset ==
    /\ queue' = <<>>
    /\ done' = 0
    /\ view' = <<>>
    /\ UNCHANGED <<chain, ledger>>

ANext == (\E t \in TxIds : Submit(t)) \/ Execute \/ Commit \/ Reset

ASpec == AInit /\ [][ANext]_avars

=============================================================================
