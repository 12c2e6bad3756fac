---------------------------- MODULE PendingBlock ----------------------------
(***************************************************************************)
(* The pending block: the one mutable, in-progress block of the emulator. *)
(* Its Go source (pending_block.go) is not part of this repository's      *)
(* src/, so every operator here is written from spec.md section 4.1 and    *)
(* section 3 ("Pending Block"), and is marked spec_modelled in the map.    *)
(*                                                                         *)
(* A pending block is a record value, not a variable: the coordinator     *)
(* (Blockchain.tla) holds the live one in its variable pendingBlock and    *)
(* steps it with the operators below, so that the coordinator can split a *)
(* Go call into the steps other goroutines may interleave with.           *)
(*                                                                         *)
(*   height  : fixed at creation, parent height + 1                       *)
(*   txs     : admitted transaction IDs in arrival order (transactionIDs) *)
(*   index   : the execution cursor (transactionIndex)                    *)
(*   view    : the transactions run against the block's shared ledger     *)
(*             view, in the order they ran; the ledger delta of the block *)
(*             is abstracted to this sequence                             *)
(***************************************************************************)
EXTENDS Naturals, Sequences, SequencesExt

PendingBlocks(TxIds) ==
    [height : Nat, txs : Seq(TxIds), index : Nat, view : Seq(TxIds)]

\* newPendingBlock(prevBlock, ledgerView): an Open block on top of the
\* given committed height, with an empty queue and an empty child view.
NewPendingBlock(parentHeight) ==
    [height |-> parentHeight + 1, txs |-> <<>>, index |-> 0, view |-> <<>>]

\* Empty(): no transaction has been admitted.
Empty(pb) == pb.txs = <<>>

\* ExecutionStarted(): the cursor has moved past the first transaction.
ExecutionStarted(pb) == pb.index > 0

\* ExecutionComplete(): the cursor equals the queue length (spec 4.1:
\* "Complete (cursor == queue length)").
ExecutionComplete(pb) == pb.index = Len(pb.txs)

\* ContainsTransaction(txID)
ContainsTransaction(pb, t) == t \in ToSet(pb.txs)

\* AddTransaction(tx): refused once execution has started or when the ID
\* is already queued; otherwise appended in arrival order.  The refusal
\* leaves the block as it is; the coordinator ignores the returned error.
AddTx(pb, t) ==
    IF ExecutionStarted(pb) \/ ContainsTransaction(pb, t)
    THEN pb
    ELSE [pb EXCEPT !.txs = Append(@, t)]

\* The transaction ExecuteNextTransaction takes: the one at the cursor.
\* Defined only while pb.index < Len(pb.txs).
NextTransaction(pb) == pb.txs[pb.index + 1]

\* The tail of ExecuteNextTransaction once the VM run of t returned without
\* a fatal error: t's writes are in the shared view, its result is stored,
\* and the cursor (as it is now) advances by one, whether t succeeded or
\* reverted.
ApplyExecuted(pb, t) ==
    [pb EXCEPT !.view = Append(@, t), !.index = @ + 1]

=============================================================================
