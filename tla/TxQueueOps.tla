---------------------------- MODULE TxQueueOps ----------------------------
(***************************************************************************)
(* The transaction-queue mutations of the file store                      *)
(* (src/ui/dapp/src/store_go/modules/file.js), as pure operators over the  *)
(* queue, a sequence of transaction records keyed by txHash.  The          *)
(* defaults {error: false, syncing: false} merged into every stored record *)
(* are constant and left out.                                              *)
(***************************************************************************)
EXTENDS Integers, Sequences, SequencesExt

(* Array.prototype.splice(i, 1): a negative start counts from the end     *)
(* (clamped at 0); a start at or past the end removes nothing.            *)
SpliceOne(s, i) ==
  LET start == IF i < 0 THEN IF Len(s) + i < 0 THEN 0 ELSE Len(s) + i
                        ELSE i
  IN  IF start < Len(s) THEN RemoveAt(s, start + 1) ELSE s

SameTx(tx, t) == t.txHash = tx.txHash

(* state.transactionQueue.findIndex(t => t.txHash === tx.txHash): the     *)
(* 0-based position of tx's record, or -1 when there is none.             *)
FindIndex(q, tx) == SelectInSeq(q, LAMBDA t : SameTx(tx, t)) - 1

(* Mutant: the lookup is dropped and every non-success event appended.   *)
UPDATE_TX_QUEUE_WITH_TRANSACTION_NoLookup(q, tx) ==
  IF tx.status = "success" THEN SelectSeq(q, LAMBDA t : ~SameTx(tx, t))
                           ELSE Append(q, tx)

(* Mutant: the queue is searched by file hash (t.hash) instead of txHash. *)
UPDATE_TX_QUEUE_WITH_TRANSACTION_ByFileHash(q, tx) ==
  LET i == SelectInSeq(q, LAMBDA t : t.hash = tx.hash) IN
  CASE i # 0 /\ tx.status = "success" -> RemoveAt(q, i)
    [] i # 0                          -> [q EXCEPT ![i] = tx]
    [] tx.status = "success"          -> q
    [] OTHER                          -> Append(q, tx)

(* A tracked transaction is removed on success and replaced otherwise; an *)
(* untracked one is ignored on success and appended otherwise.            *)
UPDATE_TX_QUEUE_WITH_TRANSACTION(q, tx) ==
  LET i == SelectInSeq(q, LAMBDA t : SameTx(tx, t)) IN
  CASE i # 0 /\ tx.status = "success" -> RemoveAt(q, i)
    [] i # 0                          -> [q EXCEPT ![i] = tx]
    [] tx.status = "success"          -> q
    [] OTHER                          -> Append(q, tx)

(* `if (txIndex)` tests the findIndex result for truthiness: position 0   *)
(* is not removed, and -1 (not found) splices from the end.              *)
REMOVE_TRANSACTION_FROM_QUEUE(q, tx) ==
  LET txIndex == FindIndex(q, tx) IN
  IF txIndex # 0 THEN SpliceOne(q, txIndex) ELSE q

=============================================================================
