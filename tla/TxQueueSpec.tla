---------------------------- MODULE TxQueueSpec ----------------------------
(***************************************************************************)
(* What the transaction queue promises (spec.md 3 and 4.3): a partial map *)
(* from txHash to the latest reported record.  An event with status       *)
(* success removes its own entry (a no-op when absent); any other status  *)
(* upserts its own entry.  No event touches another txHash.  A session   *)
(* reset (spec.md 5) empties the queue.                                   *)
(***************************************************************************)
CONSTANTS TxHashes, TxEvents, Absent

VARIABLE queue

TypeOK == queue \in [TxHashes -> TxEvents \cup {Absent}]

Init == queue = [h \in TxHashes |-> Absent]

Apply(e) ==
  queue' = [queue EXCEPT ![e.txHash] = IF e.status = "success" THEN Absent
                                                              ELSE e]

Reset == queue' = [h \in TxHashes |-> Absent]

Next == (\E e \in TxEvents : Apply(e)) \/ Reset

Spec == Init /\ [][Next]_queue

=============================================================================
