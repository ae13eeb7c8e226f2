--------------------------- MODULE MCLedgerEngine ---------------------------
(***************************************************************************)
(* Two buckets, concurrent transactions, and the operations that make the  *)
(* engine hard: a deposit credited twice (to two different buckets, as     *)
(* when the default bucket changes between two webhook deliveries), a      *)
(* payment, transfers in opposite directions, and one to a bucket that is  *)
(* not there.                                                              *)
(***************************************************************************)
EXTENDS LedgerEngine

CONSTANTS w1, w2

MCOps == {
  RecordEntry(1, 2, "CREDIT", "inbound", FALSE),
  RecordEntry(2, 2, "CREDIT", "inbound", FALSE),
  RecordEntry(1, 2, "DEBIT", "payment", FALSE),
  TransferBetweenLedgerAccounts(1, 2, 1, "move12"),
  TransferBetweenLedgerAccounts(2, 1, 1, "move21"),
  TransferBetweenLedgerAccounts(1, 3, 1, "gone") }

\* All hosts agree on the time.
NoSkew == [w \in Workers |-> 0]

\* w1 runs on a host whose clock is two ticks ahead.
W1Ahead == [w \in Workers |-> IF w = w1 THEN 2 ELSE 0]
=============================================================================
