------------------------------ MODULE RowSums ------------------------------
(***************************************************************************)
(* What a ledger row adds to its account, and what a history of rows adds  *)
(* up to (the reduce of reconcileAccount in lib/ledger/engine.ts).         *)
(***************************************************************************)
EXTENDS Integers, Sequences

DIRECTIONS == {"CREDIT", "DEBIT"}

Delta(row) == IF row.dir = "CREDIT" THEN row.amount ELSE -row.amount

Total(rows) ==
  LET sum[n \in 0..Len(rows)] ==
        IF n = 0 THEN 0 ELSE sum[n - 1] + Delta(rows[n])
  IN  sum[Len(rows)]
=============================================================================
