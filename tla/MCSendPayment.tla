--------------------------- MODULE MCSendPayment ---------------------------
(***************************************************************************)
(* Two payments from one bucket to the same payee, two concurrent callers. *)
(***************************************************************************)
EXTENDS SendPayment, TLC

CONSTANTS k1, k2, payee, c1, c2

\* Two invoices of the same contractor.
MCAmount == (k1 :> 1 @@ k2 :> 2)

\* Two equal payroll items of the same contractor.
MCEqualAmount == (k1 :> 1 @@ k2 :> 1)

MCPayee == [k \in Keys |-> payee]

Symmetric == Permutations(Callers)
=============================================================================
