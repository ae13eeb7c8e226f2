---------------------------- MODULE MCPayrollRun ----------------------------
(***************************************************************************)
(* A run of two or three items, two executions of its job, one retry.      *)
(***************************************************************************)
EXTENDS PayrollRun, TLC

CONSTANTS i1, i2, i3, w1, w2, r1, e1, e2

LiveSpec == PayrollSpec /\ PayrollFairness

Symmetric ==
  {p @@ q @@ r : p \in Permutations(JobWorkers), q \in Permutations(Editors),
                 r \in Permutations(Items)}
=============================================================================
