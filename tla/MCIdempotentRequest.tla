------------------------ MODULE MCIdempotentRequest ------------------------
(***************************************************************************)
(* Two payloads over two buckets.  A payment draws on one bucket; the      *)
(* first deposit draws on both, and the buckets cover no payload twice.    *)
(***************************************************************************)
EXTENDS IdempotentRequest, TLC

CONSTANTS r1, r2, p1, p2, b1, b2

MCDebits == [e \in Endpoints |-> [p \in Payloads |->
  IF p = p1 THEN (b1 :> 1 @@ b2 :> IF e = "deposit" THEN 1 ELSE 0)
            ELSE (b1 :> 0 @@ b2 :> 2)]]

MCFunds == (b1 :> 1 @@ b2 :> 3)

Symmetric == Permutations(Requests)
=============================================================================
