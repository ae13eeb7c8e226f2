-------------------------- MODULE AbstractPayments --------------------------
(***************************************************************************)
(* What sending a payment promises, whatever retries, crashes and sweeps   *)
(* surround it: a payment leaves custody at most once, and is taken from   *)
(* the bucket at most once, by its own amount and only after it left.      *)
(***************************************************************************)
EXTENDS Integers, Sequences

CONSTANTS Keys, Amount, InitialBalance

VARIABLES
  paid,     \* the payments that left custody, in order
  booked,   \* the payments taken from the bucket
  balance   \* what the bucket still holds

Paid(k) == \E i \in DOMAIN paid : paid[i] = k

Init == paid = << >> /\ booked = {} /\ balance = InitialBalance

Pay(k) ==
  /\ ~Paid(k)
  /\ paid' = Append(paid, k)
  /\ UNCHANGED <<booked, balance>>

Book(k) ==
  /\ Paid(k)
  /\ k \notin booked
  /\ Amount[k] <= balance
  /\ booked' = booked \cup {k}
  /\ balance' = balance - Amount[k]
  /\ UNCHANGED paid

Next == \E k \in Keys : Pay(k) \/ Book(k)

AbsSpec == Init /\ [][Next]_<<paid, booked, balance>>
=============================================================================
