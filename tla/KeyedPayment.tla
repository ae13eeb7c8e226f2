---------------------------- MODULE KeyedPayment ----------------------------
(***************************************************************************)
(* What a caller of sendPayment (lib/transfers/send.ts) sees of the        *)
(* payment its idempotencyKey names: the state of the OnchainTransaction   *)
(* row and how many transfers the provider made for it.  SendPayment is    *)
(* the detailed model; the jobs that pay people on a schedule (PayrollRun, *)
(* RecurringTransfer) are built from these steps, each a set of outcomes:  *)
(* the program counter the caller goes to and the payment it leaves.       *)
(*                                                                         *)
(* The provider's answer may be lost after it made the transfer: every     *)
(* error of kit.send() arrives as a CircleApiError, so the row is FAILED   *)
(* and free again although the money has left.  made counts the transfers  *)
(* of the key, lost those of them whose row was un-claimed in this way.    *)
(*                                                                         *)
(* SendPayment implements these steps for each key (ImplementsKeyedPayment *)
(* there) when payments differ in payee or amount: a claimed row is then   *)
(* submitted by its claimer alone, and the sweep confirms a row by its own *)
(* transfer.                                                               *)
(***************************************************************************)
EXTENDS Naturals

CONSTANT MaxLost  \* bound: lost answers of one key

ASSUME LostAssumption == MaxLost \in Nat

Unpaid == [row |-> "NONE", made |-> 0, lost |-> 0]

Outcome(to, p) == [pc |-> to, payment |-> p]

\* Mutant: every attempt makes a key of its own, so that no claim is in its way.
Free_FreshKey(p) == TRUE

\* A row that is neither CONFIRMED nor in flight may be claimed.
Free(p) == p.row \in {"NONE", "FAILED"}

\* Mutant: a row that is still in flight is replayed like a CONFIRMED one.
Replayed_InFlight(p) == p.row \in {"CONFIRMED", "CLAIMED"}

\* A CONFIRMED row is answered without sending anything.
Replayed(p) == p.row = "CONFIRMED"

\* Up to the claim: refused before the key is looked up (balance, identifier)
\* or as ALREADY_IN_FLIGHT, replayed, or claimed.
Calls(p) ==
  {Outcome("failed", p)}
    \cup {Outcome("sent", q) : q \in {q \in {p} : Replayed(q)}}
    \cup {Outcome("submit", [q EXCEPT !.row = "CLAIMED"]) : q \in {q \in {p} : Free(q)}}

\* kit.send(): the transfer is made and its answer is to come, or it is refused
\* and the row un-claimed.
Submits(p) ==
  {Outcome("accepted", [p EXCEPT !.made = @ + 1]), Outcome("failed", [p EXCEPT !.row = "FAILED"])}

Confirmed(p) == [p EXCEPT !.row = "CONFIRMED"]

\* A timeout after the transfer was made is taken for a refusal, whatever the
\* sweep has made of the row meanwhile.
Unanswered(p) == [p EXCEPT !.row = "FAILED", !.lost = @ + 1]

\* After the transfer: the row is CONFIRMED and debited; or a step fails before
\* or after the row was CONFIRMED, or the answer is lost, and the caller is told
\* of an error.
Answers(p) ==
  {Outcome("sent", Confirmed(p)), Outcome("failed", p), Outcome("failed", Confirmed(p))}
    \cup {Outcome("failed", Unanswered(q)) : q \in {q \in {p} : q.lost < MaxLost}}

\* A transfer is made again only if the answer to the one before it was lost.
AgainOnlyIfLost(p) == p.made <= p.lost + 1

\* The sweep of pending sends finds the transfer of a claimed row.
Sweepable(p) == p.row = "CLAIMED" /\ p.made > 0

=============================================================================
