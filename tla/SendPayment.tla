---------------------------- MODULE SendPayment ----------------------------
(***************************************************************************)
(* The outbound transfer primitive: sendPayment() of lib/transfers/send.ts *)
(* and the sweep of lib/circle/reconciliation.ts that resolves what it     *)
(* lost track of, over one wallet and one bucket.                          *)
(*                                                                         *)
(* A logical payment is named by its idempotencyKey, which also names its  *)
(* write-ahead row (the column is unique).  Callers (HTTP requests and     *)
(* their retries, payroll, recurring transfers) run sendPayment at the     *)
(* same time, often with the same key, and may die at any statement.  The  *)
(* provider has no deduplication: every kit.send() it accepts is another   *)
(* transfer.  chain[i] remembers which payment transfer i was made for;    *)
(* the code only ever sees its hash, its payee and its amount.             *)
(*                                                                         *)
(* Time enters twice: the sweep takes rows submitted more than             *)
(* STUCK_AFTER_MS ago, and a call may last longer than that, so a row may  *)
(* be swept at any time after it was claimed; and the sweep asks only for  *)
(* transfers made since the claim, which are those after row.since.        *)
(***************************************************************************)
EXTENDS Integers, Sequences, FiniteSets

CONSTANTS
  Keys,            \* idempotency keys: the logical payments
  Callers,         \* concurrent invocations of sendPayment
  Amount,          \* Amount[k], in the smallest unit
  Payee,           \* Payee[k], the resolved address
  InitialBalance,  \* what the bucket holds
  LostAnswers,     \* may kit.send() fail after the provider accepted?
  MaxCalls,        \* bound: invocations begun, retries included
  NoKey            \* no payment

VARIABLES
  row,       \* row[k]: the OnchainTransaction with idempotencyKey k
  chain,     \* the transfers the provider made, in order
  balance,   \* getBalance of the bucket
  debited,   \* rows with a committed ONCHAIN_TX debit
  call,      \* call[c]: the sendPayment that c runs
  sweep,     \* the reconciliation sweep
  calls      \* invocations begun

vars == <<row, chain, balance, debited, call, sweep, calls>>

ASSUME KeysAssumption == NoKey \notin Keys
ASSUME AmountAssumption == Amount \in [Keys -> Nat \ {0}]
ASSUME BoundsAssumption == InitialBalance \in Nat /\ MaxCalls \in Nat
ASSUME LostAnswersAssumption == LostAnswers \in BOOLEAN

-----------------------------------------------------------------------------
NoRow ==
  [status |-> "ABSENT", submitted |-> FALSE, since |-> 0, txHash |-> 0,
   circleTransactionId |-> 0]

NewRow == [NoRow EXCEPT !.status = "PENDING"]

IdleCall == [pc |-> "idle", key |-> NoKey, transfer |-> 0, target |-> NoKey]

IdleSweep == [pc |-> "idle", key |-> NoKey, since |-> 0, match |-> 0]

Init ==
  /\ row = [k \in Keys |-> NoRow]
  /\ chain = << >>
  /\ balance = InitialBalance
  /\ debited = {}
  /\ call = [c \in Callers |-> IdleCall]
  /\ sweep = IdleSweep
  /\ calls = 0

Sent(k) == \E i \in DOMAIN chain : chain[i] = k

InFlight(k) == row[k].status = "PENDING" /\ row[k].submitted

Goto(c, pc) == call' = [call EXCEPT ![c].pc = pc]

Finish(c) == call' = [call EXCEPT ![c] = IdleCall]

-----------------------------------------------------------------------------
(* sendPayment, one database statement or provider event per step. *)

\* The fast-fail balance check comes first, before the key is looked up.
Begin(c, k) ==
  /\ call[c].pc = "idle"
  /\ calls < MaxCalls
  /\ Amount[k] <= balance
  /\ call' = [call EXCEPT ![c] = [IdleCall EXCEPT !.pc = "find", !.key = k]]
  /\ calls' = calls + 1
  /\ UNCHANGED <<row, chain, balance, debited, sweep>>

\* Replays a CONFIRMED row, refuses one in flight, reuses any other.
Find(c) ==
  LET k == call[c].key
  IN  /\ call[c].pc = "find"
      /\ IF row[k].status = "ABSENT" THEN Goto(c, "create")
         ELSE IF row[k].status = "CONFIRMED" \/ InFlight(k) THEN Finish(c)
         ELSE Goto(c, "claim")
      /\ UNCHANGED <<row, chain, balance, debited, sweep, calls>>

\* Writes the row ahead; the loser of a create race adopts the winner's row
\* and looks at it as Find does.
Create(c) ==
  LET k == call[c].key
  IN  /\ call[c].pc = "create"
      /\ IF row[k].status = "ABSENT"
         THEN row' = [row EXCEPT ![k] = NewRow] /\ Goto(c, "claim")
         ELSE UNCHANGED row /\ Goto(c, "find")
      /\ UNCHANGED <<chain, balance, debited, sweep, calls>>

\* Mutant: the row is claimed without comparing submittedAt to null.
Claimable_Blind(k) == row[k].status # "ABSENT"

Claimable(k) == ~row[k].submitted

\* The compare-and-swap on submittedAt.
Claim(c) ==
  LET k == call[c].key
  IN  /\ call[c].pc = "claim"
      /\ IF Claimable(k)
         THEN /\ row' = [row EXCEPT ![k].status = "PENDING",
                                    ![k].submitted = TRUE,
                                    ![k].since = Len(chain)]
              /\ Goto(c, "submit")
         ELSE UNCHANGED row /\ Finish(c)
      /\ UNCHANGED <<chain, balance, debited, sweep, calls>>

\* The provider makes the transfer; its answer is still to come.
Accept(c) ==
  /\ call[c].pc = "submit"
  /\ chain' = Append(chain, call[c].key)
  /\ call' = [call EXCEPT ![c].pc = "answer", ![c].transfer = Len(chain) + 1]
  /\ UNCHANGED <<row, balance, debited, sweep, calls>>

\* The provider refuses: AppKitSendError, which becomes CircleApiError.
Refuse(c) ==
  /\ call[c].pc = "submit"
  /\ Goto(c, "unclaim")
  /\ UNCHANGED <<row, chain, balance, debited, sweep, calls>>

\* A timeout or a network error after the transfer was made: sendViaAppKit
\* wraps every error in AppKitSendError, so it is taken for a refusal.
LoseAnswer(c) ==
  /\ LostAnswers
  /\ call[c].pc = "answer"
  /\ Goto(c, "unclaim")
  /\ UNCHANGED <<row, chain, balance, debited, sweep, calls>>

\* The write after CircleApiError: FAILED, submittedAt null, unconditionally.
Unclaim(c) ==
  LET k == call[c].key
  IN  /\ call[c].pc = "unclaim"
      /\ row' = [row EXCEPT ![k].status = "FAILED", ![k].submitted = FALSE]
      /\ Finish(c)
      /\ UNCHANGED <<chain, balance, debited, sweep, calls>>

Answer(c) ==
  /\ call[c].pc = "answer"
  /\ call' = [call EXCEPT ![c].pc = "confirm", ![c].target = call[c].key]
  /\ UNCHANGED <<row, chain, balance, debited, sweep, calls>>

\* Mutant: the identifiers are written while the row still says PENDING.
MarkConfirmed_Skipped(c) ==
  /\ call[c].pc = "confirm"
  /\ Goto(c, "txHash")
  /\ UNCHANGED <<row, chain, balance, debited, sweep, calls>>

\* First write: status alone, which no unique key can refuse.
MarkConfirmed(c) ==
  LET k == call[c].key
  IN  /\ call[c].pc = "confirm"
      /\ row' = [row EXCEPT ![k].status = "CONFIRMED"]
      /\ Goto(c, "txHash")
      /\ UNCHANGED <<chain, balance, debited, sweep, calls>>

\* The other rows of the wallet that hold this hash or provider id: what the
\* unique keys, which are per wallet, collide with.
Holders(k, field, v) == {h \in Keys \ {k} : row[h][field] = v}

\* On a collision the caller adopts a row, marks it CONFIRMED and debits under
\* its id.  The query for it is not scoped to the wallet: it may find the row
\* of the same transfer in the payee's wallet instead, which is NoKey here.
Adopt(c, h) ==
  /\ row' = IF h = NoKey THEN row ELSE [row EXCEPT ![h].status = "CONFIRMED"]
  /\ call' = [call EXCEPT ![c].pc = "debit", ![c].target = h]

\* Second and third write: txHash, then circleTransactionId, each unique in
\* the wallet; the hash is written to both.
WriteField(c, field, next) ==
  LET k == call[c].key
      v == call[c].transfer
  IN  /\ call[c].pc = field
      /\ IF Holders(k, field, v) = {}
         THEN row' = [row EXCEPT ![k][field] = v] /\ Goto(c, next)
         ELSE \E h \in Holders(k, "txHash", v) \cup
                       Holders(k, "circleTransactionId", v) \cup {NoKey} : Adopt(c, h)
      /\ UNCHANGED <<chain, balance, debited, sweep, calls>>

\* Mutant: recordEntry has no idempotency key.
Recorded_Never(k) == FALSE

\* recordEntry already committed (ONCHAIN_TX, row id, DEBIT).
Recorded(k) == k \in debited

\* recordEntry: a no-op when recorded, InsufficientBalanceError when the
\* bucket cannot cover it, and nothing else then happens.
RecordDebit(k, amount) ==
  IF Recorded(k) \/ balance < amount
  THEN UNCHANGED <<debited, balance>>
  ELSE debited' = debited \cup {k} /\ balance' = balance - amount

Debit(c) ==
  /\ call[c].pc = "debit"
  /\ RecordDebit(call[c].target, Amount[call[c].key])
  /\ Finish(c)
  /\ UNCHANGED <<row, chain, sweep, calls>>

\* The caller dies, or fails in a way it does not understand (an error that
\* is no CircleApiError), which leaves the row as it is.
Crash(c) ==
  /\ call[c].pc # "idle"
  /\ Finish(c)
  /\ UNCHANGED <<row, chain, balance, debited, sweep, calls>>

-----------------------------------------------------------------------------
(* reconcilePendingSends, one stuck row after the other. *)

Pick(k) ==
  /\ sweep.pc = "idle"
  /\ InFlight(k)
  /\ sweep' = [pc |-> "list", key |-> k, since |-> row[k].since, match |-> 0]
  /\ UNCHANGED <<row, chain, balance, debited, call, calls>>

\* Mutant: the amount is not compared.
Alike_PayeeOnly(j, k) == Payee[j] = Payee[k]

\* What tells transfers apart: the destination and the amount.
Alike(j, k) == Payee[j] = Payee[k] /\ Amount[j] = Amount[k]

Candidates(k, since) ==
  {i \in DOMAIN chain : since < i /\ Alike(chain[i], k)}

\* listTransactions, then the first candidate in whatever order it comes; with
\* none the row is left alone (and after a day a human is told).
List ==
  LET found == Candidates(sweep.key, sweep.since)
  IN  /\ sweep.pc = "list"
      /\ IF found = {} THEN sweep' = IdleSweep
         ELSE \E i \in found :
                sweep' = [sweep EXCEPT !.pc = "claim", !.match = i]
      /\ UNCHANGED <<row, chain, balance, debited, call, calls>>

\* confirmFromMatch: one conditional update.  The listing may lack the hash
\* (known = FALSE); the provider's own id of transfer i is written -i, for it
\* differs from every hash.  A collision is taken to mean that the payment is
\* recorded elsewhere.
ConfirmFromMatch(known) ==
  LET k == sweep.key
      i == sweep.match
      collides == \/ known /\ Holders(k, "txHash", i) # {}
                  \/ Holders(k, "circleTransactionId", -i) # {}
  IN  /\ sweep.pc = "claim"
      /\ IF row[k].status = "PENDING" /\ ~collides
         THEN /\ row' = [row EXCEPT ![k].status = "CONFIRMED",
                                    ![k].txHash = IF known THEN i ELSE @,
                                    ![k].circleTransactionId = -i]
              /\ sweep' = [sweep EXCEPT !.pc = "debit"]
         ELSE UNCHANGED row /\ sweep' = IdleSweep
      /\ UNCHANGED <<chain, balance, debited, call, calls>>

SweepDebit ==
  /\ sweep.pc = "debit"
  /\ RecordDebit(sweep.key, Amount[sweep.key])
  /\ sweep' = IdleSweep
  /\ UNCHANGED <<row, chain, call, calls>>

SweepCrash ==
  /\ sweep.pc # "idle"
  /\ sweep' = IdleSweep
  /\ UNCHANGED <<row, chain, balance, debited, call, calls>>

-----------------------------------------------------------------------------
Step(c) ==
  \/ Find(c) \/ Create(c) \/ Claim(c)
  \/ Accept(c) \/ Refuse(c) \/ LoseAnswer(c) \/ Unclaim(c)
  \/ Answer(c) \/ MarkConfirmed(c)
  \/ WriteField(c, "txHash", "circleTransactionId")
  \/ WriteField(c, "circleTransactionId", "debit")
  \/ Debit(c)

SweepStep ==
  \/ List
  \/ \E known \in BOOLEAN : ConfirmFromMatch(known)
  \/ SweepDebit

Next ==
  \/ \E c \in Callers : (\E k \in Keys : Begin(c, k)) \/ Step(c) \/ Crash(c)
  \/ \E k \in Keys : Pick(k)
  \/ SweepStep
  \/ SweepCrash

Spec == Init /\ [][Next]_vars

\* What the repository runs: a request that is being served goes on, unless it
\* dies.  Nothing in it calls reconcilePendingSends.
FairSpec == Spec /\ \A c \in Callers : WF_vars(Step(c))

\* A deployment that schedules the sweep: every stuck row is looked at again
\* and again, and a pass that begins can go on.
SweptSpec ==
  /\ FairSpec
  /\ WF_vars(SweepStep)
  /\ \A k \in Keys : SF_vars(Pick(k))

-----------------------------------------------------------------------------
(* Properties. *)

Statuses == {"ABSENT", "PENDING", "FAILED", "CONFIRMED"}

CallPcs ==
  {"idle", "find", "create", "claim", "submit", "answer", "unclaim",
   "confirm", "txHash", "circleTransactionId", "debit"}

\* Every variable keeps the shape the code gives it.
TypeOK ==
  /\ row \in [Keys -> [status : Statuses, submitted : BOOLEAN, since : Nat,
                       txHash : Nat, circleTransactionId : Int]]
  /\ chain \in Seq(Keys)
  /\ balance \in Nat
  /\ debited \subseteq Keys \cup {NoKey}
  /\ call \in [Callers -> [pc : CallPcs, key : Keys \cup {NoKey},
                           transfer : Nat, target : Keys \cup {NoKey}]]
  /\ sweep \in [pc : {"idle", "list", "claim", "debit"},
                key : Keys \cup {NoKey}, since : Nat, match : Nat]
  /\ calls \in 0..MaxCalls

\* Between its claim and the end of its call a caller has the payment for
\* itself: two callers never both talk to the provider about one payment.
Holding(c) ==
  call[c].pc \in {"submit", "answer", "unclaim", "confirm", "txHash",
                  "circleTransactionId", "debit"}
OneSubmitter ==
  \A c, d \in Callers :
    Holding(c) /\ Holding(d) /\ call[c].key = call[d].key => c = d

\* However often a payment is retried, by however many callers at once, and
\* whoever dies where, its money leaves custody at most once.
SentOnce == \A i, j \in DOMAIN chain : chain[i] = chain[j] => i = j

\* A row says CONFIRMED only if its own payment was made, and a bucket is
\* debited only under a CONFIRMED row: the sweep never confirms one payment
\* by another's transfer, and a refusal never undoes a confirmation.
BooksFollowChain ==
  /\ \A k \in Keys : row[k].status = "CONFIRMED" => Sent(k)
  /\ \A k \in debited : k \in Keys /\ row[k].status = "CONFIRMED"

\* A row that is PENDING has no circleTransactionId, so neither the outbound
\* webhook nor the confirm-transaction job, which skip such rows, can act on a
\* payment that sendPayment or the sweep is still deciding.
PendingUntracked ==
  \A k \in Keys :
    row[k].status = "PENDING" =>
      row[k].txHash = 0 /\ row[k].circleTransactionId = 0

\* Once a row is CONFIRMED it stays so, and the hash it was given never
\* changes, whichever of the callers and the sweep come late.
ConfirmedIsFinal ==
  [][\A k \in Keys : row[k].status = "CONFIRMED" =>
       /\ row'[k].status = "CONFIRMED"
       /\ row[k].txHash # 0 => row'[k].txHash = row[k].txHash]_vars

\* The protocol implements the abstract payments: transfers and debits happen
\* once per payment, in that order.
Abs == INSTANCE AbstractPayments WITH paid <- chain, booked <- debited
ImplementsPayments == Abs!AbsSpec

Keyed == INSTANCE KeyedPayment WITH MaxLost <- 1

Made(k) == {i \in DOMAIN chain : chain[i] = k}

\* What a caller sees of payment k, its row and its transfers.
RowSeen(r) ==
  IF r.status = "CONFIRMED" THEN "CONFIRMED"
  ELSE IF r.submitted THEN "CLAIMED"
  ELSE IF r.status = "FAILED" THEN "FAILED" ELSE "NONE"

Seen(k) == [row |-> RowSeen(row[k]), made |-> Cardinality(Made(k)), lost |-> 0]

\* How far a call has come; "done" is a call that knows its outcome, though it
\* may still have identifiers and the debit to write.  A call that un-claims
\* its row has been refused, or has a transfer that was not answered.
Place(a) ==
  IF a.pc \in {"find", "create", "claim"} THEN "next"
  ELSE IF a.pc = "submit" \/ (a.pc = "unclaim" /\ a.transfer = 0) THEN "submit"
  ELSE IF a.pc \in {"answer", "unclaim", "confirm"} THEN "accepted" ELSE "done"

\* Caller c comes from a place to one of its outcomes.  (How many answers were
\* lost is remembered by KeyedPayment alone: no outcome depends on it.)
Comes(c, k, from, outcomes) ==
  /\ call[c].key = k /\ Place(call[c]) = from
  /\ \E out \in outcomes :
       /\ Seen(k)' = [out.payment EXCEPT !.lost = 0]
       /\ Place(call'[c]) = IF out.pc \in {"sent", "failed"} THEN "done" ELSE out.pc
  /\ \A d \in Callers \ {c} : call'[d] = call[d]

\* Nothing is seen of the step: a call begins or ends, or stays where it is.
Unseen(k) ==
  /\ UNCHANGED Seen(k)
  /\ \A c \in Callers : call'[c].key = k =>
       \/ Place(call'[c]) \in {"next", "done"}
       \/ call[c].key = k /\ Place(call'[c]) = Place(call[c])

KeyedNext(k) ==
  \/ \E c \in Callers :
       \/ Comes(c, k, "next", Keyed!Calls(Seen(k)))
       \/ Comes(c, k, "submit", Keyed!Submits(Seen(k)))
       \/ Comes(c, k, "accepted", Keyed!Answers(Seen(k)))
  \/ /\ Keyed!Sweepable(Seen(k)) /\ Seen(k)' = Keyed!Confirmed(Seen(k))
     /\ UNCHANGED call
  \/ Unseen(k)

\* Each payment behaves as payroll and recurring transfers take it to behave:
\* every step is one of KeyedPayment's outcomes or is not seen of it, however
\* many calls, crashes and sweeps of the same key interleave.
ImplementsKeyedPayment ==
  /\ \A k \in Keys : Seen(k) = Keyed!Unpaid
  /\ [][\A k \in Keys : KeyedNext(k)]_vars

\* What send.ts says of a lost outcome: "lib/circle/reconciliation.ts resolves
\* this later".
SentIsConfirmed == \A k \in Keys : Sent(k) ~> row[k].status = "CONFIRMED"

\* What the README says of the ledger: it matches the onchain balance, so what
\* left custody is, in the end, taken from the bucket.
SentIsDebited == \A k \in Keys : Sent(k) ~> k \in debited

\* What send.ts says of its balance check: the atomic guard is recordEntry's
\* row lock, so what is sent never exceeds what the bucket held.
SentIsCovered ==
  LET spent[i \in 0..Len(chain)] ==
        IF i = 0 THEN 0 ELSE spent[i - 1] + Amount[chain[i]]
  IN  spent[Len(chain)] <= InitialBalance
=============================================================================
