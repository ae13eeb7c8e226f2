--------------------------- MODULE UnifiedTransfer ---------------------------
(***************************************************************************)
(* Payments out of one wallet's Unified Balance                            *)
(* (lib/transfers/sendUnified.ts) with their on-demand top-up, and the     *)
(* sweep that deposits what arrives on another chain                       *)
(* (lib/circle/autoDeposit.ts).                                            *)
(*                                                                         *)
(* A payment copies sendPayment's protocol: a write-ahead row named by the *)
(* idempotencyKey, claimed by compare-and-swap before the provider is      *)
(* called.  Between the claim and the spend it may top the balance up,     *)
(* from the wallet's Arc balance and then from what the other chain holds  *)
(* beyond cumulativeDepositedAmount; the sweep and any number of payments  *)
(* take that same delta, each from a registration it read earlier.         *)
(*                                                                         *)
(* External: a deposit leaves the source chain at once and is confirmed by *)
(* the Gateway later; a spend is drawn from what is confirmed.  Every      *)
(* error of the provider, a timeout and a spend without a hash included,   *)
(* arrives as a CircleApiError: the code takes it for a refusal, whether   *)
(* or not the money has moved.  Left out: the Gateway's fee, the dust      *)
(* threshold (an amount is at least one unit), a second other chain.       *)
(***************************************************************************)
EXTENDS Integers, FiniteSetsExt

CONSTANTS
  Sends,        \* payments, by idempotencyKey
  Senders,      \* concurrent calls of sendUnifiedBalancePayment
  Depositors,   \* concurrent sweeps
  Cost,         \* Cost[k]: amount of the payment k
  ArcBalance,   \* plain USDC of the wallet on Arc, and its bucket's balance
  Arrivals,     \* what may arrive on the other chain: a set of amounts
  MaxArrivals,  \* bound: arrivals
  MaxSends,     \* bound: calls of sendUnifiedBalancePayment
  MaxStops,     \* bound: crashes, late errors and lost answers
  NoSend        \* no payment

VARIABLES
  sent,        \* sent[k]: the row of k, how often it was spent, and how often
               \* the answer to that was lost
  arc,         \* plain USDC on Arc
  bucket,      \* balance of the bucket that pays
  outer,       \* plain USDC on the other chain
  gateway,     \* Unified Balance: confirmed and pending
  cumulative,  \* WalletChainRegistration.cumulativeDepositedAmount
  deposited,   \* total deposited from the other chain
  creditedOut, \* total credited for it to the default bucket
  actor,       \* actor[a]: the call or the sweep that a makes
  arrivals,    \* arrivals so far
  calls,       \* calls of sendUnifiedBalancePayment so far
  stops        \* crashes, late errors and lost answers so far

unifiedVars == <<sent, arc, bucket, outer, gateway, cumulative, deposited,
                 creditedOut, actor, arrivals, calls, stops>>

Actors == Senders \cup Depositors

ASSUME UnifiedAssumption ==
  /\ Cost \in [Sends -> Nat \ {0}] /\ NoSend \notin Sends
  /\ Senders \cap Depositors = {}
  /\ ArcBalance \in Nat /\ Arrivals \subseteq Nat
  /\ MaxArrivals \in Nat /\ MaxSends \in Nat /\ MaxStops \in Nat

-----------------------------------------------------------------------------
\* balance: the bucket's balance that was read; short: what the Unified
\* Balance lacked; missing: what the top-up still has to find; moved: what it
\* deposited; base and delta: the registration and the delta of a deposit.
NoActor == [pc |-> "idle", key |-> NoSend, balance |-> 0, short |-> 0, missing |-> 0,
            moved |-> 0, base |-> 0, delta |-> 0]

UnifiedInit ==
  /\ sent = [k \in Sends |-> [row |-> "NONE", spent |-> 0, lost |-> 0]]
  /\ arc = ArcBalance
  /\ bucket = ArcBalance
  /\ outer = 0
  /\ gateway = [confirmed |-> 0, pending |-> 0]
  /\ cumulative = 0
  /\ deposited = 0
  /\ creditedOut = 0
  /\ actor = [a \in Actors |-> NoActor]
  /\ arrivals = 0
  /\ calls = 0
  /\ stops = 0

At(a, pc) == actor[a].pc = pc

Go(a, pc) == actor' = [actor EXCEPT ![a].pc = pc]

Leave(a) == actor' = [actor EXCEPT ![a] = NoActor]

CostOf(a) == Cost[actor[a].key]

\* A row is un-claimed: FAILED with submittedAt cleared.
Unclaimed(k) == sent' = [sent EXCEPT ![k].row = "FAILED"]

-----------------------------------------------------------------------------
(* sendUnifiedBalancePayment up to the claim. *)

\* Reads the bucket, then finds the row; one CONFIRMED or in flight is answered.
BeginSend(a, k) ==
  /\ At(a, "idle")
  /\ calls < MaxSends
  /\ calls' = calls + 1
  /\ IF sent[k].row \in {"NONE", "FAILED"}
     THEN actor' = [actor EXCEPT ![a].pc = "claim", ![a].key = k, ![a].balance = bucket]
     ELSE UNCHANGED actor
  /\ UNCHANGED <<sent, arc, bucket, outer, gateway, cumulative, deposited,
                 creditedOut, arrivals, stops>>

\* Mutant: the claim is a plain update of the row.
Claimable_Blind(k) == TRUE

Claimable(k) == sent[k].row \in {"NONE", "FAILED"}

ClaimSend(a) ==
  LET k == actor[a].key
  IN  /\ At(a, "claim")
      /\ IF Claimable(k)
         THEN sent' = [sent EXCEPT ![k].row = "CLAIMED"] /\ Go(a, "cover")
         ELSE UNCHANGED sent /\ Leave(a)
      /\ UNCHANGED <<arc, bucket, outer, gateway, cumulative, deposited,
                     creditedOut, arrivals, calls, stops>>

-----------------------------------------------------------------------------
(* Step 5.5: coverage and top-up. *)

Lacking(a) == Max({0, CostOf(a) - gateway.confirmed})

ReadCoverage(a) ==
  /\ At(a, "cover")
  /\ actor' = [actor EXCEPT ![a].pc = IF Lacking(a) = 0 THEN "spend" ELSE "topUp",
                            ![a].short = Lacking(a)]
  /\ UNCHANGED <<sent, arc, bucket, outer, gateway, cumulative, deposited,
                 creditedOut, arrivals, calls, stops>>

\* ensureUnifiedBalanceCovers reads the balance again.
ReadAgain(a) ==
  /\ At(a, "topUp")
  /\ actor' = [actor EXCEPT ![a].pc = IF Lacking(a) = 0 THEN "recheck" ELSE "arc",
                            ![a].missing = Lacking(a)]
  /\ UNCHANGED <<sent, arc, bucket, outer, gateway, cumulative, deposited,
                 creditedOut, arrivals, calls, stops>>

\* Deposits what Arc holds of it, or nothing when the deposit fails.
TopUpArc(a) ==
  /\ At(a, "arc")
  /\ \E n \in {0, Min({arc, actor[a].missing})} :
       /\ arc' = arc - n
       /\ gateway' = [gateway EXCEPT !.pending = @ + n]
       /\ actor' = [actor EXCEPT ![a].pc = IF n = actor[a].missing THEN "wait" ELSE "outer",
                                 ![a].missing = @ - n, ![a].moved = @ + n]
  /\ UNCHANGED <<sent, bucket, outer, cumulative, deposited, creditedOut,
                 arrivals, calls, stops>>

\* The deposit is made and its answer lost: it counts as failed.
ArcUnanswered(a) ==
  LET n == Min({arc, actor[a].missing})
  IN  /\ At(a, "arc")
      /\ stops < MaxStops
      /\ stops' = stops + 1
      /\ arc' = arc - n
      /\ gateway' = [gateway EXCEPT !.pending = @ + n]
      /\ Go(a, "outer")
      /\ UNCHANGED <<sent, bucket, outer, cumulative, deposited, creditedOut, arrivals, calls>>

\* waitForConfirmedBalance ends when the balance covers the cost, or in time.
Wait(a) ==
  /\ At(a, "wait")
  /\ Go(a, "recheck")
  /\ UNCHANGED <<sent, arc, bucket, outer, gateway, cumulative, deposited,
                 creditedOut, arrivals, calls, stops>>

\* The bucket pays what was topped up, and the whole shortfall if nothing was.
DebitNeeded(a) ==
  IF actor[a].short = 0 THEN 0
  ELSE IF actor[a].moved > 0 THEN actor[a].moved ELSE actor[a].short

Recheck(a) ==
  /\ At(a, "recheck")
  /\ IF Lacking(a) > 0 \/ actor[a].balance < DebitNeeded(a)
     THEN Unclaimed(actor[a].key) /\ Leave(a)
     ELSE UNCHANGED sent /\ Go(a, "spend")
  /\ UNCHANGED <<arc, bucket, outer, gateway, cumulative, deposited,
                 creditedOut, arrivals, calls, stops>>

-----------------------------------------------------------------------------
(* Steps 6 and 7: the spend and its books. *)

SpendAccepted(a) ==
  /\ At(a, "spend")
  /\ gateway.confirmed >= CostOf(a)
  /\ gateway' = [gateway EXCEPT !.confirmed = @ - CostOf(a)]
  /\ sent' = [sent EXCEPT ![actor[a].key].spent = @ + 1]
  /\ Go(a, "confirm")
  /\ UNCHANGED <<arc, bucket, outer, cumulative, deposited, creditedOut,
                 arrivals, calls, stops>>

SpendRejected(a) ==
  /\ At(a, "spend")
  /\ Unclaimed(actor[a].key)
  /\ Leave(a)
  /\ UNCHANGED <<arc, bucket, outer, gateway, cumulative, deposited,
                 creditedOut, arrivals, calls, stops>>

\* The spend went through, and the row is un-claimed all the same.
SpendUnanswered(a) ==
  /\ At(a, "spend")
  /\ gateway.confirmed >= CostOf(a)
  /\ stops < MaxStops
  /\ stops' = stops + 1
  /\ gateway' = [gateway EXCEPT !.confirmed = @ - CostOf(a)]
  /\ sent' = [sent EXCEPT ![actor[a].key] =
       [row |-> "FAILED", spent |-> @.spent + 1, lost |-> @.lost + 1]]
  /\ Leave(a)
  /\ UNCHANGED <<arc, bucket, outer, cumulative, deposited, creditedOut, arrivals, calls>>

ConfirmSpend(a) ==
  /\ At(a, "confirm")
  /\ sent' = [sent EXCEPT ![actor[a].key].row = "CONFIRMED"]
  /\ IF DebitNeeded(a) > 0 THEN Go(a, "debit") ELSE Leave(a)
  /\ UNCHANGED <<arc, bucket, outer, gateway, cumulative, deposited,
                 creditedOut, arrivals, calls, stops>>

\* recordEntry, or a balance conflict.
DebitTopUp(a) ==
  /\ At(a, "debit")
  /\ bucket' = IF bucket >= DebitNeeded(a) THEN bucket - DebitNeeded(a) ELSE bucket
  /\ Leave(a)
  /\ UNCHANGED <<sent, arc, outer, gateway, cumulative, deposited,
                 creditedOut, arrivals, calls, stops>>

\* The process dies, or a query or a call throws what nothing handles: a
\* claimed row stays claimed.
Stop(a) ==
  /\ ~At(a, "idle")
  /\ stops < MaxStops
  /\ stops' = stops + 1
  /\ Leave(a)
  /\ UNCHANGED <<sent, arc, bucket, outer, gateway, cumulative, deposited,
                 creditedOut, arrivals, calls>>

-----------------------------------------------------------------------------
(* depositRegistrationDelta, by a sweep or by a payment still short of Arc's *)
(* part.  Afterwards the payment waits, or gives up when it is still short.  *)

Returned(a, n) ==
  LET missing == actor[a].missing
  IN  actor' = [actor EXCEPT ![a] =
        IF a \in Depositors THEN NoActor
        ELSE [@ EXCEPT !.pc = IF n >= missing THEN "wait" ELSE "recheck",
                       !.missing = Max({0, missing - n}), !.moved = actor[a].moved + n,
                       !.base = 0, !.delta = 0]]

\* Reads the registration ...
ReadRegistration(a) ==
  /\ \/ a \in Depositors /\ At(a, "idle")
     \/ At(a, "outer")
  /\ actor' = [actor EXCEPT ![a].pc = "delta", ![a].base = cumulative]
  /\ UNCHANGED <<sent, arc, bucket, outer, gateway, cumulative, deposited,
                 creditedOut, arrivals, calls, stops>>

\* ... then the balance, and writes a PENDING row if there is a delta.
ReadDelta(a) ==
  LET delta == outer - actor[a].base
  IN  /\ At(a, "delta")
      /\ IF delta > 0
         THEN actor' = [actor EXCEPT ![a].pc = "deposit", ![a].delta = delta]
         ELSE Returned(a, 0)
      /\ UNCHANGED <<sent, arc, bucket, outer, gateway, cumulative, deposited,
                     creditedOut, arrivals, calls, stops>>

\* Mutant: its row is confirmed and credited like any other.
AfterFailedDeposit_Booked(a) == Go(a, "book")

\* A deposit that failed: nothing is booked.
AfterFailedDeposit(a) == Returned(a, 0)

\* The deposit, which fails when the chain holds less by now.
DepositDelta(a) ==
  LET n == actor[a].delta
  IN  /\ At(a, "deposit")
      /\ \/ /\ outer >= n
            /\ outer' = outer - n
            /\ gateway' = [gateway EXCEPT !.pending = @ + n]
            /\ deposited' = deposited + n
            /\ Go(a, "book")
         \/ /\ AfterFailedDeposit(a)
            /\ UNCHANGED <<outer, gateway, deposited>>
      /\ UNCHANGED <<sent, arc, bucket, cumulative, creditedOut, arrivals, calls, stops>>

\* It is made and its answer lost: its row is FAILED and nothing is booked.
DepositUnanswered(a) ==
  LET n == actor[a].delta
  IN  /\ At(a, "deposit")
      /\ outer >= n
      /\ stops < MaxStops
      /\ stops' = stops + 1
      /\ outer' = outer - n
      /\ gateway' = [gateway EXCEPT !.pending = @ + n]
      /\ deposited' = deposited + n
      /\ AfterFailedDeposit(a)
      /\ UNCHANGED <<sent, arc, bucket, cumulative, creditedOut, arrivals, calls>>

\* One transaction: the row CONFIRMED, the default bucket credited, and the
\* counter written from the registration that was read.
BookDeposit(a) ==
  /\ At(a, "book")
  /\ creditedOut' = creditedOut + actor[a].delta
  /\ cumulative' = actor[a].base + actor[a].delta
  /\ Returned(a, actor[a].delta)
  /\ UNCHANGED <<sent, arc, bucket, outer, gateway, deposited, arrivals, calls, stops>>

\* It fails: the money is in the Gateway, the row PENDING, nothing credited.
BookFails(a) ==
  /\ At(a, "book")
  /\ stops < MaxStops
  /\ stops' = stops + 1
  /\ Returned(a, 0)
  /\ UNCHANGED <<sent, arc, bucket, outer, gateway, cumulative, deposited,
                 creditedOut, arrivals, calls>>

-----------------------------------------------------------------------------
Arrive(n) ==
  /\ arrivals < MaxArrivals
  /\ arrivals' = arrivals + 1
  /\ outer' = outer + n
  /\ UNCHANGED <<sent, arc, bucket, gateway, cumulative, deposited,
                 creditedOut, actor, calls, stops>>

GatewayConfirms ==
  /\ gateway.pending > 0
  /\ gateway' = [confirmed |-> gateway.confirmed + gateway.pending, pending |-> 0]
  /\ UNCHANGED <<sent, arc, bucket, outer, cumulative, deposited, creditedOut,
                 actor, arrivals, calls, stops>>

SenderStep(a) ==
  \/ \E k \in Sends : BeginSend(a, k)
  \/ ClaimSend(a)
  \/ ReadCoverage(a)
  \/ ReadAgain(a)
  \/ TopUpArc(a)
  \/ ArcUnanswered(a)
  \/ Wait(a)
  \/ Recheck(a)
  \/ SpendAccepted(a)
  \/ SpendRejected(a)
  \/ SpendUnanswered(a)
  \/ ConfirmSpend(a)
  \/ DebitTopUp(a)

DepositStep(a) ==
  \/ ReadRegistration(a)
  \/ ReadDelta(a)
  \/ DepositDelta(a)
  \/ DepositUnanswered(a)
  \/ BookDeposit(a)
  \/ BookFails(a)
  \/ Stop(a)

UnifiedNext ==
  \/ \E a \in Senders : SenderStep(a)
  \/ \E a \in Actors : DepositStep(a)
  \/ \E n \in Arrivals : Arrive(n)
  \/ GatewayConfirms

UnifiedSpec == UnifiedInit /\ [][UnifiedNext]_unifiedVars

-----------------------------------------------------------------------------
UnifiedTypeOK ==
  /\ sent \in [Sends -> [row : {"NONE", "CLAIMED", "FAILED", "CONFIRMED"},
                      spent : Nat, lost : Nat]]
  /\ arc \in Nat /\ bucket \in Nat /\ outer \in Nat
  /\ gateway \in [confirmed : Nat, pending : Nat]
  /\ cumulative \in Nat /\ deposited \in Nat /\ creditedOut \in Nat
  /\ actor \in [Actors ->
       [pc : {"idle", "claim", "cover", "topUp", "arc", "wait", "recheck", "spend", "confirm",
              "debit", "outer", "delta", "deposit", "book"},
        key : Sends \cup {NoSend}, balance : Nat, short : Nat, missing : Nat,
        moved : Nat, base : Nat, delta : Nat]]
  /\ arrivals \in Nat /\ calls \in Nat /\ stops \in Nat

\* A payment is spent again for its key only if the answer to the spend before
\* was lost, although coverage, top-up and waiting lie between its claim and
\* its spend; and its row tells: CONFIRMED was spent and answered, and one open
\* to a retry was spent only without an answer.
SpentAgainOnlyIfLost ==
  \A k \in Sends :
    /\ sent[k].spent <= sent[k].lost + 1
    /\ sent[k].row = "CONFIRMED" => sent[k].spent = sent[k].lost + 1
    /\ sent[k].row \in {"NONE", "FAILED"} => sent[k].spent = sent[k].lost

\* The default bucket is never credited for more than was deposited from the
\* other chain, although sweeps and payments take the same delta at once and
\* write the counter back from what they read before.
DepositsBackCredits == creditedOut <= deposited

\* "The sweep only deposits the DELTA between a chain's current plain balance
\* and what's already been deposited" (prisma/schema.prisma:550-552): a sweep
\* that finds no delta leaves nothing behind on the chain.
NothingLeftBehind ==
  \A a \in Depositors : At(a, "delta") /\ outer <= actor[a].base => outer = 0

=============================================================================
