----------------------- MODULE PaymentLinkSettlement -----------------------
(***************************************************************************)
(* How a wallet checkout of a payment link is settled: a payer deposits to *)
(* the session's own deposit wallet, a webhook handler claims the session, *)
(* sweeps the deposit to the treasury and confirms the session, and two    *)
(* other handlers work on the same rows at the same time: the recovery     *)
(* that finishes a sweep whose confirmation failed (outbound notices) and  *)
(* the treasury's own inbound handler, which guesses by amount whether     *)
(* what arrived pays an open session.                                      *)
(*                                                                         *)
(* Notices come any number of times (none included: a handled failure is   *)
(* answered 200 and not redelivered) and in any order: an idle handler may *)
(* take the notice of any transfer at any time.  A handler may die at any  *)
(* statement.  An interactive database transaction is its reads (one step  *)
(* or more) and its commit (one step): PostgreSQL's READ COMMITTED lets    *)
(* another commit in between.  A unique violation inside a transaction     *)
(* aborts it, whatever the catch block then queries.                       *)
(*                                                                         *)
(* A notice has an id of its own, and may come without the transfer's      *)
(* hash.  A transfer may so have several rows in the treasury's wallet,    *)
(* told apart by the txHash they carry (their key): the transfer's hash,   *)
(* none in a row of an inbound notice without a hash, the id of the notice *)
(* in a row of an outbound one.  The value of a row is the origin of its   *)
(* circleTransactionId: the sweep (its hash), an inbound or an outbound    *)
(* notice.  Both are unique in a wallet.  The failureReason of a session   *)
(* is left out: nothing here reads it.                                     *)
(***************************************************************************)
EXTENDS Integers, Sequences, FiniteSets

CONSTANTS
  Sessions,        \* checkout sessions (PaymentLinkPayment, method WALLET)
  Links,           \* payment links of one organization
  LinkOf,          \* LinkOf[s]
  AmountExpected,  \* AmountExpected[s], in the smallest unit
  FixedAmount,     \* the links of type FIXED_AMOUNT
  MaxUses,         \* MaxUses[l]; NoLimit for null
  NoLimit,
  Handlers,        \* concurrent webhook requests
  Amounts,         \* what payers send
  Treasury, Outside,   \* the treasury's address; every payer's
  NoSession,
  Strangers,       \* may someone pay the treasury directly?
  Operators,       \* may someone return a deposit by hand?
  NoticeHashes,    \* FALSE in it: a notice may come without its hash
  MaxTransfers     \* bound: transfers of all kinds

Wallets == Sessions \cup {Treasury, Outside}
Transfers == 1..MaxTransfers

\* What tells the rows of a transfer apart.
Keys == {"hash", "inbound", "outbound"}

ASSUME NamesAssumption ==
  /\ Treasury # Outside
  /\ {Treasury, Outside, NoSession} \cap Sessions = {}
ASSUME LinksAssumption ==
  /\ LinkOf \in [Sessions -> Links]
  /\ FixedAmount \subseteq Links
  /\ \A l \in Links : MaxUses[l] = NoLimit \/ MaxUses[l] \in Nat \ {0}
ASSUME AmountsAssumption ==
  /\ Amounts \subseteq Nat \ {0}
  /\ AmountExpected \in [Sessions -> Nat \ {0}]
ASSUME NoticesAssumption == NoticeHashes \subseteq BOOLEAN
ASSUME BoundsAssumption == MaxTransfers \in Nat

VARIABLES
  session,    \* session[s]: status, the row that txId names (its transfer and
              \* its key), the deposit address
  link,       \* link[l]: active, useCount, payments
  transfers,  \* what moved onchain, in order
  held,       \* held[w]: USDC at w's address (Outside: net of what it sent)
  row,        \* row[i, k]: the treasury's OnchainTransaction for transfer i
              \* that has key k: where its circleTransactionId comes from
  credits,    \* credits[i, k]: the ONCHAIN_TX credits that reference that row
  debited,    \* the sessions whose refund has its debit
  handler     \* handler[h]: the webhook request that h runs

vars == <<session, link, transfers, held, row, credits, debited, handler>>

-----------------------------------------------------------------------------
NoSessionYet == [status |-> "ABSENT", tx |-> 0, known |-> "hash", address |-> "none"]

FreshLink == [active |-> TRUE, useCount |-> 0, payments |-> 0]

IdleHandler ==
  [pc |-> "idle", session |-> NoSession, transfer |-> 0, known |-> "hash", amount |-> 0,
   insert |-> "none", uses |-> 0]

Init ==
  /\ session = [s \in Sessions |-> NoSessionYet]
  /\ link = [l \in Links |-> FreshLink]
  /\ transfers = << >>
  /\ held = [w \in Wallets |-> 0]
  /\ row = [e \in Transfers \X Keys |-> "none"]
  /\ credits = [e \in Transfers \X Keys |-> << >>]
  /\ debited = {}
  /\ handler = [h \in Handlers |-> IdleHandler]

Pending(s) == session[s].status = "PENDING"

Exhausted(l, uses) == MaxUses[l] # NoLimit /\ uses >= MaxUses[l]

\* The link still accepts checkouts.
Open(l) == link[l].active /\ ~Exhausted(l, link[l].useCount)

Goto(h, pc) == handler' = [handler EXCEPT ![h].pc = pc]

Finish(h) == handler' = [handler EXCEPT ![h] = IdleHandler]

\* The row that h works on, and the one that session s names.
Entry(h) == <<handler[h].transfer, handler[h].known>>
TxOf(s) == <<session[s].tx, session[s].known>>

\* The rows that a search for a notice of transfer i finds: by the id of the
\* notice or, if it has one, by the hash.
Known(i, origin, hashed) ==
  {k \in Keys : row[<<i, k>>] # "none" /\ (row[<<i, k>>] = origin \/ (hashed /\ k = "hash"))}

CanPay(w, amount) == w = Outside \/ held[w] >= amount

\* One more transfer onchain.
Move(from, to, amount) ==
  /\ Len(transfers) < MaxTransfers
  /\ CanPay(from, amount)
  /\ transfers' = Append(transfers, [from |-> from, to |-> to, amount |-> amount])
  /\ held' = [w \in Wallets |->
       held[w] + (IF w = to THEN amount ELSE 0) - (IF w = from THEN amount ELSE 0)]

-----------------------------------------------------------------------------
(* Checkout, the payers and time. *)

\* The link is read before the row is created; since nothing can refer to a
\* row that does not exist yet, one step stands for both.
StartCheckout(s) ==
  /\ session[s].status = "ABSENT"
  /\ Open(LinkOf[s])
  /\ session' = [session EXCEPT ![s].status = "PENDING"]
  /\ UNCHANGED <<link, transfers, held, row, credits, debited, handler>>

\* Circle provides the deposit wallet; its address is shown to the payer.
Provision(s) ==
  /\ session[s].status # "ABSENT" /\ session[s].address = "none"
  /\ session' = [session EXCEPT ![s].address = "shown"]
  /\ UNCHANGED <<link, transfers, held, row, credits, debited, handler>>

\* The catch block writes FAILED whatever the status has become.
ProvisionFails(s) ==
  /\ session[s].status # "ABSENT" /\ session[s].address = "none"
  /\ session' = [session EXCEPT ![s].status = "FAILED", ![s].address = "never"]
  /\ UNCHANGED <<link, transfers, held, row, credits, debited, handler>>

\* The daily sweep, or the first visit after expiresAt.
ExpireLink(l) ==
  /\ link[l].active
  /\ link' = [link EXCEPT ![l].active = FALSE]
  /\ UNCHANGED <<session, transfers, held, row, credits, debited, handler>>

\* A payer sends any amount to the address the session showed.
Deposit(s, amount) ==
  /\ session[s].address = "shown"
  /\ Move(Outside, s, amount)
  /\ UNCHANGED <<session, link, row, credits, debited, handler>>

\* Somebody pays the organization without any payment link.
PayTreasury(amount) ==
  /\ Strangers
  /\ Move(Outside, Treasury, amount)
  /\ UNCHANGED <<session, link, row, credits, debited, handler>>

\* A parked deposit is returned by hand, as the failure messages ask.
ReturnDeposit(s) ==
  /\ Operators
  /\ held[s] > 0 /\ session[s].status = "SWEEPING"
  /\ \A h \in Handlers : handler[h].session # s
  /\ Move(s, Outside, held[s])
  /\ UNCHANGED <<session, link, row, credits, debited, handler>>

-----------------------------------------------------------------------------
(* "transactions.inbound" of a deposit wallet: reconcileDepositWalletPayment. *)

\* Mutant: a parked or half-done session can be claimed again.
Claimable_Again(s) == session[s].status \in {"PENDING", "SWEEPING"}

Claimable(s) == Pending(s)

\* Mutant: any amount is swept.
Exact_Any(s, amount) == TRUE

Exact(s, amount) == amount = AmountExpected[s]

\* The conditional update PENDING -> SWEEPING.  The notice's state is not looked
\* at: the deposit it announces may not have arrived, or never arrive.
Claim(h, s, amount) ==
  /\ handler[h] = IdleHandler
  /\ session[s].address = "shown" /\ Claimable(s)
  /\ session' = [session EXCEPT ![s].status = "SWEEPING"]
  /\ handler' = [handler EXCEPT ![h] = [IdleHandler EXCEPT
       !.pc = "sweep", !.session = s, !.amount = amount]]
  /\ UNCHANGED <<link, transfers, held, row, credits, debited>>

Sweep(h) ==
  /\ handler[h].pc = "sweep"
  /\ Exact(handler[h].session, handler[h].amount)
  /\ Move(handler[h].session, Treasury, handler[h].amount)
  /\ handler' = [handler EXCEPT ![h].pc = "lookup", ![h].transfer = Len(transfers) + 1]
  /\ UNCHANGED <<session, link, row, credits, debited>>

\* A wrong amount, or a refusal of the provider: the session stays SWEEPING.
\* (A refusal may be an answer lost after the transfer was made: see
\* SweepUnanswered.)
SweepFails(h) ==
  /\ handler[h].pc = "sweep"
  /\ Finish(h)
  /\ UNCHANGED <<session, link, transfers, held, row, credits, debited>>

SweepUnanswered(h) ==
  /\ handler[h].pc = "lookup"
  /\ Finish(h)
  /\ UNCHANGED <<session, link, transfers, held, row, credits, debited>>

\* The transaction finds a row with the sweep's hash, or inserts one.
Lookup(h) ==
  LET found == Known(handler[h].transfer, "sweep", TRUE)
  IN  /\ handler[h].pc = "lookup"
      /\ \/ /\ found = {}
            /\ handler' = [handler EXCEPT ![h].pc = "read", ![h].insert = "sweep"]
         \/ \E k \in found :
              handler' = [handler EXCEPT ![h].pc = "read", ![h].known = k]
      /\ UNCHANGED <<session, link, transfers, held, row, credits, debited>>

-----------------------------------------------------------------------------
(* "transactions.outbound" of a deposit wallet: recoverStuckDepositSweep. *)

Stuck(s) == session[s].status = "SWEEPING"

\* Any transfer out of the deposit wallet of a SWEEPING session will do; the id
\* of its notice stands in for a missing hash.
FindStuck(h, i, hashed) ==
  LET s == transfers[i].from
  IN  /\ handler[h] = IdleHandler
      /\ s \in Sessions /\ Stuck(s)
      /\ handler' = [handler EXCEPT ![h] = [IdleHandler EXCEPT
           !.pc = "resolve", !.session = s, !.transfer = i,
           !.known = IF hashed THEN "hash" ELSE "outbound",
           !.amount = AmountExpected[s]]]
      /\ UNCHANGED <<session, link, transfers, held, row, credits, debited>>

\* The row is found (any that the search finds) or created, committed on its own.
Resolve(h) ==
  LET found == Known(handler[h].transfer, "outbound", handler[h].known = "hash")
  IN  /\ handler[h].pc = "resolve"
      /\ \/ /\ found = {}
            /\ row' = [row EXCEPT ![Entry(h)] = "outbound"]
            /\ Goto(h, "check")
         \/ \E k \in found :
              /\ handler' = [handler EXCEPT ![h].pc = "check", ![h].known = k]
              /\ UNCHANGED row
      /\ UNCHANGED <<session, link, transfers, held, credits, debited>>

\* stillStuck, read without a lock.
CheckStuck(h) ==
  /\ handler[h].pc = "check"
  /\ IF Stuck(handler[h].session) THEN Goto(h, "read") ELSE Finish(h)
  /\ UNCHANGED <<session, link, transfers, held, row, credits, debited>>

-----------------------------------------------------------------------------
(* "transactions.inbound" of the treasury: handleInboundTransfer and the     *)
(* match of reconcileWalletTransferAgainstPaymentLinks.                      *)

\* Mutant: a deposit wallet's notice falls through to the treasury's handler.
ForTreasury_Any(i) == TRUE

ForTreasury(i) == transfers[i].to = Treasury

\* A redelivery is known by the notice's id, never by the hash.
ReceiveInbound(h, i, hashed) ==
  /\ handler[h] = IdleHandler
  /\ ForTreasury(i)
  /\ Known(i, "inbound", FALSE) = {}
  /\ handler' = [handler EXCEPT ![h] = [IdleHandler EXCEPT
       !.pc = "match", !.transfer = i, !.amount = transfers[i].amount,
       !.known = IF hashed THEN "hash" ELSE "inbound"]]
  /\ UNCHANGED <<session, link, transfers, held, row, credits, debited>>

ExactMatches(amount) == {s \in Sessions : Pending(s) /\ AmountExpected[s] = amount}

\* Some of the open sessions are younger than WRONG_AMOUNT_WINDOW_MS.
OpenFixed == {s \in Sessions : Pending(s) /\ LinkOf[s] \in FixedAmount}

\* The rows of the notice's id, and those its insert would collide with.
Redelivered(h) == Known(handler[h].transfer, "inbound", FALSE)
Collides(h) == Known(handler[h].transfer, "inbound", handler[h].known = "hash")

\* What the transaction will do with the transfer, once it has its row.
Matched(h, pc, s) ==
  \/ /\ Redelivered(h) = {}
     /\ handler' = [handler EXCEPT ![h].pc = pc, ![h].session = s,
                                   ![h].insert = "inbound"]
  \/ \E k \in Redelivered(h) :
       handler' = [handler EXCEPT ![h].pc = pc, ![h].session = s, ![h].known = k]

Match(h) ==
  LET exact == ExactMatches(handler[h].amount)
  IN  /\ handler[h].pc = "match"
      /\ Collides(h) = {} \/ Redelivered(h) # {}
      /\ \/ \E s \in exact : exact = {s} /\ Matched(h, "read", s)
         \/ Cardinality(exact) > 1 /\ Matched(h, "credit", NoSession)
         \/ exact = {} /\ \E recent \in SUBSET OpenFixed :
              IF Cardinality(recent) = 1
              THEN \E s \in recent : Matched(h, "park", s)
              ELSE Matched(h, "credit", NoSession)
      /\ UNCHANGED <<session, link, transfers, held, row, credits, debited>>

\* The hash has a row under another id: the insert violates (walletId, txHash).
MatchFails(h) ==
  /\ handler[h].pc = "match"
  /\ Collides(h) # {} /\ Redelivered(h) = {}
  /\ Finish(h)
  /\ UNCHANGED <<session, link, transfers, held, row, credits, debited>>

-----------------------------------------------------------------------------
(* The commits. *)

\* Mutant: recordEntry does not look for an entry with the same reference.
Credited_Never(e) == FALSE

Credited(e) == credits[e] # << >>

\* Mutant: a row that was found is taken to be credited already.
Credit_NewRowsOnly(h, account) ==
  credits' = IF Credited(Entry(h)) \/ handler[h].insert = "none" THEN credits
             ELSE [credits EXCEPT ![Entry(h)] =
                     Append(@, [account |-> account, amount |-> handler[h].amount])]

\* recordEntry: one credit per row, whichever bucket it went to.
Credit(h, account) ==
  credits' = IF Credited(Entry(h)) THEN credits
             ELSE [credits EXCEPT ![Entry(h)] =
                     Append(@, [account |-> account, amount |-> handler[h].amount])]

InsertRow(h) ==
  row' = IF handler[h].insert = "none" THEN row
         ELSE [row EXCEPT ![Entry(h)] = handler[h].insert]

\* A unique violation: of the row's hash or id in its wallet, or of a session's
\* txId.
Conflict(h) ==
  \/ /\ handler[h].insert # "none"
     /\ Known(handler[h].transfer, handler[h].insert, handler[h].known = "hash") # {}
  \/ \E s \in Sessions \ {handler[h].session} :
       handler[h].session # NoSession /\ TxOf(s) = Entry(h)

\* The transaction is rolled back, for a conflict or any other error; the notice
\* is answered 200 all the same.
Abort(h) ==
  /\ handler[h].pc \in {"commit", "park", "credit"}
  /\ Finish(h)
  /\ UNCHANGED <<session, link, transfers, held, row, credits, debited>>

\* confirmPaymentLinkPayment reads the session and its link...
ReadLink(h) ==
  /\ handler[h].pc = "read"
  /\ handler' = [handler EXCEPT ![h].pc = "commit",
       ![h].uses = link[LinkOf[handler[h].session]].useCount]
  /\ UNCHANGED <<session, link, transfers, held, row, credits, debited>>

\* Mutant: payments is computed from the value read, as useCount is.
Counted_FromRead(l, uses) ==
  [l EXCEPT !.useCount = uses + 1, !.payments = uses + 1]

\* useCount is written from the value read, payments is incremented.
Counted(l, uses) ==
  [l EXCEPT !.useCount = uses + 1, !.payments = @ + 1]

\* ...and writes the credit, the session and the link, whatever they are now.
Confirm(h) ==
  LET s == handler[h].session
      l == LinkOf[s]
      uses == handler[h].uses
  IN  /\ handler[h].pc = "commit"
      /\ ~Conflict(h)
      /\ InsertRow(h)
      /\ Credit(h, l)
      /\ session' = [session EXCEPT ![s].status = "CONFIRMED",
                                    ![s].tx = handler[h].transfer,
                                    ![s].known = handler[h].known]
      /\ link' = [link EXCEPT ![l] = [Counted(link[l], uses) EXCEPT
           !.active = link[l].active /\ ~Exhausted(l, uses + 1)]]
      /\ Finish(h)
      /\ UNCHANGED <<transfers, held, debited>>

\* The wrong-amount case: credited to the default bucket, to be refunded.
Park(h) ==
  LET s == handler[h].session
  IN  /\ handler[h].pc = "park"
      /\ ~Conflict(h)
      /\ InsertRow(h)
      /\ Credit(h, "default")
      /\ session' = [session EXCEPT ![s].status = "WRONG_AMOUNT_REFUNDED",
                                    ![s].tx = handler[h].transfer,
                                    ![s].known = handler[h].known]
      /\ Goto(h, "refund")
      /\ UNCHANGED <<link, transfers, held, debited>>

\* No session is settled: the default bucket is credited.
CreditDefault(h) ==
  /\ handler[h].pc = "credit"
  /\ ~Conflict(h)
  /\ InsertRow(h)
  /\ Credit(h, "default")
  /\ Finish(h)
  /\ UNCHANGED <<session, link, transfers, held, debited>>

-----------------------------------------------------------------------------
(* issueWrongAmountRefund. *)

\* Sends back what the session now says it received, to whom it says.
Refund(h) ==
  LET s == handler[h].session
      paid == transfers[session[s].tx]
  IN  /\ handler[h].pc = "refund"
      /\ session[s].status = "WRONG_AMOUNT_REFUNDED"
      /\ Move(Treasury, paid.from, paid.amount)
      /\ Goto(h, "debit")
      /\ UNCHANGED <<session, link, row, credits, debited>>

\* The session has moved on, or the provider refuses.
RefundFails(h) ==
  /\ handler[h].pc = "refund"
  /\ Finish(h)
  /\ UNCHANGED <<session, link, transfers, held, row, credits, debited>>

\* The refund row is keyed by the session, so it is debited once.
DebitRefund(h) ==
  /\ handler[h].pc = "debit"
  /\ debited' = debited \cup {handler[h].session}
  /\ Finish(h)
  /\ UNCHANGED <<session, link, transfers, held, row, credits>>

-----------------------------------------------------------------------------
Crash(h) ==
  /\ handler[h] # IdleHandler
  /\ Finish(h)
  /\ UNCHANGED <<session, link, transfers, held, row, credits, debited>>

Take(h) ==
  \/ \E s \in Sessions, amount \in Amounts : Claim(h, s, amount)
  \/ \E i \in DOMAIN transfers, hashed \in NoticeHashes :
       FindStuck(h, i, hashed) \/ ReceiveInbound(h, i, hashed)

Proceed(h) ==
  \/ Sweep(h) \/ SweepFails(h) \/ SweepUnanswered(h) \/ Lookup(h)
  \/ Resolve(h) \/ CheckStuck(h)
  \/ Match(h) \/ MatchFails(h)
  \/ ReadLink(h) \/ Confirm(h) \/ Park(h) \/ CreditDefault(h) \/ Abort(h)
  \/ Refund(h) \/ RefundFails(h) \/ DebitRefund(h)

Next ==
  \/ \E s \in Sessions : StartCheckout(s) \/ Provision(s) \/ ProvisionFails(s)
  \/ \E s \in Sessions : ReturnDeposit(s) \/ \E amount \in Amounts : Deposit(s, amount)
  \/ \E l \in Links : ExpireLink(l)
  \/ \E amount \in Amounts : PayTreasury(amount)
  \/ \E h \in Handlers : Take(h) \/ Proceed(h) \/ Crash(h)

Spec == Init /\ [][Next]_vars

-----------------------------------------------------------------------------
Statuses == {"ABSENT", "PENDING", "SWEEPING", "CONFIRMED", "FAILED",
             "WRONG_AMOUNT_REFUNDED"}
Rows == {"none", "sweep", "inbound", "outbound"}
Pcs == {"idle", "sweep", "lookup", "resolve", "check", "match", "read", "commit",
        "park", "credit", "refund", "debit"}
Accounts == Links \cup {"default"}

SessionType ==
  [status : Statuses, tx : {0} \cup Transfers, known : Keys,
   address : {"none", "shown", "never"}]
LinkType == [active : BOOLEAN, useCount : Nat, payments : Nat]
TransferType == [from : Wallets, to : Wallets, amount : Nat \ {0}]
CreditType == [account : Accounts, amount : Nat \ {0}]
HandlerType ==
  [pc : Pcs, session : Sessions \cup {NoSession}, transfer : {0} \cup Transfers,
   known : Keys, amount : Nat, insert : Rows, uses : Nat]

\* Every variable has its type; no wallet is overdrawn, and an idle handler has
\* forgotten its last request.
TypeOK ==
  /\ session \in [Sessions -> SessionType]
  /\ link \in [Links -> LinkType]
  /\ transfers \in Seq(TransferType) /\ Len(transfers) <= MaxTransfers
  /\ held \in [Wallets -> Int] /\ \A w \in Wallets \ {Outside} : held[w] >= 0
  /\ row \in [Transfers \X Keys -> Rows]
  /\ credits \in [Transfers \X Keys -> Seq(CreditType)]
  /\ debited \subseteq Sessions
  /\ handler \in [Handlers -> HandlerType]
  /\ \A h \in Handlers : handler[h].pc = "idle" => handler[h] = IdleHandler

Sweeps(s) == {i \in DOMAIN transfers : transfers[i].from = s /\ transfers[i].to = Treasury}

Sweepers(s) == {h \in Handlers : handler[h].pc = "sweep" /\ handler[h].session = s}

Confirmed(l) == {s \in Sessions : LinkOf[s] = l /\ session[s].status = "CONFIRMED"}

\* However often the notices of a deposit are delivered, and whichever handlers
\* die, a deposit wallet is swept at most once, and nobody is about to sweep it a
\* second time: the claim is never undone.
SweptOnce ==
  \A s \in Sessions :
    /\ \A i, j \in Sweeps(s) : i = j
    /\ \A g, h \in Sweepers(s) : g = h
    /\ Sweepers(s) # {} => Sweeps(s) = {}

\* Whichever of the three handlers adopt or write the rows of a transfer, and
\* whichever notices come again or without the hash: a notice makes one row, and
\* a row is credited once, to one bucket.
CreditedOnce ==
  \A i \in Transfers, j, k \in Keys :
    /\ Len(credits[<<i, k>>]) <= 1
    /\ row[<<i, j>>] = row[<<i, k>>] /\ row[<<i, k>>] # "none" => j = k

\* A transfer is credited once, whatever its notices say of it.  It fails: a
\* notice without the hash makes a row of its own, with its own credit.
TransferCreditedOnce ==
  \A i \in Transfers, j, k \in Keys : Credited(<<i, j>>) /\ Credited(<<i, k>>) => j = k

\* A session is CONFIRMED only with the row and the credit of the transfer it
\* names (completion.ts: never off a transfer whose own write rolled back).
ConfirmedHasCredit ==
  \A s \in Sessions : session[s].status = "CONFIRMED" =>
    /\ session[s].tx \in DOMAIN transfers
    /\ row[TxOf(s)] # "none"
    /\ Credited(TxOf(s))

\* The link's payments counter misses no CONFIRMED session, and useCount,
\* which is written from a stale read, never runs ahead of it.
NothingUncounted ==
  \A l \in Links :
    /\ Cardinality(Confirmed(l)) <= link[l].payments
    /\ link[l].useCount <= link[l].payments

\* A transfer of the deposit wallet that an operator sent back.
Returned(i) == Operators /\ transfers[i].from \in Sessions /\ transfers[i].to = Outside

\* Transfer i brought amount to the treasury, or was a return by hand.
Brought(i, amount) ==
  \/ transfers[i].to = Treasury /\ transfers[i].amount = amount
  \/ Returned(i)

\* With strangers who pay any amount, wrong deposits, refunds and returns: every
\* credit is what its transfer brought to the treasury, though the recovery
\* credits what the session expected; only a deposit returned by hand is taken
\* for a sweep (CreditsBacked has no such exception, and fails).
CreditsBrought ==
  \A e \in Transfers \X Keys : \A n \in DOMAIN credits[e] :
    e[1] \in DOMAIN transfers /\ Brought(e[1], credits[e][n].amount)

\* A session is CONFIRMED only by a transfer of exactly its price to the
\* treasury, whoever made it and whichever handler confirmed, or by a deposit
\* returned by hand that the recovery took for a sweep.
ConfirmedAtItsPrice ==
  \A s \in Sessions : session[s].status = "CONFIRMED" =>
    /\ session[s].tx \in DOMAIN transfers
    /\ Brought(session[s].tx, AmountExpected[s])

\* What a bucket was credited for a transfer is what that transfer brought to
\* the treasury.
CreditsBacked ==
  \A e \in Transfers \X Keys : \A n \in DOMAIN credits[e] :
    /\ e[1] \in DOMAIN transfers
    /\ transfers[e[1]].to = Treasury
    /\ credits[e][n].amount = transfers[e[1]].amount

\* A CONFIRMED session was paid: its own deposit wallet was swept for exactly
\* what it expects, and that transfer is the one it names
\* (reconciliation.ts:160-161: no session is guessed).
ConfirmedWasPaid ==
  \A s \in Sessions : session[s].status = "CONFIRMED" =>
    /\ session[s].tx \in Sweeps(s)
    /\ transfers[session[s].tx].amount = AmountExpected[s]

\* payments is the number of CONFIRMED sessions.
CountersMatch == \A l \in Links : link[l].payments = Cardinality(Confirmed(l))

\* A link of maxUses n is paid at most n times.
UsesRespected ==
  \A l \in Links : MaxUses[l] # NoLimit => Cardinality(Confirmed(l)) <= MaxUses[l]

\* A payment of a link is credited to the bucket the link names.
CreditedToItsBucket ==
  \A s \in Sessions : session[s].status = "CONFIRMED" =>
    credits[TxOf(s)][1].account = LinkOf[s]

Paid(from, to, amount) ==
  {i \in DOMAIN transfers : transfers[i] = [from |-> from, to |-> to, amount |-> amount]}

\* A payer is refunded a given amount at most as often as they paid it.
RefundedOnce ==
  \A w \in Wallets \ {Treasury}, amount \in Amounts :
    Cardinality(Paid(Treasury, w, amount)) <= Cardinality(Paid(w, Treasury, amount))

\* Only money that came from outside is sent back: a deposit that was swept is
\* not returned to the deposit wallet it was swept from.
SweepsStay ==
  \A s \in Sessions, amount \in Amounts : Paid(Treasury, s, amount) = {}
=============================================================================
