--------------------------- MODULE InvoiceCheckout ---------------------------
(***************************************************************************)
(* Invoices from DRAFT to PAID or VOID (lib/invoices), the card checkouts  *)
(* of their payment links (lib/paymentLinks/checkout.ts and                *)
(* app/api/webhooks/circle-payments), direct payments matched to an        *)
(* invoice by amount (lib/transfers/receive.ts), and the overdue sweep     *)
(* (jobs/invoiceOverdue.worker.ts).                                        *)
(*                                                                         *)
(* A card payment settles as a transfer into the treasury wallet, so       *)
(* Circle reports the same money twice: to circle-payments, with the       *)
(* session it pays, and as an inbound transfer, without.  Either notice is *)
(* handled at any time, and any number of times.  A row of                 *)
(* OnchainTransaction has the notice's circleTransactionId and, when the   *)
(* notice names it, the transfer's txHash; both are unique, and a row is   *)
(* credited in the transaction that inserts it.                            *)
(*                                                                         *)
(* Requests and notices between two of their steps are members of sets     *)
(* (asking, viewing, settling, matching), so their number has no bound.  A *)
(* read stays in asking or viewing once it is written: another request may *)
(* have made the same.                                                     *)
(* Left out: wallet checkouts (PaymentLinkSettlement), pausing a link or   *)
(* its expiry by date, the delivery of mail.                               *)
(***************************************************************************)
EXTENDS Integers, Sequences, FiniteSets

CONSTANTS
  Invoices,
  Cards,         \* card checkouts, each with its payment and its transfer
  Directs,       \* transfers sent straight to the treasury's address
  Reminders,     \* concurrent overdue sweeps
  InvoiceOf,     \* InvoiceOf[c]: the invoice whose link c is opened on
  Total,         \* Total[i]: amount of i
  Received,      \* Received[x]: amount that arrives with x
  NoticeHashes,  \* whether a notice may carry, or lack, the transfer's txHash
  Milestones,    \* bound: how many of REMINDER_MILESTONE_DAYS pass
  MaxSweeps,     \* bound: overdue sweeps
  NoPayment      \* no row

VARIABLES
  invoice,   \* invoice[i]: status, paidTxId and reminderCount
  linkUses,  \* linkUses[i]: useCount of the invoice's link, which has maxUses 1
  session,   \* session[c]: status of the checkout, and whether Circle hosts it
  outcome,   \* outcome[c]: what became of the card payment at Circle
  arrived,   \* transfers that reached the treasury
  onchain,   \* OnchainTransaction rows, each with its credit
  settling,  \* rows that circle-payments notices are about to insert
  matching,  \* inbound transactions that have their row and did not commit
  viewing,   \* invoices that a page view has found SENT
  asking,    \* sends and voids that have read their invoice
  reminder,  \* reminder[s]: what the overdue sweep s has listed
  mailed,    \* mailed[i]: the milestones mailed, in order
  milestone, \* reminder milestones that have passed since the due date
  sweeps     \* overdue sweeps so far

checkoutVars == <<invoice, linkUses, session, outcome, arrived, onchain, settling, matching,
                  viewing, asking, reminder, mailed, milestone, sweeps>>

ASSUME CheckoutAssumption ==
  /\ InvoiceOf \in [Cards -> Invoices] /\ Cards \cap Directs = {}
  /\ Total \in [Invoices -> Nat] /\ Received \in [Cards \cup Directs -> Nat]
  /\ NoticeHashes \subseteq BOOLEAN
  /\ Milestones \in Nat /\ MaxSweeps \in Nat

Moneys == Cards \cup Directs

\* What the issuer still expects money for (reconcileInboundPaymentAgainstInvoices).
Open == {"SENT", "VIEWED", "OVERDUE"}

CheckoutRow == [by : {"card", "inbound"}, of : Moneys, hash : BOOLEAN]

CardRow(c, hash) == [by |-> "card", of |-> c, hash |-> hash]

InboundRow(x, hash) == [by |-> "inbound", of |-> x, hash |-> hash]

\* Mutant: the row of a card payment is stored without its txHash.
SameKey_IdOnly(q, r) == q.of = r.of /\ q.by = r.by

\* Two rows collide on circleTransactionId or on txHash.
SameKey(q, r) == q.of = r.of /\ (q.by = r.by \/ (q.hash /\ r.hash))

Collides(r) == \E q \in onchain : SameKey(q, r)

-----------------------------------------------------------------------------
NoReminder == [pc |-> "idle", now |-> 0, listed |-> [i \in {} |-> 0]]

CheckoutInit ==
  /\ invoice = [i \in Invoices |-> [status |-> "DRAFT", paidTx |-> NoPayment, reminders |-> 0]]
  /\ linkUses = [i \in Invoices |-> 0]
  /\ session = [c \in Cards |-> [status |-> "NONE", hosted |-> FALSE]]
  /\ outcome = [c \in Cards |-> "none"]
  /\ arrived = {} /\ onchain = {} /\ settling = {} /\ matching = {}
  /\ viewing = {} /\ asking = {}
  /\ reminder = [s \in Reminders |-> NoReminder]
  /\ mailed = [i \in Invoices |-> <<>>]
  /\ milestone = 0 /\ sweeps = 0

\* markInvoicePaid: a plain update, whatever the invoice has become.
PaidWith(i, r) == [invoice EXCEPT ![i].status = "PAID", ![i].paidTx = r]

-----------------------------------------------------------------------------
(* The issuer and the visitors of the public page.  A send and a void read *)
(* the invoice first and update it by id afterwards.                       *)

IssuerReads(what, i) ==
  /\ IF what = "SENT" THEN invoice[i].status = "DRAFT"
     ELSE invoice[i].status \notin {"PAID", "VOID"}
  /\ asking' = asking \cup {<<what, i>>}
  /\ UNCHANGED <<invoice, linkUses, session, outcome, arrived, onchain, settling, matching,
                 viewing, reminder, mailed, milestone, sweeps>>

IssuerWrites(what, i) ==
  /\ <<what, i>> \in asking
  /\ invoice' = [invoice EXCEPT ![i].status = what]
  /\ UNCHANGED <<linkUses, session, outcome, arrived, onchain, settling, matching, viewing,
                 asking, reminder, mailed, milestone, sweeps>>

\* recordInvoiceViewed; a view that finds another status only logs its event.
View(i) ==
  /\ invoice[i].status = "SENT"
  /\ viewing' = viewing \cup {i}
  /\ UNCHANGED <<invoice, linkUses, session, outcome, arrived, onchain, settling, matching,
                 asking, reminder, mailed, milestone, sweeps>>

MarkViewed(i) ==
  /\ i \in viewing
  /\ invoice' = [invoice EXCEPT ![i].status = "VIEWED"]
  /\ UNCHANGED <<linkUses, session, outcome, arrived, onchain, settling, matching, viewing,
                 asking, reminder, mailed, milestone, sweeps>>

-----------------------------------------------------------------------------
(* Payers, and Circle.  External: a hosted payment ends paid or failed.    *)

\* startCardCheckout checks the link; nothing reserves its one use.
StartCheckout(c) ==
  /\ session[c].status = "NONE"
  /\ linkUses[InvoiceOf[c]] < 1
  /\ session' = [session EXCEPT ![c].status = "PENDING"]
  /\ UNCHANGED <<invoice, linkUses, outcome, arrived, onchain, settling, matching, viewing,
                 asking, reminder, mailed, milestone, sweeps>>

\* createHostedCardPayment answers, or the checkout is FAILED.
HostCheckout(c) ==
  /\ session[c] = [status |-> "PENDING", hosted |-> FALSE]
  /\ \/ session' = [session EXCEPT ![c].hosted = TRUE]
     \/ session' = [session EXCEPT ![c].status = "FAILED"]
  /\ UNCHANGED <<invoice, linkUses, outcome, arrived, onchain, settling, matching, viewing,
                 asking, reminder, mailed, milestone, sweeps>>

PayByCard(c) ==
  /\ session[c].hosted /\ outcome[c] = "none"
  /\ \/ outcome' = [outcome EXCEPT ![c] = "paid"] /\ arrived' = arrived \cup {c}
     \/ outcome' = [outcome EXCEPT ![c] = "failed"] /\ UNCHANGED arrived
  /\ UNCHANGED <<invoice, linkUses, session, onchain, settling, matching, viewing, asking,
                 reminder, mailed, milestone, sweeps>>

PayDirectly(x) ==
  /\ x \notin arrived
  /\ arrived' = arrived \cup {x}
  /\ UNCHANGED <<invoice, linkUses, session, outcome, onchain, settling, matching, viewing,
                 asking, reminder, mailed, milestone, sweeps>>

-----------------------------------------------------------------------------
(* The circle-payments webhook (processPaymentEvent). *)

CardRefused(c) ==
  /\ outcome[c] = "failed" /\ session[c].status = "PENDING"
  /\ session' = [session EXCEPT ![c].status = "FAILED"]
  /\ UNCHANGED <<invoice, linkUses, outcome, arrived, onchain, settling, matching, viewing,
                 asking, reminder, mailed, milestone, sweeps>>

\* The early returns: the money has a row already, or the session is resolved.
CardPaid(c) ==
  /\ outcome[c] = "paid" /\ session[c].status = "PENDING"
  /\ \E hash \in NoticeHashes :
       /\ ~Collides(CardRow(c, hash))
       /\ settling' = settling \cup {CardRow(c, hash)}
  /\ UNCHANGED <<invoice, linkUses, session, outcome, arrived, onchain, matching, viewing,
                 asking, reminder, mailed, milestone, sweeps>>

\* Mutant: the claim commits on its own, before the row is inserted.
ClaimKept_Always(r) == TRUE

\* The transaction keeps its claim of the session only if it can insert the row.
ClaimKept(r) == ~Collides(r)

\* The insert waits for an uncommitted row with the same key.  A collision
\* aborts the transaction, the claim included.
SettleCard(r) ==
  LET c == r.of
      i == InvoiceOf[c]
      claims == session[c].status = "PENDING"
  IN  /\ r \in settling
      /\ ~\E m \in matching : SameKey(m.row, r)
      /\ session' = IF claims /\ ClaimKept(r)
                    THEN [session EXCEPT ![c].status = "CONFIRMED"] ELSE session
      /\ IF claims /\ ~Collides(r)
         THEN /\ onchain' = onchain \cup {r}
              /\ linkUses' = [linkUses EXCEPT ![i] = linkUses[i] + 1]
              /\ invoice' = PaidWith(i, r)
         ELSE UNCHANGED <<onchain, linkUses, invoice>>
      /\ settling' = settling \ {r}
      /\ UNCHANGED <<outcome, arrived, matching, viewing, asking, reminder, mailed,
                     milestone, sweeps>>

-----------------------------------------------------------------------------
(* handleInboundTransfer, in one transaction: insert the row, credit the   *)
(* default bucket, match the amount against the open invoices.             *)

\* The row under the id of x's inbound notice, or else the one to insert: a
\* delivery that looked for the row before it was there repeats the match.
RowFor(x) ==
  LET known == {q \in onchain : q.by = "inbound" /\ q.of = x}
  IN  IF known # {} THEN known
      ELSE {r \in {InboundRow(x, hash) : hash \in NoticeHashes} : ~Collides(r)}

BeginMatch(x) ==
  /\ x \in arrived
  /\ ~\E m \in matching : m.row.of = x
  /\ \E r \in RowFor(x) : matching' = matching \cup
       {[row |-> r, found |-> {i \in Invoices : invoice[i].status \in Open /\ Total[i] = Received[x]}]}
  /\ UNCHANGED <<invoice, linkUses, session, outcome, arrived, onchain, settling, viewing,
                 asking, reminder, mailed, milestone, sweeps>>

\* Several candidates are left to the issuer; paidTxId is unique.
CommitMatch(m) ==
  LET r == m.row
  IN  /\ m \in matching
      /\ matching' = matching \ {m}
      /\ onchain' = onchain \cup {r}
      /\ IF Cardinality(m.found) = 1
         THEN \E i \in m.found :
                /\ \A j \in Invoices \ {i} : invoice[j].paidTx # r
                /\ invoice' = PaidWith(i, r)
         ELSE UNCHANGED invoice
      /\ UNCHANGED <<linkUses, session, outcome, arrived, settling, viewing, asking, reminder,
                     mailed, milestone, sweeps>>

\* The process dies, or the transaction fails otherwise; the notice comes again.
AbortMatch(m) ==
  /\ m \in matching
  /\ matching' = matching \ {m}
  /\ UNCHANGED <<invoice, linkUses, session, outcome, arrived, onchain, settling, viewing,
                 asking, reminder, mailed, milestone, sweeps>>

-----------------------------------------------------------------------------
(* The daily sweep (runInvoiceOverdueSweep). *)

DayPasses ==
  /\ milestone < Milestones
  /\ milestone' = milestone + 1
  /\ UNCHANGED <<invoice, linkUses, session, outcome, arrived, onchain, settling, matching,
                 viewing, asking, reminder, mailed, sweeps>>

Overdue(i) == milestone > 0 /\ invoice[i].status \in {"SENT", "VIEWED"}

Flip(s) ==
  /\ reminder[s].pc = "idle" /\ sweeps < MaxSweeps
  /\ sweeps' = sweeps + 1
  /\ reminder' = [reminder EXCEPT ![s].pc = "list", ![s].now = milestone]
  /\ invoice' = [i \in Invoices |->
       IF Overdue(i) THEN [invoice[i] EXCEPT !.status = "OVERDUE"] ELSE invoice[i]]
  /\ UNCHANGED <<linkUses, session, outcome, arrived, onchain, settling, matching, viewing,
                 asking, mailed, milestone>>

ListOverdue(s) ==
  /\ reminder[s].pc = "list"
  /\ reminder' = [reminder EXCEPT ![s].pc = "mail",
       ![s].listed = [i \in {j \in Invoices : invoice[j].status = "OVERDUE"
                                  /\ invoice[j].reminders < Milestones} |-> invoice[i].reminders]]
  /\ UNCHANGED <<invoice, linkUses, session, outcome, arrived, onchain, settling, matching,
                 viewing, asking, mailed, milestone, sweeps>>

\* Takes the invoice i off the list of s.
Without(s, i) ==
  [j \in DOMAIN reminder[s].listed \ {i} |-> reminder[s].listed[j]]

\* Mails the next milestone if its day has come, and then counts it: the
\* count may fail, and the milestone is mailed again by the next sweep.
Remind(s, i) ==
  LET next == reminder[s].listed[i]
  IN  /\ reminder[s].pc = "mail" /\ i \in DOMAIN reminder[s].listed
      /\ reminder' = [reminder EXCEPT ![s].listed = Without(s, i)]
      /\ IF reminder[s].now > next
         THEN /\ mailed' = [mailed EXCEPT ![i] = Append(mailed[i], next)]
              /\ invoice' \in {invoice,
                    [invoice EXCEPT ![i].reminders = invoice[i].reminders + 1]}
         ELSE UNCHANGED <<mailed, invoice>>
      /\ UNCHANGED <<linkUses, session, outcome, arrived, onchain, settling, matching, viewing,
                     asking, milestone, sweeps>>

\* The list is worked off, or the process dies.
SweepEnds(s) ==
  /\ reminder[s].pc = "mail"
  /\ reminder' = [reminder EXCEPT ![s] = NoReminder]
  /\ UNCHANGED <<invoice, linkUses, session, outcome, arrived, onchain, settling, matching,
                 viewing, asking, mailed, milestone, sweeps>>

-----------------------------------------------------------------------------
IssuerStep ==
  \E i \in Invoices :
    \/ \E what \in {"SENT", "VOID"} : IssuerReads(what, i) \/ IssuerWrites(what, i)
    \/ View(i) \/ MarkViewed(i)

CustomerStep ==
  \/ \E c \in Cards : StartCheckout(c) \/ HostCheckout(c) \/ PayByCard(c)
  \/ \E x \in Directs : PayDirectly(x)

NoticeStep ==
  \/ \E c \in Cards : CardRefused(c) \/ CardPaid(c)
  \/ \E r \in settling : SettleCard(r)
  \/ \E x \in Moneys : BeginMatch(x)
  \/ \E m \in matching : CommitMatch(m) \/ AbortMatch(m)

OverdueStep ==
  \/ DayPasses
  \/ \E s \in Reminders :
       \/ Flip(s) \/ ListOverdue(s) \/ SweepEnds(s)
       \/ \E i \in Invoices : Remind(s, i)

CheckoutNext == IssuerStep \/ CustomerStep \/ NoticeStep \/ OverdueStep

CheckoutSpec == CheckoutInit /\ [][CheckoutNext]_checkoutVars

-----------------------------------------------------------------------------
\* Money that arrives is credited again only by the other webhook, and only if
\* one of the two notices lacked its txHash: however often, in which order and
\* with or without the hash each is delivered (circle-payments/route.ts 217-229
\* against receive.ts 98-175).
SecondCreditUnhashed ==
  \A q, r \in onchain : q.of = r.of /\ q # r => q.by # r.by /\ ~(q.hash /\ r.hash)

\* A checkout is CONFIRMED exactly when its card payment has been credited by
\* the notice that names it, so a claim that could not insert its row has not
\* outlived its transaction (circle-payments/route.ts 255-316).
CheckoutBacked ==
  \A c \in Cards :
    session[c].status = "CONFIRMED" <=> \E r \in onchain : r.by = "card" /\ r.of = c

\* service.ts 297-298 says of a page view: "only ever forward - never
\* downgrades PAID/OVERDUE/VOID back to VIEWED".
NeverDowngraded ==
  [][\A i \in Invoices :
       invoice[i].status \in {"PAID", "OVERDUE", "VOID"} => invoice'[i].status # "VIEWED"]_checkoutVars

\* invoiceOverdue.worker.ts 5-7 says of a sweep that "double-fires": it "never
\* sends a milestone twice".
RemindedOnce ==
  \A i \in Invoices : \A m, n \in DOMAIN mailed[i] : mailed[i][m] = mailed[i][n] => m = n
=============================================================================
