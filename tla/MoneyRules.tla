----------------------------- MODULE MoneyRules -----------------------------
(***************************************************************************)
(* The standing rules of one source bucket: allocation rules               *)
(* (lib/allocationRules/engine.ts) and savings rules (lib/savings/sweep.ts)*)
(* as they are run after an inbound transfer has been credited             *)
(* (lib/transfers/receive.ts), after an outbound one has been debited, and *)
(* by the daily worker.                                                    *)
(*                                                                         *)
(* An allocation moves money and logs it in one transaction.  A savings    *)
(* sweep reads the balance, clamps what it takes to the bucket's floor,    *)
(* transfers, and logs, in four steps.  What a rule asks for (a share of   *)
(* the payment, a fixed amount, what rounds a payment up) is any of Asked. *)
(* Deploying what was swept is YieldRedemption's.                          *)
(***************************************************************************)
EXTENDS Integers, FiniteSetsExt

CONSTANTS
  Transfers,   \* inbound transfers, each of one amount
  Handlers,    \* deliveries of their webhooks, payers, and daily workers
  Inflow,      \* Inflow[t]: amount of the transfer
  Asked,       \* amounts a rule may ask for, and a payer may pay
  Floor,       \* minimumBalanceFloor of the source bucket
  MaxDays,     \* bound: days on which the scheduled rule falls due
  MaxPayments, \* bound: outbound payments
  MaxErrors,   \* bound: crashes and errors
  NoTransfer   \* no transfer

VARIABLES
  known,      \* transfers with an OnchainTransaction row, credited with it
  source,     \* balance of the source bucket
  saved,      \* total swept to the savings bucket
  due,        \* is the scheduled savings rule due (lastExecutedAt)?
  runner,     \* runner[h]: what h is doing
  days,       \* days so far
  payments,   \* outbound payments so far
  spent,      \* what payments and allocations took out of the source bucket
  errors      \* crashes and errors so far

rulesVars == <<known, source, saved, due, runner, days, payments, spent, errors>>

ASSUME RulesAssumption ==
  /\ Inflow \in [Transfers -> Nat \ {0}] /\ NoTransfer \notin Transfers
  /\ Asked \subseteq Nat \ {0} /\ Floor \in Nat
  /\ MaxDays \in Nat /\ MaxPayments \in Nat /\ MaxErrors \in Nat

-----------------------------------------------------------------------------
NoRun == [pc |-> "idle", transfer |-> NoTransfer, amount |-> 0, scheduled |-> FALSE]

RulesInit ==
  /\ known = {}
  /\ source = Floor
  /\ saved = 0
  /\ due = FALSE
  /\ runner = [h \in Handlers |-> NoRun]
  /\ days = 0
  /\ payments = 0
  /\ spent = 0
  /\ errors = 0

Runs(h, pc) == runner[h].pc = pc

-----------------------------------------------------------------------------
(* handleInboundTransfer *)

\* A transfer that has a row was handled: a redelivered webhook does nothing.
Receive(h, t) ==
  /\ Runs(h, "idle")
  /\ t \notin known
  /\ runner' = [runner EXCEPT ![h].pc = "commit", ![h].transfer = t]
  /\ UNCHANGED <<known, source, saved, due, days, payments, spent, errors>>

\* Mutant: a row that was found is credited again.
Credited_Again(t) == source + Inflow[t]

\* The bucket after the credit of t: a row made meanwhile has its entry.
Credited(t) == IF t \in known THEN source ELSE source + Inflow[t]

\* The row and its credit; either way the rules run.
CommitCredit(h) ==
  LET t == runner[h].transfer
  IN  /\ Runs(h, "commit")
      /\ known' = known \cup {t}
      /\ source' = Credited(t)
      /\ runner' = [runner EXCEPT ![h].pc = "allocate"]
      /\ UNCHANGED <<saved, due, days, payments, spent, errors>>

\* Made while this transaction was open: the unique index aborts it.
AbortCredit(h) ==
  /\ Runs(h, "commit")
  /\ runner[h].transfer \in known
  /\ runner' = [runner EXCEPT ![h] = NoRun]
  /\ UNCHANGED <<known, source, saved, due, days, payments, spent, errors>>

-----------------------------------------------------------------------------
\* executeSingleRule of an allocation rule: transfer, lastExecutedAt and log
\* in one transaction.
Allocate(h) ==
  /\ Runs(h, "allocate")
  /\ \E n \in Asked :
       /\ n <= source
       /\ source' = source - n
       /\ spent' = spent + n
  /\ runner' = [runner EXCEPT ![h].pc = "read"]
  /\ UNCHANGED <<known, saved, due, days, payments, errors>>

\* Nothing to move, too little in the bucket, or no rule: the savings follow.
SkipAllocation(h) ==
  /\ Runs(h, "allocate")
  /\ runner' = [runner EXCEPT ![h].pc = "read"]
  /\ UNCHANGED <<known, source, saved, due, days, payments, spent, errors>>

-----------------------------------------------------------------------------
(* executeSingleRule of a savings rule. *)

\* computeFloorConstrainedAmount
Constrained(balance, n) == Max({0, Min({n, balance - Floor})})

\* getBalance, outside any transaction; nothing above the floor ends the rule.
ReadBalance(h) ==
  /\ Runs(h, "read")
  /\ \E n \in Asked :
       LET amount == Constrained(source, n)
       IN  runner' = [runner EXCEPT ![h] =
             IF amount = 0 THEN NoRun
             ELSE [@ EXCEPT !.pc = "sweep", !.amount = amount]]
  /\ UNCHANGED <<known, source, saved, due, days, payments, spent, errors>>

\* transferBetweenLedgerAccounts refuses what the bucket no longer holds.
SweepToSavings(h) ==
  LET n == runner[h].amount
  IN  /\ Runs(h, "sweep")
      /\ IF n <= source
         THEN /\ source' = source - n
              /\ saved' = saved + n
              /\ runner' = [runner EXCEPT ![h].pc = "stamp"]
         ELSE /\ runner' = [runner EXCEPT ![h] = NoRun]
              /\ UNCHANGED <<source, saved>>
      /\ UNCHANGED <<known, due, days, payments, spent, errors>>

\* lastExecutedAt
Stamp(h) ==
  /\ Runs(h, "stamp")
  /\ due' = IF runner[h].scheduled THEN FALSE ELSE due
  /\ runner' = [runner EXCEPT ![h] = NoRun]
  /\ UNCHANGED <<known, source, saved, days, payments, spent, errors>>

\* The process dies or a query fails: whatever was left to do is not done, and
\* only a transfer without a row is delivered again.
RunEnds(h) ==
  /\ ~Runs(h, "idle")
  /\ errors < MaxErrors
  /\ errors' = errors + 1
  /\ runner' = [runner EXCEPT ![h] = NoRun]
  /\ UNCHANGED <<known, source, saved, due, days, payments, spent>>

-----------------------------------------------------------------------------
\* sendPayment debits the bucket and runs the ROUND_UP rules.
PayOut(h, n) ==
  /\ Runs(h, "idle")
  /\ payments < MaxPayments
  /\ n <= source
  /\ payments' = payments + 1
  /\ source' = source - n
  /\ spent' = spent + n
  /\ runner' = [runner EXCEPT ![h] = [NoRun EXCEPT !.pc = "read"]]
  /\ UNCHANGED <<known, saved, due, days, errors>>

\* runScheduledSavingsRules lists the rule when it is due.
ListDueRule(h) ==
  /\ Runs(h, "idle")
  /\ due
  /\ runner' = [runner EXCEPT ![h] = [NoRun EXCEPT !.pc = "read", !.scheduled = TRUE]]
  /\ UNCHANGED <<known, source, saved, due, days, payments, spent, errors>>

NextDay ==
  /\ days < MaxDays
  /\ days' = days + 1
  /\ due' = TRUE
  /\ UNCHANGED <<known, source, saved, runner, payments, spent, errors>>

-----------------------------------------------------------------------------
RuleStep(h) ==
  \/ \E t \in Transfers : Receive(h, t)
  \/ CommitCredit(h)
  \/ AbortCredit(h)
  \/ Allocate(h)
  \/ SkipAllocation(h)
  \/ ReadBalance(h)
  \/ SweepToSavings(h)
  \/ Stamp(h)
  \/ RunEnds(h)
  \/ \E n \in Asked : PayOut(h, n)
  \/ ListDueRule(h)

RulesNext == NextDay \/ \E h \in Handlers : RuleStep(h)

RulesSpec == RulesInit /\ [][RulesNext]_rulesVars

-----------------------------------------------------------------------------
RulesTypeOK ==
  /\ known \subseteq Transfers
  /\ source \in Nat /\ saved \in Nat
  /\ due \in BOOLEAN
  /\ runner \in [Handlers ->
       [pc : {"idle", "commit", "allocate", "read", "sweep", "stamp"},
        transfer : Transfers \cup {NoTransfer}, amount : Nat, scheduled : BOOLEAN]]
  /\ days \in Nat /\ payments \in Nat /\ spent \in Nat /\ errors \in Nat

\* Whatever deliveries of one notice overlap, and wherever they and the rules
\* stop, the buckets hold what came in once and nothing else: each transfer is
\* credited once, and no sweep or allocation makes or loses money
\* (receive.ts 22-25 and 236-256).
MoneyAccounted ==
  source + saved + spent = Floor + MapThenSumSet(LAMBDA t : Inflow[t], known)

\* "The SOURCE bucket's balance never drops below minimumBalanceFloor"
\* (lib/savings/sweep.ts:30-36) by a sweep.
SweepsKeepFloor ==
  [][saved' > saved => source' >= Floor]_rulesVars

=============================================================================
