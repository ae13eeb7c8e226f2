-------------------------- MODULE RecurringTransfer --------------------------
(***************************************************************************)
(* One recurring transfer: the sweep of jobs/processRecurringTransfers.ts, *)
(* the execution of one cycle in lib/dca/execution.ts and the requests of  *)
(* lib/dca/service.ts that pause, resume and cancel it.                    *)
(*                                                                         *)
(* Dates are cycle numbers: computeNextExecutionDate is +1.  The clock is  *)
(* left out: the next cycle may fall due, and a PENDING row may be older   *)
(* than STALE_PENDING_MS and be taken over, at any time.  Sweeps may       *)
(* overlap (a repeatable job and an external cron, a slow sweep and the    *)
(* next) and each works from the transfer it listed.  A row of cycle       *)
(* executions is looked up and then created, with no unique constraint on  *)
(* its date.                                                               *)
(*                                                                         *)
(* A transfer to a person goes through sendPayment with a key made of the  *)
(* row's id (KeyedPayment).  One to a bucket of the same organization is   *)
(* one ledger transaction under a fresh reference, counted in row.made.    *)
(***************************************************************************)
EXTENDS KeyedPayment, Sequences

CONSTANTS
  Sweeps,      \* concurrent sweeps
  Clients,     \* concurrent requests of lib/dca/service.ts
  EndDate,     \* RecurringTransfer.endDate
  MaxDate,     \* bound: the last cycle that falls due
  MaxRows,     \* bound: execution rows
  MaxMishaps   \* bound: crashes and unexpected errors

VARIABLES
  plan,      \* the RecurringTransfer: status and nextExecutionDate
  internal,  \* is the destination a bucket of the organization?
  rows,      \* its RecurringTransferExecution rows, in order of creation
  sweep,     \* sweep[s]: what the sweep s does with the transfer
  client,    \* client[c]: the status change that c has checked
  skipped,   \* dates passed over after an unexpected error, which is logged
  mishaps    \* crashes and unexpected errors so far

recurringVars == <<plan, internal, rows, sweep, client, skipped, mishaps>>

ASSUME RecurringAssumption ==
  /\ EndDate \in Nat /\ MaxDate \in Nat /\ MaxRows \in Nat /\ MaxMishaps \in Nat

-----------------------------------------------------------------------------
IdleSweeper == [pc |-> "idle", date |-> 0, row |-> 0]

\* createRecurringTransfer: active, due on its start date.
RecurringInit ==
  /\ plan = [status |-> "ACTIVE", next |-> 1]
  /\ internal \in BOOLEAN
  /\ rows = << >>
  /\ sweep = [s \in Sweeps |-> IdleSweeper]
  /\ client = [c \in Clients |-> "none"]
  /\ skipped = {}
  /\ mishaps = 0

NewCycle(d) == [date |-> d, status |-> "PENDING", payment |-> Unpaid]

RowsFor(d) == {r \in DOMAIN rows : rows[r].date = d}

SweepTo(s, pc) == sweep' = [sweep EXCEPT ![s].pc = pc]

-----------------------------------------------------------------------------
\* The sweep lists the transfer: active and due.  Past its end it only retires.
List(s) ==
  /\ sweep[s].pc = "idle"
  /\ plan.status = "ACTIVE"
  /\ plan.next <= MaxDate
  /\ sweep' = [sweep EXCEPT ![s] =
       [pc |-> IF plan.next > EndDate THEN "retire" ELSE "find", date |-> plan.next, row |-> 0]]
  /\ UNCHANGED <<plan, internal, rows, client, skipped, mishaps>>

\* Mutant: the update names the transfer by its id only.
StillDue_ById(d) == TRUE

\* The guard of both updates of the schedule: still active and still at the
\* cycle that was handled.
StillDue(d) == plan.status = "ACTIVE" /\ plan.next = d

\* completeIfStillDue
Retire(s) ==
  /\ sweep[s].pc = "retire"
  /\ plan' = IF StillDue(sweep[s].date) THEN [plan EXCEPT !.status = "COMPLETED"] ELSE plan
  /\ sweep' = [sweep EXCEPT ![s] = IdleSweeper]
  /\ UNCHANGED <<internal, rows, client, skipped, mishaps>>

\* The newest row of the date: one that is decided, or PENDING and fresh, is
\* left alone; a PENDING one that is stale is taken over; without one a row is
\* made.
FindRow(s) ==
  LET found == RowsFor(sweep[s].date)
  IN  /\ sweep[s].pc = "find"
      /\ \/ found = {} /\ SweepTo(s, "create")
         \/ found # {} /\ SweepTo(s, "advance")
         \/ \E newest \in found :
              /\ \A r \in found : r <= newest
              /\ rows[newest].status = "PENDING"
              /\ sweep' = [sweep EXCEPT ![s].pc = "check", ![s].row = newest]
      /\ UNCHANGED <<plan, internal, rows, client, skipped, mishaps>>

CreateRow(s) ==
  /\ sweep[s].pc = "create"
  /\ Len(rows) < MaxRows
  /\ rows' = Append(rows, NewCycle(sweep[s].date))
  /\ sweep' = [sweep EXCEPT ![s].pc = "check", ![s].row = Len(rows) + 1]
  /\ UNCHANGED <<plan, internal, client, skipped, mishaps>>

\* The balance covers the cycle and the identifier resolves, or the row fails.
Check(s) ==
  /\ sweep[s].pc = "check"
  /\ \E pc \in {"failed", IF internal THEN "move" ELSE "next"} : SweepTo(s, pc)
  /\ UNCHANGED <<plan, internal, rows, client, skipped, mishaps>>

\* sendPayment, as KeyedPayment has it.
PayRow(s, from, outcomes) ==
  LET r == sweep[s].row
  IN  /\ sweep[s].pc = from
      /\ \E out \in outcomes :
           /\ rows' = [rows EXCEPT ![r].payment = out.payment]
           /\ SweepTo(s, out.pc)
      /\ UNCHANGED <<plan, internal, client, skipped, mishaps>>

Send(s) ==
  LET p == rows[sweep[s].row].payment
  IN  \/ PayRow(s, "next", Calls(p))
      \/ PayRow(s, "submit", Submits(p))
      \/ PayRow(s, "accepted", Answers(p))

\* transferBetweenLedgerAccounts, which commits or throws.
MovesInside(p) == {Outcome("sent", [p EXCEPT !.made = @ + 1]), Outcome("failed", p)}

MoveInside(s) == PayRow(s, "move", MovesInside(rows[sweep[s].row].payment))

\* markExecution: the last writer decides what the row says.
Mark(s) ==
  /\ sweep[s].pc \in {"sent", "failed"}
  /\ rows' = [rows EXCEPT ![sweep[s].row].status =
                IF sweep[s].pc = "sent" THEN "SUCCESS" ELSE "FAILED"]
  /\ SweepTo(s, "advance")
  /\ UNCHANGED <<plan, internal, client, skipped, mishaps>>

\* advanceOrComplete, whatever the outcome was.
Advance(s) ==
  LET d == sweep[s].date
  IN  /\ sweep[s].pc = "advance"
      /\ plan' = IF StillDue(d)
                 THEN [status |-> IF d + 1 > EndDate THEN "COMPLETED" ELSE plan.status,
                       next |-> d + 1]
                 ELSE plan
      /\ sweep' = [sweep EXCEPT ![s] = IdleSweeper]
      /\ UNCHANGED <<internal, rows, client, skipped, mishaps>>

\* The write of SUCCESS fails: the catch block marks the row FAILED instead.
MarkFails(s) ==
  /\ sweep[s].pc = "sent"
  /\ mishaps < MaxMishaps
  /\ mishaps' = mishaps + 1
  /\ SweepTo(s, "failed")
  /\ UNCHANGED <<plan, internal, rows, client, skipped>>

\* A database error outside the try blocks, or in the catch block too: logged,
\* and the schedule advances.
Unexpected(s) ==
  /\ sweep[s].pc \in {"find", "create", "check", "failed"}
  /\ mishaps < MaxMishaps
  /\ mishaps' = mishaps + 1
  /\ skipped' = skipped \cup {sweep[s].date}
  /\ SweepTo(s, "advance")
  /\ UNCHANGED <<plan, internal, rows, client>>

SweepDies(s) ==
  /\ sweep[s].pc # "idle"
  /\ mishaps < MaxMishaps
  /\ mishaps' = mishaps + 1
  /\ sweep' = [sweep EXCEPT ![s] = IdleSweeper]
  /\ UNCHANGED <<plan, internal, rows, client, skipped>>

-----------------------------------------------------------------------------
\* confirmFromMatch of the sweep of pending sends.
SweepRow(r) ==
  /\ Sweepable(rows[r].payment)
  /\ rows' = [rows EXCEPT ![r].payment = Confirmed(@)]
  /\ UNCHANGED <<plan, internal, sweep, client, skipped, mishaps>>

\* pause, resume and cancel: the status is checked ...
MayBecome(status) ==
  \/ status = "PAUSED" /\ plan.status = "ACTIVE"
  \/ status = "ACTIVE" /\ plan.status = "PAUSED"
  \/ status = "CANCELLED" /\ plan.status \notin {"CANCELLED", "COMPLETED"}

Ask(c, status) ==
  /\ client[c] = "none"
  /\ MayBecome(status)
  /\ client' = [client EXCEPT ![c] = status]
  /\ UNCHANGED <<plan, internal, rows, sweep, skipped, mishaps>>

\* ... and written, over whatever it has become since.
WriteStatusOf(c) ==
  /\ client[c] # "none"
  /\ plan' = [plan EXCEPT !.status = client[c]]
  /\ client' = [client EXCEPT ![c] = "none"]
  /\ UNCHANGED <<internal, rows, sweep, skipped, mishaps>>

-----------------------------------------------------------------------------
CycleStep(s) ==
  \/ List(s)
  \/ Retire(s)
  \/ FindRow(s)
  \/ CreateRow(s)
  \/ Check(s)
  \/ Send(s)
  \/ MoveInside(s)
  \/ Mark(s)
  \/ Advance(s)
  \/ MarkFails(s)
  \/ Unexpected(s)
  \/ SweepDies(s)

RecurringNext ==
  \/ \E s \in Sweeps : CycleStep(s)
  \/ \E r \in DOMAIN rows : SweepRow(r)
  \/ \E c \in Clients :
       (\E status \in {"PAUSED", "ACTIVE", "CANCELLED"} : Ask(c, status)) \/ WriteStatusOf(c)

RecurringSpec == RecurringInit /\ [][RecurringNext]_recurringVars

-----------------------------------------------------------------------------
RecurringTypeOK ==
  /\ plan \in [status : {"ACTIVE", "PAUSED", "CANCELLED", "COMPLETED"}, next : Nat]
  /\ internal \in BOOLEAN
  /\ rows \in Seq([date : Nat, status : {"PENDING", "SUCCESS", "FAILED"},
                   payment : [row : {"NONE", "CLAIMED", "FAILED", "CONFIRMED"},
                              made : Nat, lost : Nat]])
  /\ sweep \in [Sweeps ->
       [pc : {"idle", "retire", "find", "create", "check", "next", "submit", "accepted", "move",
              "sent", "failed", "advance"},
        date : Nat, row : Nat]]
  /\ \A s \in Sweeps :
       sweep[s].pc \in {"check", "next", "submit", "accepted", "move", "sent", "failed"} =>
         sweep[s].row \in DOMAIN rows
  /\ client \in [Clients -> {"none", "PAUSED", "ACTIVE", "CANCELLED"}]
  /\ skipped \subseteq Nat
  /\ mishaps \in Nat

\* One execution row pays a person again only if the answer to the payment
\* before was lost, although a stale PENDING row is taken over while its first
\* sweep may still be at the provider: "a genuinely in-flight Circle submission
\* can't be double-submitted".
RowPaidAgainOnlyIfLost ==
  ~internal => \A r \in DOMAIN rows : AgainOnlyIfLost(rows[r].payment)

\* A row that says SUCCESS has moved the money, whoever wrote it last.
SuccessWasPaid == \A r \in DOMAIN rows : rows[r].status = "SUCCESS" => rows[r].payment.made >= 1

\* nextExecutionDate moves one cycle at a time and only forward, only while
\* the transfer is active, and leaves no cycle behind without a row that
\* records what became of it, except after an unexpected error.
AdvancesOneCycle ==
  [][plan'.next # plan.next =>
       /\ plan.status = "ACTIVE"
       /\ plan'.next = plan.next + 1
       /\ RowsFor(plan.next) # {} \/ plan.next \in skipped]_recurringVars

=============================================================================
