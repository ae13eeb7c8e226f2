----------------------------- MODULE PayrollRun -----------------------------
(***************************************************************************)
(* One payroll run: lib/payroll/runs.ts (drafting and the approval gate),  *)
(* jobs/executePayroll.ts (its execution, item by item, and the retry of   *)
(* one item) and lib/payroll/completion.ts (the hook that mirrors a        *)
(* confirmed payment back onto its item).                                  *)
(*                                                                         *)
(* Nothing here compares and swaps.  An editor reads the run's status and  *)
(* writes later, so two of them overwrite each other; a job executes the   *)
(* items it read when it started, and several jobs, retries and the sweep  *)
(* of pending sends (SendPayment) run at once.  What stands between an     *)
(* item and a second payment is the claim sendPayment makes of the row     *)
(* keyed payroll-item-<id>: payment[i], whose steps are KeyedPayment's.  A *)
(* lost answer of the provider gives that claim back: the item is FAILED,  *)
(* and the job or the retry that executes it again pays it again.          *)
(***************************************************************************)
EXTENDS KeyedPayment

CONSTANTS
  Items,        \* PayrollRunItem rows that are or may be on the run
  Flagged,      \* those whose payee could not be resolved: identifierIssue
  JobWorkers,   \* concurrent executions of the queued job
  Retriers,     \* concurrent calls of retryPayrollRunItem
  Editors,      \* concurrent requests of runs.ts
  MaxEdits,     \* bound: requests of runs.ts
  MaxJobs,      \* bound: jobs in the queue
  MaxFaults,    \* bound: crashes and writes that fail
  NoItem        \* no item

VARIABLES
  run,       \* PayrollRun.status; DELETED once the row is gone
  item,      \* item[i]: PayrollRunItem.status; ABSENT before, REMOVED after
  payment,   \* payment[i]: the payment keyed payroll-item-<i>
  jobs,      \* jobs in the queue
  stranded,  \* an approved run whose job could not be queued
  worker,    \* worker[w]: the execution or the retry that w runs
  editor,    \* editor[e]: the request of runs.ts that e runs
  hook,      \* hook[i]: stages of completion hooks under way for i
  approved,  \* items the last approver saw
  tried,     \* items sendPayment was called for
  reopened,  \* a late write took the run out of PROCESSING or COMPLETED
  edits,     \* requests of runs.ts so far
  faults     \* crashes and failed writes so far

payrollVars == <<run, item, payment, jobs, stranded, worker, editor,
                 hook, approved, tried, reopened, edits, faults>>

Payers == JobWorkers \cup Retriers

ASSUME PayrollAssumption ==
  /\ Flagged \subseteq Items /\ NoItem \notin Items
  /\ JobWorkers \cap Retriers = {}
  /\ MaxEdits \in Nat /\ MaxJobs \in Nat /\ MaxFaults \in Nat

-----------------------------------------------------------------------------
IdlePayer == [pc |-> "idle", item |-> NoItem, todo |-> {}]

IdleEditor == [op |-> "none", item |-> NoItem, seen |-> {}]

OnRun == {i \in Items : item[i] \notin {"ABSENT", "REMOVED"}}

\* createManualRun or generateDraftRunFromSchedule has made the draft.
PayrollInit ==
  /\ run = "DRAFT"
  /\ item \in [Items -> {"ABSENT", "PENDING"}]
  /\ payment = [i \in Items |-> Unpaid]
  /\ jobs = 0
  /\ stranded = FALSE
  /\ worker = [w \in Payers |-> IdlePayer]
  /\ editor = [e \in Editors |-> IdleEditor]
  /\ hook = [i \in Items |-> {}]
  /\ approved = {}
  /\ tried = {}
  /\ reopened = FALSE
  /\ edits = 0
  /\ faults = 0

-----------------------------------------------------------------------------
(* Requests of runs.ts: what was read and checked, then the write. *)

\* assertDraft and the checks on the items.  A new item is a new row.
EditAllowed(op, i) ==
  \/ /\ op = "add" /\ run = "DRAFT" /\ i \in Items /\ item[i] = "ABSENT"
     /\ \A e \in Editors : editor[e].item # i
  \/ op = "remove" /\ run = "DRAFT" /\ i \in OnRun
  \/ op = "delete" /\ run = "DRAFT" /\ i = NoItem
  \/ op = "submit" /\ run = "DRAFT" /\ OnRun # {} /\ i = NoItem
  \/ op = "return" /\ run = "PENDING_APPROVAL" /\ i = NoItem
  \/ op = "approve" /\ run = "PENDING_APPROVAL" /\ OnRun \cap Flagged = {} /\ i = NoItem

EditOps == {"add", "remove", "delete", "submit", "return", "approve"}

ReadRun(e, op, i) ==
  /\ editor[e].op = "none"
  /\ edits < MaxEdits
  /\ EditAllowed(op, i)
  /\ editor' = [editor EXCEPT ![e] = [op |-> op, item |-> i, seen |-> OnRun]]
  /\ edits' = edits + 1
  /\ UNCHANGED <<run, item, payment, jobs, stranded, worker, hook,
                 approved, tried, reopened, faults>>

\* addRunItem and removeRunItem; the row of a deleted run is refused.
WriteItem(e) ==
  LET i == editor[e].item
  IN  /\ \/ /\ editor[e].op = "add"
            /\ item' = IF run = "DELETED" THEN item ELSE [item EXCEPT ![i] = "PENDING"]
         \/ /\ editor[e].op = "remove"
            /\ item' = [item EXCEPT ![i] = "REMOVED"]
      /\ editor' = [editor EXCEPT ![e] = IdleEditor]
      /\ UNCHANGED <<run, payment, jobs, stranded, worker, hook, approved,
                     tried, reopened, edits, faults>>

\* submitRunForApproval, returnRunToDraft and deleteDraftRun write whatever
\* the run has become since; deleting it takes its items along.
WriteStatus(e) ==
  /\ \/ /\ editor[e].op = "submit"
        /\ run' = IF run = "DELETED" THEN run ELSE "PENDING_APPROVAL"
        /\ UNCHANGED item
     \/ /\ editor[e].op = "return"
        /\ run' = IF run = "DELETED" THEN run ELSE "DRAFT"
        /\ UNCHANGED item
     \/ /\ editor[e].op = "delete"
        /\ run' = "DELETED"
        /\ item' = [i \in Items |-> IF i \in OnRun THEN "REMOVED" ELSE item[i]]
  /\ reopened' = (reopened \/ run \in {"PROCESSING", "COMPLETED"})
  /\ editor' = [editor EXCEPT ![e] = IdleEditor]
  /\ UNCHANGED <<payment, jobs, stranded, worker, hook, approved, tried, edits, faults>>

\* approveRun: the balance covers the total (or nothing is written).
Approve(e) ==
  /\ editor[e].op = "approve"
  /\ IF run = "DELETED"
     THEN UNCHANGED <<run, approved>> /\ editor' = [editor EXCEPT ![e] = IdleEditor]
     ELSE /\ run' = "PROCESSING"
          /\ approved' = editor[e].seen
          /\ editor' = [editor EXCEPT ![e] = [IdleEditor EXCEPT !.op = "enqueue"]]
  /\ UNCHANGED <<item, payment, jobs, stranded, worker, hook, tried, reopened, edits, faults>>

InsufficientBalance(e) ==
  /\ editor[e].op = "approve"
  /\ editor' = [editor EXCEPT ![e] = IdleEditor]
  /\ UNCHANGED <<run, item, payment, jobs, stranded, worker, hook, approved,
                 tried, reopened, edits, faults>>

\* enqueueExecution; a failure, which is logged, or a crash leaves the run
\* PROCESSING without a job.
Enqueue(e) ==
  /\ editor[e].op = "enqueue"
  /\ \/ jobs < MaxJobs /\ jobs' = jobs + 1 /\ UNCHANGED stranded
     \/ stranded' = TRUE /\ UNCHANGED jobs
  /\ editor' = [editor EXCEPT ![e] = IdleEditor]
  /\ UNCHANGED <<run, item, payment, worker, hook, approved, tried, reopened, edits, faults>>

\* The operator's remedy the log line asks for.
Recover ==
  /\ stranded
  /\ jobs < MaxJobs
  /\ jobs' = jobs + 1
  /\ stranded' = FALSE
  /\ UNCHANGED <<run, item, payment, worker, editor, hook, approved, tried,
                 reopened, edits, faults>>

-----------------------------------------------------------------------------
(* executePayrollRun and retryPayrollRunItem. *)

\* A FAILED item is executed again: only SENT and CONFIRMED ones are skipped.
Executable(i) == i \notin Flagged /\ item[i] \notin {"SENT", "CONFIRMED"}

\* Reads the run and its items once; a run that is not PROCESSING ends the job.
Load(w) ==
  /\ worker[w].pc = "idle"
  /\ jobs > 0
  /\ jobs' = jobs - 1
  /\ worker' = IF run = "PROCESSING"
               THEN [worker EXCEPT ![w].pc = "next", ![w].todo = {i \in OnRun : Executable(i)}]
               ELSE worker
  /\ UNCHANGED <<run, item, payment, stranded, editor, hook, approved, tried,
                 reopened, edits, faults>>

\* retryPayrollRunItem reads one FAILED item ...
Retry(w, i) ==
  /\ worker[w].pc = "idle"
  /\ run \in {"PROCESSING", "COMPLETED"}
  /\ item[i] = "FAILED"
  /\ i \notin Flagged
  /\ worker' = [worker EXCEPT ![w].pc = "reset", ![w].item = i]
  /\ UNCHANGED <<run, item, payment, jobs, stranded, editor, hook, approved,
                 tried, reopened, edits, faults>>

\* ... and puts it back to PENDING, whatever it has become.
Reset(w) ==
  LET i == worker[w].item
  IN  /\ worker[w].pc = "reset"
      /\ IF i \in OnRun
         THEN /\ item' = [item EXCEPT ![i] = "PENDING"]
              /\ worker' = [worker EXCEPT ![w] = [IdlePayer EXCEPT !.pc = "next", !.todo = {i}]]
         ELSE UNCHANGED item /\ worker' = [worker EXCEPT ![w] = IdlePayer]
      /\ UNCHANGED <<run, payment, jobs, stranded, editor, hook, approved, tried,
                     reopened, edits, faults>>

\* The payer's part of sendPayment, in three steps.
Pay(w, i, from, outcomes) ==
  /\ worker[w].pc = from
  /\ \E out \in outcomes :
       /\ payment' = [payment EXCEPT ![i] = out.payment]
       /\ worker' = [worker EXCEPT ![w].pc = out.pc, ![w].item = i, ![w].todo = @ \ {i}]
       /\ hook' = IF from = "accepted" /\ out.pc = "sent"
                  THEN [hook EXCEPT ![i] = @ \cup {"due"}]
                  ELSE hook
  /\ UNCHANGED <<run, item, jobs, stranded, editor, approved, reopened, edits, faults>>

\* executeSingleItem of the next item, in the order of the run.
Call(w, i) ==
  /\ i \in worker[w].todo
  /\ Pay(w, i, "next", Calls(payment[i]))
  /\ tried' = tried \cup {i}

Submit(w, i) ==
  /\ i = worker[w].item
  /\ Pay(w, i, "submit", Submits(payment[i]))
  /\ UNCHANGED tried

\* The completion hook of a payment that was just confirmed is started, and
\* not awaited.
Answer(w, i) ==
  /\ i = worker[w].item
  /\ Pay(w, i, "accepted", Answers(payment[i]))
  /\ UNCHANGED tried

\* The item is SENT; when the write fails the catch block takes over.
RecordSent(w) ==
  LET i == worker[w].item
  IN  /\ worker[w].pc = "sent"
      /\ \/ /\ i \in OnRun
            /\ item' = [item EXCEPT ![i] = "SENT"]
            /\ worker' = [worker EXCEPT ![w].pc = "next", ![w].item = NoItem]
            /\ UNCHANGED faults
         \/ /\ i \in OnRun => faults < MaxFaults
            /\ faults' = IF i \in OnRun THEN faults + 1 ELSE faults
            /\ worker' = [worker EXCEPT ![w].pc = "failed"]
            /\ UNCHANGED item
      /\ UNCHANGED <<run, payment, jobs, stranded, editor, hook, approved, tried, reopened, edits>>

\* The item is FAILED, or its write fails too and the loop goes on.
RecordFailed(w) ==
  LET i == worker[w].item
  IN  /\ worker[w].pc = "failed"
      /\ \/ /\ i \in OnRun
            /\ item' = [item EXCEPT ![i] = "FAILED"]
            /\ UNCHANGED faults
         \/ /\ i \in OnRun => faults < MaxFaults
            /\ faults' = IF i \in OnRun THEN faults + 1 ELSE faults
            /\ UNCHANGED item
      /\ worker' = [worker EXCEPT ![w].pc = "next", ![w].item = NoItem]
      /\ UNCHANGED <<run, payment, jobs, stranded, editor, hook, approved, tried, reopened, edits>>

\* Mutant: no isolation per item, the first failure ends the loop.
LoopOver_FirstFailure(w) ==
  worker[w].todo = {} \/ \E i \in Items : item[i] = "FAILED"

LoopOver(w) == worker[w].todo = {}

\* The loop is over: a job marks the run COMPLETED, whatever it has become; on
\* a deleted run that write throws and BullMQ tries the job again.
Complete(w) ==
  /\ worker[w].pc = "next"
  /\ LoopOver(w)
  /\ worker' = [worker EXCEPT ![w] = IdlePayer]
  /\ run' = IF w \in JobWorkers /\ run # "DELETED" THEN "COMPLETED" ELSE run
  /\ jobs' = IF w \in JobWorkers /\ run = "DELETED" THEN jobs + 1 ELSE jobs
  /\ UNCHANGED <<item, payment, stranded, editor, hook, approved, tried,
                 reopened, edits, faults>>

\* Mutant: it is taken off when it starts.
Redelivered_Never(w) == 0

\* A job is taken off the queue when it ends, not when it starts.
Redelivered(w) == IF w \in JobWorkers THEN 1 ELSE 0

\* The process dies: a stalled job is delivered again, a retry is not.  (BullMQ
\* gives a job up that stalls twice; MaxFaults is 1 where liveness is checked.)
Die(w) ==
  /\ worker[w].pc # "idle"
  /\ faults < MaxFaults
  /\ faults' = faults + 1
  /\ worker' = [worker EXCEPT ![w] = IdlePayer]
  /\ jobs' = jobs + Redelivered(w)
  /\ UNCHANGED <<run, item, payment, stranded, editor, hook, approved, tried, reopened, edits>>

-----------------------------------------------------------------------------
(* The sweep of pending sends and handlePayrollTransactionResolved. *)

\* confirmFromMatch: the claimed row whose transfer was made.
Reconcile(i) ==
  /\ Sweepable(payment[i])
  /\ payment' = [payment EXCEPT ![i] = Confirmed(@)]
  /\ hook' = [hook EXCEPT ![i] = @ \cup {"due"}]
  /\ UNCHANGED <<run, item, jobs, stranded, worker, editor, approved, tried,
                 reopened, edits, faults>>

\* Finds the item by its txId, which is set with SENT, or gives up for good.
HookRead(i) ==
  /\ "due" \in hook[i]
  /\ hook' = [hook EXCEPT ![i] = (@ \ {"due"}) \cup (IF item[i] = "SENT" THEN {"read"} ELSE {})]
  /\ UNCHANGED <<run, item, payment, jobs, stranded, worker, editor, approved,
                 tried, reopened, edits, faults>>

HookWrite(i) ==
  /\ "read" \in hook[i]
  /\ hook' = [hook EXCEPT ![i] = @ \ {"read"}]
  /\ item' = IF i \in OnRun THEN [item EXCEPT ![i] = "CONFIRMED"] ELSE item
  /\ UNCHANGED <<run, payment, jobs, stranded, worker, editor, approved, tried,
                 reopened, edits, faults>>

-----------------------------------------------------------------------------
EditStep(e) ==
  \/ \E op \in EditOps, i \in Items \cup {NoItem} : ReadRun(e, op, i)
  \/ WriteItem(e)
  \/ WriteStatus(e)
  \/ Approve(e)
  \/ InsufficientBalance(e)
  \/ Enqueue(e)

PayerStep(w) ==
  \/ \E i \in Items : Call(w, i) \/ Submit(w, i) \/ Answer(w, i)
  \/ RecordSent(w)
  \/ RecordFailed(w)
  \/ Complete(w)

JobStep(w) == Load(w) \/ PayerStep(w)

RetryStep(w) == (\E i \in Items : Retry(w, i)) \/ Reset(w) \/ PayerStep(w)

HookStep(i) == Reconcile(i) \/ HookRead(i) \/ HookWrite(i)

PayrollNext ==
  \/ \E e \in Editors : EditStep(e)
  \/ Recover
  \/ \E w \in JobWorkers : JobStep(w)
  \/ \E w \in Retriers : RetryStep(w)
  \/ \E w \in Payers : Die(w)
  \/ \E i \in Items : HookStep(i)

PayrollSpec == PayrollInit /\ [][PayrollNext]_payrollVars

\* BullMQ keeps its workers running, every provider call ends, and a request
\* that has approved a run goes on to queue its job, or is stranded.
PayrollFairness ==
  /\ \A w \in JobWorkers : WF_payrollVars(JobStep(w))
  /\ \A e \in Editors : WF_payrollVars(Enqueue(e))

-----------------------------------------------------------------------------
PayrollTypeOK ==
  /\ run \in {"DRAFT", "PENDING_APPROVAL", "PROCESSING", "COMPLETED", "DELETED"}
  /\ item \in [Items -> {"ABSENT", "PENDING", "SENT", "CONFIRMED", "FAILED", "REMOVED"}]
  /\ payment \in [Items -> [row : {"NONE", "CLAIMED", "FAILED", "CONFIRMED"}, made : Nat, lost : Nat]]
  /\ jobs \in Nat
  /\ stranded \in BOOLEAN
  /\ worker \in [Payers ->
       [pc : {"idle", "next", "reset", "submit", "accepted", "sent", "failed"},
        item : Items \cup {NoItem}, todo : SUBSET Items]]
  /\ editor \in [Editors ->
       [op : EditOps \cup {"none", "enqueue"}, item : Items \cup {NoItem}, seen : SUBSET Items]]
  /\ hook \in [Items -> SUBSET {"due", "read"}]
  /\ approved \subseteq Items
  /\ tried \subseteq Items
  /\ reopened \in BOOLEAN
  /\ edits \in Nat
  /\ faults \in Nat

\* A payee is paid again for one item only if the answer to the payment before
\* was lost, whatever jobs, retries, crashes and sweeps work on the run at
\* once: executeSingleItem's deterministic key, as far as it reaches.
ItemPaidAgainOnlyIfLost == \A i \in Items : AgainOnlyIfLost(payment[i])

\* An item shown SENT or CONFIRMED was paid, and unless an answer was lost its
\* row says so: neither a replay, a retry nor a late hook marks an item whose
\* money never left.
SentWasPaid ==
  \A i \in Items : item[i] \in {"SENT", "CONFIRMED"} =>
    payment[i].made >= 1 /\ (payment[i].lost = 0 => payment[i].row = "CONFIRMED")

\* A COMPLETED run has tried to pay every item its approver saw that is still
\* on it, across crashes and executions that overlap, unless a late write of
\* an editor took it out of PROCESSING meanwhile.
EveryoneTried ==
  run = "COMPLETED" /\ ~reopened => approved \cap OnRun \subseteq tried

\* An approved run whose job was queued does not stay PROCESSING.
ProcessingEnds ==
  (run = "PROCESSING" /\ ~stranded) ~> (run # "PROCESSING" \/ stranded)

=============================================================================
