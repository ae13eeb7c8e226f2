--------------------------- MODULE PayrollRunProofs ---------------------------
(***************************************************************************)
(* Proofs about PayrollRun, for any items, jobs, retries, editors and      *)
(* faults.                                                                 *)
(*                                                                         *)
(* PayInv relates each payment to whoever is working on it: a row is open  *)
(* to a claim only while the answer to every transfer made for it was      *)
(* lost, one payer at a time submits it or awaits its answer, and whatever *)
(* says that an item was paid (a payer about to record it, the item, a     *)
(* hook under way) is right.  TryInv adds                                  *)
(* that nobody who has read the run for approval can have seen an item     *)
(* that a job working on the run has neither tried nor has before it.      *)
(***************************************************************************)
EXTENDS PayrollRun, TLAPS

Paid(p) == p.made >= 1 /\ (p.lost = 0 => p.row = "CONFIRMED")

PaymentType == [row : {"NONE", "CLAIMED", "FAILED", "CONFIRMED"}, made : Nat, lost : Nat]

PayerType ==
  [pc : {"idle", "next", "reset", "submit", "accepted", "sent", "failed"},
   item : Items \cup {NoItem}, todo : SUBSET Items]

EditorType ==
  [op : EditOps \cup {"none", "enqueue"}, item : Items \cup {NoItem}, seen : SUBSET Items]

\* What a payment's row says of what was paid.
RowTells(p) ==
  /\ p.row \in {"NONE", "FAILED"} => p.made = p.lost
  /\ p.row = "CONFIRMED" => p.made >= 1
  /\ p.lost <= p.made /\ p.made <= p.lost + 1

\* A payer between its claim of the row and the end of its attempt.
Claiming(r) == r.pc \in {"submit", "accepted"}

\* What a payer's place says of the payment p of its item.
PlaceTells(r, p) ==
  /\ r.pc = "submit" => p.row \in {"CLAIMED", "CONFIRMED"} /\ p.made = p.lost
  /\ r.pc = "accepted" => p.row \in {"CLAIMED", "CONFIRMED"} /\ p.made = p.lost + 1
  /\ r.pc = "sent" => Paid(p)

AtItem(r) == r.pc \in {"reset", "submit", "accepted", "sent", "failed"}

RowsTell == \A i \in Items : RowTells(payment[i])

PayersTell ==
  \A w \in Payers : AtItem(worker[w]) =>
    worker[w].item \in Items /\ PlaceTells(worker[w], payment[worker[w].item])

OneClaimer ==
  \A v, w \in Payers :
    Claiming(worker[v]) /\ Claiming(worker[w]) /\ worker[v].item = worker[w].item => v = w

ItemsTell ==
  \A i \in Items :
    item[i] \in {"SENT", "CONFIRMED"} \/ hook[i] # {} => Paid(payment[i])

PayInv == PayrollTypeOK /\ RowsTell /\ PayersTell /\ OneClaimer /\ ItemsTell

-----------------------------------------------------------------------------
\* A lost answer, field by field.
LEMMA UnansweredFields ==
  ASSUME NEW p \in PaymentType
  PROVE  /\ Unanswered(p) \in PaymentType /\ Unanswered(p).row = "FAILED"
         /\ Unanswered(p).made = p.made /\ Unanswered(p).lost = p.lost + 1
<1> DEFINE n == p.lost + 1
<1>1. n \in Nat
  BY DEF PaymentType
<1>2. Unanswered(p) = [p EXCEPT !.row = "FAILED", !.lost = n]
  BY DEF Unanswered
<1>3. n = p.lost + 1
  OBVIOUS
<1> HIDE DEF n
<1> QED
  BY <1>1, <1>2, <1>3 DEF PaymentType

\* The outcomes of a call, a submission and an answer, from a row that tells.
LEMMA CallOutcomes ==
  ASSUME NEW p \in PaymentType, RowTells(p), NEW out \in Calls(p)
  PROVE  \/ out = Outcome("failed", p)
         \/ out = Outcome("sent", p) /\ Paid(p)
         \/ out = Outcome("submit", [p EXCEPT !.row = "CLAIMED"]) /\ Free(p)
  BY DEF Calls, Replayed, Free, Outcome, RowTells, Paid, PaymentType

LEMMA SubmitOutcomes ==
  ASSUME NEW p \in PaymentType, NEW out \in Submits(p)
  PROVE  \/ out = Outcome("accepted", [p EXCEPT !.made = @ + 1])
         \/ out = Outcome("failed", [p EXCEPT !.row = "FAILED"])
  BY DEF Submits, Outcome

LEMMA AnswerOutcomes ==
  ASSUME NEW p \in PaymentType, NEW out \in Answers(p)
  PROVE  \/ out = Outcome("sent", Confirmed(p))
         \/ out = Outcome("failed", p)
         \/ out = Outcome("failed", Confirmed(p))
         \/ out = Outcome("failed", Unanswered(p))
  BY DEF Answers, Outcome

-----------------------------------------------------------------------------
LEMMA PayInit == PayrollInit => PayInv
<1> SUFFICES ASSUME PayrollInit PROVE PayInv
  OBVIOUS
<1>1. item \in [Items -> {"ABSENT", "PENDING", "SENT", "CONFIRMED", "FAILED", "REMOVED"}]
  BY DEF PayrollInit
<1>2. Unpaid \in PaymentType /\ RowTells(Unpaid)
  BY DEF Unpaid, PaymentType, RowTells
<1>3. payment \in [Items -> PaymentType] /\ RowsTell
  BY <1>2 DEF PayrollInit, RowsTell
<1>4. worker \in [Payers -> PayerType] /\ PayersTell /\ OneClaimer
  BY DEF PayrollInit, IdlePayer, PayerType, PayersTell, OneClaimer, AtItem, Claiming
<1>5. editor \in [Editors -> EditorType]
  BY DEF PayrollInit, IdleEditor, EditorType
<1>6. hook \in [Items -> SUBSET {"due", "read"}] /\ ItemsTell
  BY DEF PayrollInit, ItemsTell
<1> QED
  BY <1>1, <1>3, <1>4, <1>5, <1>6
     DEF PayrollInit, PayInv, PayrollTypeOK, PaymentType, PayerType, EditorType

-----------------------------------------------------------------------------
LEMMA Untouched ==
  ASSUME PayInv, PayrollTypeOK', UNCHANGED <<item, payment, worker, hook>>
  PROVE  PayInv'
  BY DEF PayInv, RowsTell, PayersTell, OneClaimer, Claiming, ItemsTell

\* Requests of runs.ts.
LEMMA EditKeeps ==
  ASSUME PayInv, NEW e \in Editors, EditStep(e)
  PROVE  PayInv'
<1> USE DEF PayInv, PayrollTypeOK
<1>1. ASSUME NEW op \in EditOps, NEW i \in Items \cup {NoItem}, ReadRun(e, op, i) PROVE PayInv'
  <2>1. editor' \in [Editors -> EditorType]
    BY <1>1 DEF ReadRun, OnRun, EditorType
  <2>2. edits' \in Nat
    BY <1>1 DEF ReadRun
  <2>3. UNCHANGED <<run, item, payment, jobs, stranded, worker, hook,
                    approved, tried, reopened, faults>>
    BY <1>1 DEF ReadRun
  <2> QED
    BY <2>1, <2>2, <2>3 DEF EditorType, RowsTell, PayersTell, OneClaimer, Claiming, ItemsTell
<1>2. CASE WriteItem(e)
  <2>1. item' \in [Items -> {"ABSENT", "PENDING", "SENT", "CONFIRMED", "FAILED", "REMOVED"}]
    BY <1>2 DEF WriteItem
  <2>2. \A i \in Items : item'[i] \in {"SENT", "CONFIRMED"} => item'[i] = item[i]
    BY <1>2 DEF WriteItem
  <2>3. editor' \in [Editors -> EditorType]
    BY <1>2 DEF WriteItem, IdleEditor, EditorType
  <2>4. UNCHANGED <<run, payment, jobs, stranded, worker, hook, approved,
                    tried, reopened, edits, faults>>
    BY <1>2 DEF WriteItem
  <2>5. ItemsTell'
    BY <2>2, <2>4 DEF ItemsTell
  <2> QED
    BY <2>1, <2>3, <2>4, <2>5 DEF EditorType, RowsTell, PayersTell, OneClaimer, Claiming
<1>3. CASE WriteStatus(e)
  <2>1. item' \in [Items -> {"ABSENT", "PENDING", "SENT", "CONFIRMED", "FAILED", "REMOVED"}]
    BY <1>3 DEF WriteStatus
  <2>2. \A i \in Items : item'[i] \in {"SENT", "CONFIRMED"} => item'[i] = item[i]
    BY <1>3 DEF WriteStatus
  <2>3. ItemsTell'
    BY <1>3, <2>2 DEF WriteStatus, ItemsTell
  <2>4. run' \in {"DRAFT", "PENDING_APPROVAL", "PROCESSING", "COMPLETED", "DELETED"}
    BY <1>3 DEF WriteStatus
  <2>5. reopened' \in BOOLEAN
    BY <1>3 DEF WriteStatus
  <2>6. editor' \in [Editors -> EditorType]
    BY <1>3 DEF WriteStatus, IdleEditor, EditorType
  <2>7. UNCHANGED <<payment, jobs, stranded, worker, hook, approved, tried, edits, faults>>
    BY <1>3 DEF WriteStatus
  <2> QED
    BY <2>1, <2>3, <2>4, <2>5, <2>6, <2>7 DEF RowsTell, PayersTell, OneClaimer, Claiming, EditorType
<1>4. CASE Approve(e)
  <2>1. /\ run' \in {"DRAFT", "PENDING_APPROVAL", "PROCESSING", "COMPLETED", "DELETED"}
        /\ approved' \subseteq Items
    BY <1>4 DEF Approve
  <2>2. editor' \in [Editors -> EditorType]
    BY <1>4 DEF Approve, IdleEditor, EditorType
  <2>3. UNCHANGED <<item, payment, jobs, stranded, worker, hook, tried, reopened, edits, faults>>
    BY <1>4 DEF Approve
  <2> QED
    BY <2>1, <2>2, <2>3, Untouched DEF EditorType
<1>5. CASE InsufficientBalance(e)
  BY <1>5 DEF InsufficientBalance, IdleEditor, RowsTell, PayersTell, OneClaimer, Claiming, ItemsTell
<1>6. CASE Enqueue(e)
  <2>1. jobs' \in Nat
    BY <1>6 DEF Enqueue
  <2>2. stranded' \in BOOLEAN
    BY <1>6 DEF Enqueue
  <2>3. editor' \in [Editors -> EditorType]
    BY <1>6 DEF Enqueue, IdleEditor, EditorType
  <2>4. UNCHANGED <<run, item, payment, worker, hook, approved, tried, reopened, edits, faults>>
    BY <1>6 DEF Enqueue
  <2> QED
    BY <2>1, <2>2, <2>3, <2>4, Untouched DEF EditorType
<1> QED
  BY <1>1, <1>2, <1>3, <1>4, <1>5, <1>6 DEF EditStep

-----------------------------------------------------------------------------
\* An outcome of w's step for i that leaves everything told right.
Harmless(w, i, out) ==
  /\ out.payment \in PaymentType
  /\ RowTells(out.payment)
  /\ out.pc \in {"submit", "accepted", "sent", "failed"}
  /\ PlaceTells(out, out.payment)
  /\ Paid(payment[i]) => Paid(out.payment)
  /\ \A v \in Payers \ {w} :
       AtItem(worker[v]) /\ worker[v].item = i =>
         PlaceTells(worker[v], out.payment) /\ ~(Claiming(worker[v]) /\ Claiming(out))

\* What a step of sendPayment leaves, whichever outcome it has.
LEMMA PayKeeps ==
  ASSUME PayInv, NEW w \in Payers, NEW i \in Items, NEW from, NEW outcomes,
         Pay(w, i, from, outcomes), tried' \subseteq Items,
         \A out \in outcomes : Harmless(w, i, out)
  PROVE  PayInv'
<1>1. PICK out \in outcomes :
      /\ payment' = [payment EXCEPT ![i] = out.payment]
      /\ worker' = [worker EXCEPT ![w].pc = out.pc, ![w].item = i, ![w].todo = @ \ {i}]
      /\ hook' = IF from = "accepted" /\ out.pc = "sent"
                 THEN [hook EXCEPT ![i] = @ \cup {"due"}]
                 ELSE hook
  BY DEF Pay
<1> DEFINE p == out.payment
           r == [worker[w] EXCEPT !.pc = out.pc, !.item = i, !.todo = @ \ {i}]
<1>2. payment \in [Items -> PaymentType] /\ worker \in [Payers -> PayerType]
  BY DEF PayInv, PayrollTypeOK, PaymentType, PayerType
<1>3. Harmless(w, i, out)
  OBVIOUS
<1>4. r \in PayerType /\ r.pc = out.pc /\ r.item = i
  BY <1>2, <1>3 DEF PayerType, Harmless
<1>5. worker' = [worker EXCEPT ![w] = r] /\ payment' = [payment EXCEPT ![i] = p]
  BY <1>1, <1>2
<1>6. p \in PaymentType /\ RowTells(p) /\ PlaceTells(r, p)
  BY <1>3, <1>4 DEF PlaceTells, Harmless
<1>7. \A v \in Payers \ {w} :
        AtItem(worker[v]) /\ worker[v].item = i =>
          PlaceTells(worker[v], p) /\ ~(Claiming(worker[v]) /\ Claiming(r))
  BY <1>3, <1>4 DEF Harmless, Claiming
<1>8. r.pc = "sent" => Paid(p)
  BY <1>6 DEF PlaceTells
<1>9. Paid(payment[i]) => Paid(p)
  BY <1>3 DEF Harmless
<1>10. hook' = hook \/ (r.pc = "sent" /\ hook' = [hook EXCEPT ![i] = @ \cup {"due"}])
  BY <1>1, <1>4
<1> HIDE DEF p, r
<1>11. RowsTell' /\ PayersTell' /\ OneClaimer'
  <2>1. RowsTell'
    BY <1>2, <1>5, <1>6 DEF PayInv, RowsTell
  <2>2. PayersTell'
    BY <1>2, <1>4, <1>5, <1>6, <1>7 DEF PayInv, PayersTell
  <2>3. OneClaimer'
    BY <1>2, <1>4, <1>5, <1>7 DEF PayInv, OneClaimer, AtItem, Claiming
  <2> QED
    BY <2>1, <2>2, <2>3
<1>12. payment' \in [Items -> PaymentType] /\ worker' \in [Payers -> PayerType]
  BY <1>2, <1>4, <1>5, <1>6
<1>13. hook' \in [Items -> SUBSET {"due", "read"}]
  BY <1>10 DEF PayInv, PayrollTypeOK
<1>14. UNCHANGED <<run, item, jobs, stranded, editor, approved, reopened, edits, faults>>
  BY DEF Pay
<1>15. PayrollTypeOK'
  BY <1>12, <1>13, <1>14 DEF PayInv, PayrollTypeOK, PaymentType, PayerType
<1>16. ItemsTell'
  BY <1>2, <1>5, <1>8, <1>9, <1>10, <1>14 DEF PayInv, PayrollTypeOK, ItemsTell
<1> QED
  BY <1>11, <1>15, <1>16 DEF PayInv

LEMMA CallKeeps ==
  ASSUME PayInv, NEW w \in Payers, NEW i \in Items, Call(w, i)
  PROVE  PayInv'
<1> DEFINE p == payment[i]
<1>1. p \in PaymentType /\ RowTells(p) /\ tried' \subseteq Items
  BY DEF PayInv, PayrollTypeOK, RowsTell, PaymentType, Call
<1>2. \A v \in Payers : AtItem(worker[v]) /\ worker[v].item = i => PlaceTells(worker[v], p)
  BY DEF PayInv, PayersTell
<1>h. p = payment[i]
  OBVIOUS
<1> HIDE DEF p
<1>3. ASSUME NEW out \in Calls(p)
      PROVE  Harmless(w, i, out)
  <2>1. CASE out = Outcome("failed", p) \/ (out = Outcome("sent", p) /\ Paid(p))
    BY <1>1, <1>2, <1>h, <2>1 DEF Outcome, PlaceTells, Harmless, Claiming
  <2>2. CASE out = Outcome("submit", [p EXCEPT !.row = "CLAIMED"]) /\ Free(p)
    BY <1>1, <1>2, <1>h, <2>2
       DEF Outcome, PlaceTells, Harmless, Claiming, Free, PaymentType, RowTells, Paid
  <2>3. \/ out = Outcome("failed", p)
        \/ out = Outcome("sent", p) /\ Paid(p)
        \/ out = Outcome("submit", [p EXCEPT !.row = "CLAIMED"]) /\ Free(p)
    BY <1>1, CallOutcomes
  <2> QED
    BY <2>1, <2>2, <2>3
<1> QED
  BY <1>1, <1>3, PayKeeps DEF Call, p

LEMMA SubmitKeeps ==
  ASSUME PayInv, NEW w \in Payers, NEW i \in Items, Submit(w, i)
  PROVE  PayInv'
<1> DEFINE p == payment[i]
<1>1. p \in PaymentType /\ RowTells(p) /\ tried' \subseteq Items
  BY DEF PayInv, PayrollTypeOK, RowsTell, PaymentType, Submit
<1>2. \A v \in Payers : AtItem(worker[v]) /\ worker[v].item = i => PlaceTells(worker[v], p)
  BY DEF PayInv, PayersTell
<1>3. p.row \in {"CLAIMED", "CONFIRMED"} /\ p.made = p.lost
  BY DEF PayInv, PayersTell, Submit, Pay, AtItem, PlaceTells
<1>4. \A v \in Payers \ {w} : worker[v].item = i => ~Claiming(worker[v])
  BY DEF PayInv, OneClaimer, Submit, Pay, Claiming
<1>h. p = payment[i]
  OBVIOUS
<1> HIDE DEF p
<1>5. ASSUME NEW out \in Submits(p)
      PROVE  Harmless(w, i, out)
  <2>1. CASE out = Outcome("accepted", [p EXCEPT !.made = @ + 1])
    BY <1>1, <1>2, <1>3, <1>4, <1>h, <2>1
       DEF Outcome, PlaceTells, Harmless, Claiming, PaymentType, RowTells, Paid
  <2>2. CASE out = Outcome("failed", [p EXCEPT !.row = "FAILED"])
    BY <1>1, <1>2, <1>3, <1>4, <1>h, <2>2
       DEF Outcome, PlaceTells, Harmless, Claiming, PaymentType, RowTells, Paid
  <2> QED
    BY <1>1, <2>1, <2>2, SubmitOutcomes
<1> QED
  BY <1>1, <1>5, PayKeeps DEF Submit, p

LEMMA AnswerKeeps ==
  ASSUME PayInv, NEW w \in Payers, NEW i \in Items, Answer(w, i)
  PROVE  PayInv'
<1> DEFINE p == payment[i]
<1>1. p \in PaymentType /\ RowTells(p) /\ tried' \subseteq Items
  BY DEF PayInv, PayrollTypeOK, RowsTell, PaymentType, Answer
<1>2. \A v \in Payers : AtItem(worker[v]) /\ worker[v].item = i => PlaceTells(worker[v], p)
  BY DEF PayInv, PayersTell
<1>3. p.row \in {"CLAIMED", "CONFIRMED"} /\ p.made = p.lost + 1
  BY DEF PayInv, PayersTell, Answer, Pay, AtItem, PlaceTells
<1>4. \A v \in Payers \ {w} : worker[v].item = i => ~Claiming(worker[v])
  BY DEF PayInv, OneClaimer, Answer, Pay, Claiming
<1>h. p = payment[i]
  OBVIOUS
<1> HIDE DEF p
<1>5. ASSUME NEW out \in Answers(p)
      PROVE  Harmless(w, i, out)
  <2>1. CASE out = Outcome("failed", p)
    BY <1>1, <1>2, <1>h, <2>1 DEF Outcome, PlaceTells, Harmless, Claiming
  <2>2. CASE out = Outcome("sent", Confirmed(p)) \/ out = Outcome("failed", Confirmed(p))
    BY <1>1, <1>2, <1>3, <1>4, <1>h, <2>2
       DEF Outcome, Confirmed, PlaceTells, Harmless, Claiming, PaymentType, RowTells, Paid
  <2>3. CASE out = Outcome("failed", Unanswered(p))
    <3>1. out.payment = Unanswered(p) /\ out.pc = "failed"
      BY <2>3 DEF Outcome
    <3>2. /\ out.payment \in PaymentType /\ out.payment.row = "FAILED"
          /\ out.payment.made = p.made /\ out.payment.lost = p.lost + 1
      BY <1>1, <3>1, UnansweredFields
    <3>3. RowTells(out.payment) /\ Paid(out.payment)
      BY <1>1, <1>3, <3>2 DEF RowTells, Paid, PaymentType
    <3>4. \A v \in Payers \ {w} : AtItem(worker[v]) /\ worker[v].item = i =>
            PlaceTells(worker[v], out.payment)
      BY <1>4, <3>3 DEF PlaceTells, Claiming
    <3> QED
      BY <3>1, <3>2, <3>3, <3>4 DEF Harmless, PlaceTells, Claiming
  <2> QED
    BY <1>1, <2>1, <2>2, <2>3, AnswerOutcomes
<1> QED
  BY <1>1, <1>5, PayKeeps DEF Answer, p

-----------------------------------------------------------------------------
\* A payer starts, records what became of an item, or ends.
LEMMA PlaceMoves ==
  ASSUME PayInv, NEW w \in Payers, NEW r \in PayerType,
         worker' = [worker EXCEPT ![w] = r],
         ~Claiming(r),
         AtItem(r) => r.item \in Items /\ PlaceTells(r, payment[r.item]),
         UNCHANGED payment
  PROVE  RowsTell' /\ PayersTell' /\ OneClaimer' /\ worker' \in [Payers -> PayerType]
<1>1. worker \in [Payers -> PayerType]
  BY DEF PayInv, PayrollTypeOK, PayerType
<1>2. RowsTell'
  BY DEF PayInv, RowsTell
<1>3. PayersTell'
  BY <1>1 DEF PayInv, PayersTell
<1>4. OneClaimer'
  BY <1>1 DEF PayInv, OneClaimer, Claiming
<1> QED
  BY <1>1, <1>2, <1>3, <1>4

LEMMA PayerKeeps ==
  ASSUME PayInv, NEW w \in Payers,
         \/ Load(w) \/ Reset(w) \/ RecordSent(w) \/ RecordFailed(w) \/ Complete(w) \/ Die(w)
         \/ \E i \in Items : Retry(w, i)
  PROVE  PayInv'
<1>1. worker \in [Payers -> PayerType] /\ worker[w] \in PayerType
  BY DEF PayInv, PayrollTypeOK, PayerType
<1>2. IdlePayer \in PayerType /\ ~AtItem(IdlePayer) /\ IdlePayer.pc = "idle"
  BY DEF IdlePayer, PayerType, AtItem
<1>3. AtItem(worker[w]) => worker[w].item \in Items /\ PlaceTells(worker[w], payment[worker[w].item])
  BY DEF PayInv, PayersTell
<1>4. CASE Load(w)
  <2> DEFINE r == IF run = "PROCESSING"
                  THEN [worker[w] EXCEPT !.pc = "next", !.todo = {i \in OnRun : Executable(i)}]
                  ELSE worker[w]
  <2>1. r \in PayerType /\ r.pc \in {"next", "idle"} /\ worker' = [worker EXCEPT ![w] = r]
    BY <1>1, <1>4 DEF Load, PayerType, OnRun
  <2> HIDE DEF r
  <2>2. UNCHANGED <<run, item, payment, stranded, editor, hook, approved, tried,
                    reopened, edits, faults>>
    BY <1>4 DEF Load
  <2>3. RowsTell' /\ PayersTell' /\ OneClaimer' /\ worker' \in [Payers -> PayerType]
    BY <2>1, <2>2, PlaceMoves DEF AtItem, Claiming
  <2>4. jobs' \in Nat
    BY <1>4 DEF Load, PayInv, PayrollTypeOK
  <2> QED
    BY <2>2, <2>3, <2>4 DEF PayInv, PayrollTypeOK, PayerType, ItemsTell
<1>5. ASSUME NEW i \in Items, Retry(w, i) PROVE PayInv'
  <2> DEFINE r == [worker[w] EXCEPT !.pc = "reset", !.item = i]
  <2>1. r \in PayerType /\ r.pc = "reset" /\ r.item = i /\ worker' = [worker EXCEPT ![w] = r]
    BY <1>1, <1>5 DEF Retry, PayerType
  <2> HIDE DEF r
  <2>2. UNCHANGED <<run, item, payment, jobs, stranded, editor, hook, approved,
                    tried, reopened, edits, faults>>
    BY <1>5 DEF Retry
  <2>3. RowsTell' /\ PayersTell' /\ OneClaimer' /\ worker' \in [Payers -> PayerType]
    BY <2>1, <2>2, PlaceMoves DEF AtItem, Claiming, PlaceTells
  <2> QED
    BY <2>2, <2>3 DEF PayInv, PayrollTypeOK, PayerType, ItemsTell
<1>6. CASE Reset(w)
  <2> DEFINE i == worker[w].item
             r == IF i \in OnRun THEN [IdlePayer EXCEPT !.pc = "next", !.todo = {i}] ELSE IdlePayer
  <2>1. i \in Items
    BY <1>3, <1>6 DEF Reset, AtItem
  <2>2. r \in PayerType /\ r.pc \in {"next", "idle"} /\ worker' = [worker EXCEPT ![w] = r]
    BY <1>2, <1>6, <2>1 DEF Reset, PayerType, IdlePayer
  <2>3. item' = item \/ item' = [item EXCEPT ![i] = "PENDING"]
    BY <1>6 DEF Reset
  <2> HIDE DEF i, r
  <2>4. UNCHANGED <<run, payment, jobs, stranded, editor, hook, approved, tried,
                    reopened, edits, faults>>
    BY <1>6 DEF Reset
  <2>5. RowsTell' /\ PayersTell' /\ OneClaimer' /\ worker' \in [Payers -> PayerType]
    BY <2>2, <2>4, PlaceMoves DEF AtItem, Claiming
  <2>6. /\ item' \in [Items -> {"ABSENT", "PENDING", "SENT", "CONFIRMED", "FAILED", "REMOVED"}]
        /\ ItemsTell'
    BY <2>1, <2>3, <2>4 DEF PayInv, PayrollTypeOK, ItemsTell
  <2> QED
    BY <2>4, <2>5, <2>6 DEF PayInv, PayrollTypeOK, PayerType
<1>7. CASE RecordSent(w)
  <2> DEFINE i == worker[w].item
             s == [worker[w] EXCEPT !.pc = "next", !.item = NoItem]
             f == [worker[w] EXCEPT !.pc = "failed"]
  <2>1. i \in Items /\ Paid(payment[i])
    BY <1>3, <1>7 DEF RecordSent, AtItem, PlaceTells
  <2>2. /\ s \in PayerType /\ s.pc = "next"
        /\ f \in PayerType /\ f.pc = "failed" /\ f.item = i
    BY <1>1 DEF PayerType
  <2>3. \/ /\ item' = [item EXCEPT ![i] = "SENT"]
           /\ worker' = [worker EXCEPT ![w] = s]
           /\ UNCHANGED faults
        \/ /\ UNCHANGED item
           /\ worker' = [worker EXCEPT ![w] = f]
           /\ faults' \in {faults, faults + 1}
    BY <1>1, <1>7 DEF RecordSent
  <2> HIDE DEF i, s, f
  <2>4. UNCHANGED <<run, payment, jobs, stranded, editor, hook, approved, tried, reopened, edits>>
    BY <1>7 DEF RecordSent
  <2>5. RowsTell' /\ PayersTell' /\ OneClaimer' /\ worker' \in [Payers -> PayerType]
    <3>1. CASE worker' = [worker EXCEPT ![w] = s]
      BY <2>2, <2>4, <3>1, PlaceMoves DEF AtItem, Claiming
    <3>2. CASE worker' = [worker EXCEPT ![w] = f]
      BY <2>1, <2>2, <2>4, <3>2, PlaceMoves DEF AtItem, Claiming, PlaceTells
    <3> QED
      BY <2>3, <3>1, <3>2
  <2>6. /\ item' \in [Items -> {"ABSENT", "PENDING", "SENT", "CONFIRMED", "FAILED", "REMOVED"}]
        /\ ItemsTell'
    BY <2>1, <2>3, <2>4 DEF PayInv, PayrollTypeOK, ItemsTell
  <2>7. faults' \in Nat
    BY <2>3 DEF PayInv, PayrollTypeOK
  <2> QED
    BY <2>4, <2>5, <2>6, <2>7 DEF PayInv, PayrollTypeOK, PayerType
<1>8. CASE RecordFailed(w)
  <2> DEFINE i == worker[w].item
             r == [worker[w] EXCEPT !.pc = "next", !.item = NoItem]
  <2>1. r \in PayerType /\ r.pc = "next" /\ worker' = [worker EXCEPT ![w] = r]
    BY <1>1, <1>8 DEF RecordFailed, PayerType
  <2>2. item' = item \/ item' = [item EXCEPT ![i] = "FAILED"]
    BY <1>8 DEF RecordFailed
  <2>3. faults' \in Nat
    BY <1>8 DEF RecordFailed, PayInv, PayrollTypeOK
  <2> HIDE DEF i, r
  <2>4. UNCHANGED <<run, payment, jobs, stranded, editor, hook, approved, tried, reopened, edits>>
    BY <1>8 DEF RecordFailed
  <2>5. RowsTell' /\ PayersTell' /\ OneClaimer' /\ worker' \in [Payers -> PayerType]
    BY <2>1, <2>4, PlaceMoves DEF AtItem, Claiming
  <2>6. /\ item' \in [Items -> {"ABSENT", "PENDING", "SENT", "CONFIRMED", "FAILED", "REMOVED"}]
        /\ ItemsTell'
    BY <2>2, <2>4 DEF PayInv, PayrollTypeOK, ItemsTell
  <2> QED
    BY <2>3, <2>4, <2>5, <2>6 DEF PayInv, PayrollTypeOK, PayerType
<1>9. CASE Complete(w) \/ Die(w)
  <2>1. worker' = [worker EXCEPT ![w] = IdlePayer] /\ UNCHANGED <<item, payment, stranded, editor,
          hook, approved, tried, reopened, edits>>
    BY <1>9 DEF Complete, Die
  <2>2. RowsTell' /\ PayersTell' /\ OneClaimer' /\ worker' \in [Payers -> PayerType]
    BY <1>2, <2>1, PlaceMoves DEF Claiming
  <2>3. jobs' \in Nat /\ faults' \in Nat
    BY <1>9 DEF Complete, Die, Redelivered, PayInv, PayrollTypeOK
  <2>4. run' \in {"DRAFT", "PENDING_APPROVAL", "PROCESSING", "COMPLETED", "DELETED"}
    BY <1>9 DEF Complete, Die, PayInv, PayrollTypeOK
  <2> QED
    BY <2>1, <2>2, <2>3, <2>4 DEF PayInv, PayrollTypeOK, PayerType, ItemsTell
<1> QED
  BY <1>4, <1>5, <1>6, <1>7, <1>8, <1>9

\* The sweep of pending sends and the completion hook.
LEMMA HookKeeps ==
  ASSUME PayInv, NEW i \in Items, HookStep(i)
  PROVE  PayInv'
<1>1. CASE Reconcile(i)
  <2>1. payment[i] \in PaymentType /\ RowTells(payment[i]) /\ payment[i].made > 0
    BY <1>1 DEF Reconcile, Sweepable, PayInv, PayrollTypeOK, PaymentType, RowsTell
  <2> DEFINE p == Confirmed(payment[i])
  <2>2. /\ p.row = "CONFIRMED" /\ p.made = payment[i].made /\ p.lost = payment[i].lost
        /\ p \in PaymentType
    BY <2>1 DEF Confirmed, PaymentType
  <2>3. payment' = [payment EXCEPT ![i] = p] /\ hook' = [hook EXCEPT ![i] = @ \cup {"due"}]
    BY <1>1 DEF Reconcile
  <2> HIDE DEF p
  <2>4. UNCHANGED <<run, item, jobs, stranded, worker, editor, approved, tried,
                    reopened, edits, faults>>
    BY <1>1 DEF Reconcile
  <2>5. p \in PaymentType /\ RowTells(p) /\ Paid(p)
    BY <2>1, <2>2 DEF PaymentType, RowTells, Paid
  <2>6. PayrollTypeOK'
    BY <2>3, <2>4, <2>5 DEF PayInv, PayrollTypeOK, PaymentType
  <2>7. RowsTell' /\ OneClaimer' /\ ItemsTell'
    BY <2>3, <2>4, <2>5 DEF PayInv, PayrollTypeOK, RowsTell, OneClaimer, ItemsTell
  <2>8. ASSUME NEW w \in Payers, AtItem(worker[w])
        PROVE  worker[w].item \in Items /\ PlaceTells(worker[w], payment'[worker[w].item])
    <3>1. worker[w].item \in Items /\ PlaceTells(worker[w], payment[worker[w].item])
      BY <2>8 DEF PayInv, PayersTell
    <3>2. CASE worker[w].item = i
      BY <2>1, <2>2, <2>3, <2>5, <3>1, <3>2 DEF PlaceTells, PayInv, PayrollTypeOK
    <3>3. CASE worker[w].item # i
      BY <2>3, <3>1, <3>3 DEF PayInv, PayrollTypeOK
    <3> QED
      BY <3>1, <3>2, <3>3
  <2>9. PayersTell'
    BY <2>4, <2>8 DEF PayersTell
  <2> QED
    BY <2>6, <2>7, <2>9 DEF PayInv
<1>2. CASE HookRead(i) \/ HookWrite(i)
  <2>1. UNCHANGED <<run, payment, jobs, stranded, worker, editor, approved, tried,
                    reopened, edits, faults>>
    BY <1>2 DEF HookRead, HookWrite
  <2>2. /\ hook' \in [Items -> SUBSET {"due", "read"}]
        /\ hook[i] # {} /\ \A j \in Items : hook'[j] # {} => hook[j] # {}
    <3>1. hook \in [Items -> SUBSET {"due", "read"}] /\ hook[i] \subseteq {"due", "read"}
      BY DEF PayInv, PayrollTypeOK
    <3>2. hook[i] # {}
      BY <1>2 DEF HookRead, HookWrite
    <3>3. PICK H \in SUBSET {"due", "read"} : hook' = [hook EXCEPT ![i] = H]
      <4>1. CASE HookRead(i)
        BY <3>1, <4>1 DEF HookRead
      <4>2. CASE HookWrite(i)
        BY <3>1, <4>2 DEF HookWrite
      <4> QED
        BY <1>2, <4>1, <4>2
    <3> QED
      BY <3>1, <3>2, <3>3
  <2>3. item' = item \/ item' = [item EXCEPT ![i] = "CONFIRMED"]
    BY <1>2 DEF HookRead, HookWrite
  <2>4. /\ item' \in [Items -> {"ABSENT", "PENDING", "SENT", "CONFIRMED", "FAILED", "REMOVED"}]
        /\ ItemsTell'
    BY <2>1, <2>2, <2>3 DEF PayInv, PayrollTypeOK, ItemsTell
  <2> QED
    BY <2>1, <2>2, <2>4 DEF PayInv, PayrollTypeOK, RowsTell, PayersTell, OneClaimer, Claiming
<1> QED
  BY <1>1, <1>2 DEF HookStep

LEMMA PayNext == PayInv /\ [PayrollNext]_payrollVars => PayInv'
<1> SUFFICES ASSUME PayInv, [PayrollNext]_payrollVars PROVE PayInv'
  OBVIOUS
<1>1. ASSUME NEW e \in Editors, EditStep(e) PROVE PayInv'
  BY <1>1, EditKeeps
<1>2. CASE Recover
  <2>1. jobs' \in Nat
    BY <1>2 DEF Recover, PayInv, PayrollTypeOK
  <2>2. stranded' \in BOOLEAN
    BY <1>2 DEF Recover
  <2>3. UNCHANGED <<run, item, payment, worker, editor, hook, approved, tried,
                    reopened, edits, faults>>
    BY <1>2 DEF Recover
  <2>4. PayrollTypeOK'
    BY <2>1, <2>2, <2>3 DEF PayInv, PayrollTypeOK
  <2> QED
    BY <2>3, <2>4, Untouched
<1>3. ASSUME NEW w \in Payers, PayerStep(w) PROVE PayInv'
  BY <1>3, PayerKeeps, CallKeeps, SubmitKeeps, AnswerKeeps DEF PayerStep
<1>4. ASSUME NEW w \in JobWorkers, JobStep(w) PROVE PayInv'
  BY <1>3, <1>4, PayerKeeps DEF JobStep, Payers
<1>5. ASSUME NEW w \in Retriers, RetryStep(w) PROVE PayInv'
  BY <1>3, <1>5, PayerKeeps DEF RetryStep, Payers
<1>6. ASSUME NEW w \in Payers, Die(w) PROVE PayInv'
  BY <1>6, PayerKeeps
<1>7. ASSUME NEW i \in Items, HookStep(i) PROVE PayInv'
  BY <1>7, HookKeeps
<1>8. CASE UNCHANGED payrollVars
  BY <1>8, Untouched DEF payrollVars, PayInv, PayrollTypeOK
<1> QED
  BY <1>1, <1>2, <1>4, <1>5, <1>6, <1>7, <1>8 DEF PayrollNext

-----------------------------------------------------------------------------
\* A job that has started has tried, or has before it, everyone in S.
Covers(S, w) == S \cap OnRun \subseteq tried \cup worker[w].todo

Deciding(e) == editor[e].op = "approve"

\* Editors know of no item that is not on the run yet, but the one they add.
EditorsTell ==
  \A e \in Editors :
    /\ Deciding(e) => \A i \in editor[e].seen : i \notin Flagged /\ item[i] # "ABSENT"
    /\ editor[e].op = "add" => editor[e].item \in Items /\ item[editor[e].item] = "ABSENT"
    /\ editor[e].op = "remove" => editor[e].item \in Items /\ item[editor[e].item] # "ABSENT"
    /\ \A f \in Editors :
         editor[e].op = "add" /\ editor[f].op = "add" /\ editor[e].item = editor[f].item => e = f

JobsCover ==
  ~reopened =>
    /\ run = "COMPLETED" => approved \cap OnRun \subseteq tried
    /\ \A w \in JobWorkers : worker[w].pc # "idle" =>
         /\ run \in {"PROCESSING", "COMPLETED"}
         /\ Covers(approved, w)
         /\ \A e \in Editors : Deciding(e) => Covers(editor[e].seen, w)

TryInv ==
  /\ \A i \in Items : payment[i] # Unpaid => i \in tried
  /\ \A i \in approved : i \notin Flagged /\ item[i] # "ABSENT"
  /\ EditorsTell
  /\ JobsCover

LEMMA TryInit == PayrollInit => TryInv
  BY DEF PayrollInit, TryInv, EditorsTell, JobsCover, IdleEditor, IdlePayer, Deciding, Payers, Unpaid

\* Whoever pays only adds to what was tried and leaves the run to its editors.
LEMMA TryKept ==
  ASSUME PayInv, PayInv', TryInv,
         tried \subseteq tried',
         \A i \in Items : payment'[i] # Unpaid => payment[i] # Unpaid \/ i \in tried',
         \A i \in Items :
           /\ item'[i] = "ABSENT" <=> item[i] = "ABSENT"
           /\ item'[i] = "REMOVED" <=> item[i] = "REMOVED",
         UNCHANGED <<run, reopened, approved, editor>>,
         \A w \in JobWorkers :
           worker'[w].pc # "idle" =>
             worker[w].pc # "idle" /\ worker[w].todo \subseteq worker'[w].todo \cup tried'
  PROVE  TryInv'
<1>1. OnRun' = OnRun
  BY DEF OnRun
<1>2. approved \subseteq Items /\ \A e \in Editors : editor[e].seen \subseteq Items
  BY DEF PayInv, PayrollTypeOK
<1>3. EditorsTell'
  BY <1>2 DEF TryInv, EditorsTell, Deciding
<1>4. ASSUME ~reopened,
             NEW w \in JobWorkers, worker'[w].pc # "idle"
      PROVE  /\ run' \in {"PROCESSING", "COMPLETED"}
             /\ Covers(approved, w)'
             /\ \A e \in Editors : Deciding(e)' => Covers(editor[e].seen, w)'
  BY <1>1, <1>4 DEF TryInv, JobsCover, Covers, Deciding
<1>5. ~reopened' /\ run' = "COMPLETED" => approved' \cap OnRun' \subseteq tried'
  BY <1>1 DEF TryInv, JobsCover
<1>6. JobsCover'
  BY <1>4, <1>5 DEF JobsCover
<1> QED
  BY <1>2, <1>3, <1>6 DEF TryInv

LEMMA TryPay ==
  ASSUME PayInv, PayInv', TryInv, NEW w \in Payers, NEW i \in Items,
         Call(w, i) \/ Submit(w, i) \/ Answer(w, i)
  PROVE  TryInv'
<1>1. PICK from, outcomes : Pay(w, i, from, outcomes)
  BY DEF Call, Submit, Answer
<1>2. PICK out \in outcomes :
        /\ payment' = [payment EXCEPT ![i] = out.payment]
        /\ worker' = [worker EXCEPT ![w].pc = out.pc, ![w].item = i, ![w].todo = @ \ {i}]
  BY <1>1 DEF Pay
<1>3. worker[w].pc # "idle" /\ UNCHANGED <<run, item, approved, editor, reopened>>
  BY DEF Call, Submit, Answer, Pay
<1>4. i \in tried'
  <2>1. CASE Call(w, i)
    BY <2>1 DEF Call
  <2>2. CASE Submit(w, i) \/ Answer(w, i)
    <3>1. AtItem(worker[w]) /\ worker[w].item = i /\ worker[w].pc \in {"submit", "accepted"}
      BY <2>2 DEF Submit, Answer, Pay, AtItem
    <3>2. payment[i] # Unpaid
      BY <3>1 DEF PayInv, PayersTell, PlaceTells, Unpaid
    <3>3. tried' = tried
      BY <2>2 DEF Submit, Answer
    <3> QED
      BY <3>2, <3>3 DEF TryInv
  <2> QED
    BY <2>1, <2>2
<1>5. tried \subseteq tried'
  BY DEF Call, Submit, Answer
<1>6. \A j \in Items : payment'[j] # Unpaid => payment[j] # Unpaid \/ j \in tried'
  BY <1>2, <1>4 DEF PayInv, PayrollTypeOK
<1>7. \A v \in JobWorkers :
        worker'[v].pc # "idle" =>
          worker[v].pc # "idle" /\ worker[v].todo \subseteq worker'[v].todo \cup tried'
  BY <1>2, <1>3, <1>4 DEF PayInv, PayrollTypeOK, Payers
<1> QED
  BY <1>3, <1>5, <1>6, <1>7, TryKept

LEMMA TryPayer ==
  ASSUME PayInv, PayInv', TryInv, NEW w \in Payers,
         \/ w \in Retriers /\ (Reset(w) \/ \E i \in Items : Retry(w, i))
         \/ RecordSent(w) \/ RecordFailed(w) \/ Die(w)
         \/ w \in Retriers /\ Complete(w)
  PROVE  TryInv'
<1>1. UNCHANGED <<run, payment, approved, editor, reopened, tried>>
  BY PayrollAssumption DEF Reset, Retry, RecordSent, RecordFailed, Die, Complete
<1>2. \A i \in Items :
        /\ item'[i] = "ABSENT" <=> item[i] = "ABSENT"
        /\ item'[i] = "REMOVED" <=> item[i] = "REMOVED"
  <2>1. item' = item \/ \E i \in OnRun, to \in {"PENDING", "SENT", "FAILED"} : item' = [item EXCEPT ![i] = to]
    BY DEF Reset, Retry, RecordSent, RecordFailed, Die, Complete
  <2> QED
    BY <2>1 DEF OnRun, PayInv, PayrollTypeOK
<1>3. \A v \in JobWorkers :
        worker'[v].pc # "idle" =>
          worker[v].pc # "idle" /\ worker[v].todo \subseteq worker'[v].todo \cup tried'
  <2>1. CASE w \in Retriers
    <3>1. \A v \in JobWorkers : v # w
      BY <2>1, PayrollAssumption
    <3>2. \A v \in Payers \ {w} : worker'[v] = worker[v]
      BY DEF Reset, Retry, RecordSent, RecordFailed, Die, Complete, PayInv, PayrollTypeOK
    <3> QED
      BY <3>1, <3>2 DEF Payers
  <2>2. CASE RecordSent(w) \/ RecordFailed(w) \/ Die(w)
    BY <2>2 DEF RecordSent, RecordFailed, Die, PayInv, PayrollTypeOK, IdlePayer, Payers
  <2> QED
    BY <2>1, <2>2
<1> QED
  BY <1>1, <1>2, <1>3, TryKept

LEMMA TryHook ==
  ASSUME PayInv, PayInv', TryInv, NEW i \in Items, HookStep(i)
  PROVE  TryInv'
<1>1. UNCHANGED <<run, approved, editor, reopened, tried, worker>>
  BY DEF HookStep, Reconcile, HookRead, HookWrite
<1>2. \A j \in Items : payment'[j] # Unpaid => payment[j] # Unpaid
  BY DEF HookStep, Reconcile, HookRead, HookWrite, Sweepable, Unpaid, PayInv, PayrollTypeOK
<1>3. item' = item \/ (i \in OnRun /\ item' = [item EXCEPT ![i] = "CONFIRMED"])
  BY DEF HookStep, Reconcile, HookRead, HookWrite
<1>4. \A j \in Items :
        /\ item'[j] = "ABSENT" <=> item[j] = "ABSENT"
        /\ item'[j] = "REMOVED" <=> item[j] = "REMOVED"
  BY <1>3 DEF OnRun, PayInv, PayrollTypeOK
<1> QED
  BY <1>1, <1>2, <1>4, TryKept

\* A job takes on all that is on the run and not paid; a job is over when it
\* has nothing left.
LEMMA TryLoad ==
  ASSUME PayInv, PayInv', TryInv, NEW w \in JobWorkers, Load(w)
  PROVE  TryInv'
<1>1. UNCHANGED <<run, item, payment, approved, editor, reopened, tried>>
  BY DEF Load
<1>2. CASE run # "PROCESSING"
  BY <1>1, <1>2, TryKept DEF Load
<1>3. CASE run = "PROCESSING"
  <2>1. worker'[w].todo = {i \in OnRun : Executable(i)}
    <3> DEFINE S == {i \in OnRun : Executable(i)}
    <3>1. worker' = [worker EXCEPT ![w].pc = "next", ![w].todo = S]
      BY <1>3 DEF Load
    <3>2. worker \in [Payers -> PayerType] /\ w \in Payers
      BY DEF PayInv, PayrollTypeOK, PayerType, Payers
    <3> HIDE DEF S
    <3>3. worker'[w].todo = S
      BY <3>1, <3>2 DEF PayerType
    <3> QED
      BY <3>3 DEF S
  <2>2. \A v \in JobWorkers \ {w} : worker'[v] = worker[v]
    BY <1>3 DEF Load, PayInv, PayrollTypeOK, Payers
  <2>3. OnRun' = OnRun
    BY <1>1 DEF OnRun
  <2>4. \A i \in OnRun : i \notin Flagged => i \in tried \cup worker'[w].todo
    <3> SUFFICES ASSUME NEW i \in OnRun, i \notin Flagged, i \notin worker'[w].todo
                 PROVE  i \in tried
      OBVIOUS
    <3>1. i \in Items /\ item[i] \in {"SENT", "CONFIRMED"}
      BY <2>1 DEF Executable, OnRun
    <3>2. payment[i] # Unpaid
      BY <3>1 DEF PayInv, ItemsTell, Paid, Unpaid
    <3> QED
      BY <3>1, <3>2 DEF TryInv
  <2>5. Covers(approved, w)'
    BY <1>1, <2>3, <2>4 DEF Covers, TryInv
  <2>6. \A e \in Editors : Deciding(e)' => Covers(editor[e].seen, w)'
    BY <1>1, <2>3, <2>4 DEF Covers, TryInv, EditorsTell, Deciding
  <2>7. ASSUME ~reopened, NEW v \in JobWorkers \ {w}, worker'[v].pc # "idle"
        PROVE  Covers(approved, v)' /\ \A e \in Editors : Deciding(e)' => Covers(editor[e].seen, v)'
    BY <1>1, <2>2, <2>3, <2>7 DEF TryInv, JobsCover, Covers, Deciding
  <2>8. JobsCover'
    BY <1>1, <1>3, <2>5, <2>6, <2>7 DEF JobsCover
  <2>9. EditorsTell'
    BY <1>1 DEF TryInv, EditorsTell, Deciding
  <2> QED
    BY <1>1, <2>8, <2>9 DEF TryInv
<1> QED
  BY <1>2, <1>3

LEMMA TryComplete ==
  ASSUME PayInv, PayInv', TryInv, NEW w \in JobWorkers, Complete(w)
  PROVE  TryInv'
<1>1. UNCHANGED <<item, payment, approved, editor, reopened, tried>>
  BY DEF Complete
<1>2. worker[w].pc = "next" /\ worker[w].todo = {}
  BY DEF Complete, LoopOver
<1>3. worker'[w].pc = "idle" /\ \A v \in JobWorkers \ {w} : worker'[v] = worker[v]
  BY DEF Complete, IdlePayer, PayInv, PayrollTypeOK, Payers
<1>4. OnRun' = OnRun
  BY <1>1 DEF OnRun
<1>5. ~reopened => run' = "COMPLETED" /\ approved \cap OnRun \subseteq tried
  BY <1>2 DEF Complete, TryInv, JobsCover, Covers
<1>6. ASSUME ~reopened, NEW v \in JobWorkers, worker'[v].pc # "idle"
      PROVE  Covers(approved, v)' /\ \A e \in Editors : Deciding(e)' => Covers(editor[e].seen, v)'
  BY <1>1, <1>3, <1>4, <1>6 DEF TryInv, JobsCover, Covers, Deciding
<1>7. JobsCover'
  BY <1>1, <1>4, <1>5, <1>6 DEF JobsCover
<1>8. EditorsTell'
  BY <1>1 DEF TryInv, EditorsTell, Deciding
<1> QED
  BY <1>1, <1>7, <1>8 DEF TryInv

-----------------------------------------------------------------------------
\* An editor's request, read and written.
LEMMA TryRead ==
  ASSUME PayInv, PayInv', TryInv, NEW e \in Editors, NEW op, NEW i \in Items \cup {NoItem},
         ReadRun(e, op, i)
  PROVE  TryInv'
<1>1. UNCHANGED <<run, item, payment, worker, approved, reopened, tried>>
  BY DEF ReadRun
<1>2. OnRun' = OnRun
  BY <1>1 DEF OnRun
<1>3. editor' = [editor EXCEPT ![e] = [op |-> op, item |-> i, seen |-> OnRun]] /\ EditAllowed(op, i)
  BY DEF ReadRun
<1>4. editor \in [Editors -> EditorType]
  BY DEF PayInv, PayrollTypeOK, EditorType
<1>5. Deciding(e)' => run = "PENDING_APPROVAL" /\ OnRun \cap Flagged = {}
  BY <1>3, <1>4 DEF Deciding, EditAllowed
<1>6. \A f \in Editors \ {e} : editor'[f] = editor[f]
  BY <1>3, <1>4
<1>7. EditorsTell'
  <2>1. editor'[e] = [op |-> op, item |-> i, seen |-> OnRun]
    BY <1>3, <1>4
  <2>2. op = "add" => i \in Items /\ item[i] = "ABSENT" /\ \A f \in Editors : editor[f].item # i
    BY <1>3 DEF EditAllowed
  <2>3. op = "remove" => i \in Items /\ item[i] # "ABSENT"
    BY <1>3 DEF EditAllowed, OnRun
  <2>4. op = "approve" => \A j \in OnRun : j \notin Flagged /\ item[j] # "ABSENT"
    BY <1>3 DEF EditAllowed, OnRun
  <2> QED
    BY <1>1, <1>6, <2>1, <2>2, <2>3, <2>4 DEF TryInv, EditorsTell, Deciding
<1>8. ASSUME ~reopened, NEW w \in JobWorkers, worker[w].pc # "idle"
      PROVE  /\ run \in {"PROCESSING", "COMPLETED"} /\ Covers(approved, w)'
             /\ \A f \in Editors : Deciding(f)' => Covers(editor[f].seen, w)'
  BY <1>1, <1>2, <1>5, <1>6, <1>8 DEF TryInv, JobsCover, Covers, Deciding
<1>9. JobsCover'
  BY <1>1, <1>2, <1>8 DEF TryInv, JobsCover
<1> QED
  BY <1>1, <1>7, <1>9 DEF TryInv

LEMMA TryWrite ==
  ASSUME PayInv, PayInv', TryInv, NEW e \in Editors,
         WriteItem(e) \/ WriteStatus(e) \/ Approve(e) \/ InsufficientBalance(e) \/ Enqueue(e)
  PROVE  TryInv'
<1>1. UNCHANGED <<payment, worker, tried>>
  BY DEF WriteItem, WriteStatus, Approve, InsufficientBalance, Enqueue
<1>2. editor \in [Editors -> EditorType] /\ editor[e] \in EditorType
  BY DEF PayInv, PayrollTypeOK, EditorType
<1>3. \A f \in Editors \ {e} : editor'[f] = editor[f]
  BY <1>2 DEF WriteItem, WriteStatus, Approve, InsufficientBalance, Enqueue
<1>4. editor'[e].op \in {"none", "enqueue"}
  BY <1>2 DEF WriteItem, WriteStatus, Approve, InsufficientBalance, Enqueue, IdleEditor
\* An item that was absent is put on the run only by the editor who adds it.
<1>5. \A i \in Items :
        \/ item'[i] = item[i]
        \/ i \in OnRun /\ item'[i] = "REMOVED"
        \/ item[i] # "ABSENT" /\ item'[i] = "REMOVED"
        \/ editor[e].op = "add" /\ editor[e].item = i /\ item[i] = "ABSENT" /\ item'[i] = "PENDING"
  BY DEF WriteItem, WriteStatus, Approve, InsufficientBalance, Enqueue, TryInv, EditorsTell,
     PayInv, PayrollTypeOK
<1>6. EditorsTell'
  <2>1. \A i \in Items : item[i] # "ABSENT" => item'[i] # "ABSENT"
    BY <1>5 DEF OnRun
  <2>2. ASSUME NEW f \in Editors, editor'[f].op = "add"
        PROVE  editor[f].op = "add" /\ editor'[f] = editor[f] /\ item'[editor[f].item] = "ABSENT"
    BY <1>3, <1>4, <1>5, <2>2 DEF TryInv, EditorsTell, OnRun
  <2>3. ASSUME NEW f \in Editors, Deciding(f)' \/ editor'[f].op = "remove"
        PROVE  editor'[f] = editor[f]
    BY <1>3, <1>4, <2>3 DEF Deciding
  <2>4. \A f \in Editors : editor[f].seen \subseteq Items
    BY <1>2 DEF EditorType
  <2> QED
    BY <2>1, <2>2, <2>3, <2>4 DEF TryInv, EditorsTell, Deciding
<1>7. /\ approved' = approved \/ (Deciding(e) /\ approved' = editor[e].seen)
      /\ ~reopened' => ~reopened /\ (run' = run \/ run' = "PROCESSING" \/ run \notin {"PROCESSING", "COMPLETED"})
      /\ ~reopened' /\ run' = "COMPLETED" => run = "COMPLETED" /\ approved' = approved
  BY DEF WriteItem, WriteStatus, Approve, InsufficientBalance, Enqueue, Deciding, PayInv, PayrollTypeOK
<1>8. \A i \in approved' : i \notin Flagged /\ item'[i] # "ABSENT"
  BY <1>5, <1>7 DEF TryInv, EditorsTell, PayInv, PayrollTypeOK, OnRun
<1>9. ASSUME NEW S \in SUBSET Items, \A i \in S : item[i] # "ABSENT"
      PROVE  S \cap OnRun' \subseteq S \cap OnRun
  BY <1>5, <1>9 DEF OnRun
<1>10. ASSUME ~reopened', NEW w \in JobWorkers, worker[w].pc # "idle"
       PROVE  /\ run' \in {"PROCESSING", "COMPLETED"} /\ Covers(approved, w)'
              /\ \A f \in Editors : Deciding(f)' => Covers(editor[f].seen, w)'
  <2>1. /\ run \in {"PROCESSING", "COMPLETED"} /\ Covers(approved, w)
        /\ \A f \in Editors : Deciding(f) => Covers(editor[f].seen, w)
    BY <1>7, <1>10 DEF TryInv, JobsCover
  <2>2. Covers(approved', w)
    BY <1>7, <2>1
  <2>3. approved' \cap OnRun' \subseteq approved' \cap OnRun
    <3>1. \A i \in approved' : item[i] # "ABSENT"
      BY <1>7 DEF TryInv, EditorsTell
    <3>2. approved' \in SUBSET Items
      BY DEF PayInv, PayrollTypeOK
    <3> QED
      BY <1>9, <3>1, <3>2
  <2>4. ASSUME NEW f \in Editors, Deciding(f)' PROVE Covers(editor[f].seen, w)'
    <3>1. Deciding(f) /\ editor'[f] = editor[f]
      BY <1>3, <1>4, <2>4 DEF Deciding
    <3>2. editor[f].seen \in SUBSET Items /\ \A i \in editor[f].seen : item[i] # "ABSENT"
      BY <1>2, <3>1 DEF TryInv, EditorsTell, EditorType
    <3>3. editor[f].seen \cap OnRun' \subseteq editor[f].seen \cap OnRun
      BY <1>9, <3>2
    <3> QED
      BY <1>1, <2>1, <3>1, <3>3 DEF Covers
  <2>5. run' \in {"PROCESSING", "COMPLETED"}
    BY <1>7, <1>10, <2>1
  <2>6. Covers(approved, w)'
    BY <1>1, <2>2, <2>3 DEF Covers
  <2> QED
    BY <2>4, <2>5, <2>6
<1>11. ~reopened' /\ run' = "COMPLETED" => approved' \cap OnRun' \subseteq tried'
  <2>1. approved \in SUBSET Items /\ \A i \in approved : item[i] # "ABSENT"
    BY DEF TryInv, PayInv, PayrollTypeOK
  <2>2. approved \cap OnRun' \subseteq approved \cap OnRun
    BY <1>9, <2>1
  <2> QED
    BY <1>1, <1>7, <2>2 DEF TryInv, JobsCover
<1>12. JobsCover'
  BY <1>1, <1>10, <1>11 DEF JobsCover
<1> QED
  BY <1>1, <1>6, <1>8, <1>12 DEF TryInv

LEMMA TryNext == PayInv /\ PayInv' /\ TryInv /\ [PayrollNext]_payrollVars => TryInv'
<1> SUFFICES ASSUME PayInv, PayInv', TryInv, [PayrollNext]_payrollVars PROVE TryInv'
  OBVIOUS
<1>1. ASSUME NEW e \in Editors, EditStep(e) PROVE TryInv'
  BY <1>1, TryRead, TryWrite DEF EditStep
<1>2. CASE Recover \/ UNCHANGED payrollVars
  <2>1. UNCHANGED <<run, item, payment, worker, editor, approved, tried, reopened>>
    BY <1>2 DEF Recover, payrollVars
  <2> QED
    BY <2>1, TryKept
<1>3. ASSUME NEW w \in JobWorkers, JobStep(w) PROVE TryInv'
  BY <1>3, TryLoad, TryPay, TryPayer, TryComplete DEF JobStep, PayerStep, Payers
<1>4. ASSUME NEW w \in Retriers, RetryStep(w) PROVE TryInv'
  BY <1>4, TryPay, TryPayer DEF RetryStep, PayerStep, Payers
<1>5. ASSUME NEW w \in Payers, Die(w) PROVE TryInv'
  BY <1>5, TryPayer
<1>6. ASSUME NEW i \in Items, HookStep(i) PROVE TryInv'
  BY <1>6, TryHook
<1> QED
  BY <1>1, <1>2, <1>3, <1>4, <1>5, <1>6 DEF PayrollNext

-----------------------------------------------------------------------------
\* Every variable of a payroll run keeps its type.
THEOREM PayrollTypeCorrect == PayrollSpec => []PayrollTypeOK
<1>1. PayInv => PayrollTypeOK
  BY DEF PayInv
<1> QED
  BY PayInit, PayNext, <1>1, PTL DEF PayrollSpec

\* A payee is paid again for one item only if the answer to the payment before
\* was lost, however many jobs, retries and sweeps work on the run at once and
\* wherever they crash.
THEOREM PaysItemAgainOnlyIfLost == PayrollSpec => []ItemPaidAgainOnlyIfLost
<1>1. PayInv => ItemPaidAgainOnlyIfLost
  BY DEF PayInv, RowsTell, RowTells, ItemPaidAgainOnlyIfLost, AgainOnlyIfLost
<1> QED
  BY PayInit, PayNext, <1>1, PTL DEF PayrollSpec

\* An item shown SENT or CONFIRMED was paid, and unless an answer was lost its
\* row is CONFIRMED.
THEOREM SentItemsWerePaid == PayrollSpec => []SentWasPaid
<1>1. PayInv => SentWasPaid
  BY DEF PayInv, ItemsTell, Paid, SentWasPaid
<1> QED
  BY PayInit, PayNext, <1>1, PTL DEF PayrollSpec

\* A COMPLETED run has tried to pay everyone its approver saw, unless a late
\* write of an editor reopened it.
THEOREM TriesEveryone == PayrollSpec => []EveryoneTried
<1>1. TryInv => EveryoneTried
  BY DEF TryInv, JobsCover, EveryoneTried
<1> QED
  BY PayInit, PayNext, TryInit, TryNext, <1>1, PTL DEF PayrollSpec
=============================================================================
