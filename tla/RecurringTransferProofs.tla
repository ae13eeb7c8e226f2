------------------------ MODULE RecurringTransferProofs ------------------------
(***************************************************************************)
(* Proofs about RecurringTransfer, for any sweeps, clients and cycles.     *)
(*                                                                         *)
(* RecurringInv relates each execution row to the sweeps that work on it:  *)
(* several may hold the same row, since a stale PENDING one is taken over, *)
(* but one of them at a time submits its payment or awaits the answer.     *)
(***************************************************************************)
EXTENDS RecurringTransfer, SequenceTheorems, TLAPS

PaymentType == [row : {"NONE", "CLAIMED", "FAILED", "CONFIRMED"}, made : Nat, lost : Nat]

RowType == [date : Nat, status : {"PENDING", "SUCCESS", "FAILED"}, payment : PaymentType]

SweepPlaces ==
  {"idle", "retire", "find", "create", "check", "next", "submit", "accepted", "move",
   "sent", "failed", "advance"}

SweepType == [pc : SweepPlaces, date : Nat, row : Nat]

\* Places in which a sweep holds a row.
Holding == {"check", "next", "submit", "accepted", "move", "sent", "failed"}

\* What a row says of what was moved for it.
RowTells(x) ==
  /\ x.status = "SUCCESS" \/ x.payment.row = "CONFIRMED" => x.payment.made >= 1
  /\ ~internal =>
       /\ x.payment.lost <= x.payment.made /\ x.payment.made <= x.payment.lost + 1
       /\ x.payment.row \in {"NONE", "FAILED"} => x.payment.made = x.payment.lost

\* Between the claim of the payment and the end of the attempt.
Claiming(pc) == pc \in {"submit", "accepted"}

\* What a sweep's place says of the payment p of its row.
PlaceTells(pc, p) ==
  /\ pc = "next" => ~internal
  /\ pc = "move" => internal
  /\ pc = "submit" => ~internal /\ p.row \in {"CLAIMED", "CONFIRMED"} /\ p.made = p.lost
  /\ pc = "accepted" => ~internal /\ p.row \in {"CLAIMED", "CONFIRMED"} /\ p.made = p.lost + 1
  /\ pc = "sent" => p.made >= 1

OneSubmits ==
  \A s, t \in Sweeps :
    Claiming(sweep[s].pc) /\ Claiming(sweep[t].pc) /\ sweep[s].row = sweep[t].row => s = t

RecurringInv ==
  /\ RecurringTypeOK
  /\ \A r \in DOMAIN rows : RowTells(rows[r])
  /\ \A s \in Sweeps :
       sweep[s].pc \in Holding => PlaceTells(sweep[s].pc, rows[sweep[s].row].payment)
  /\ OneSubmits

\* A lost answer, field by field.
LEMMA UnansweredFields ==
  ASSUME NEW p \in PaymentType
  PROVE  /\ Unanswered(p) \in PaymentType /\ Unanswered(p).row = "FAILED"
         /\ Unanswered(p).made = p.made /\ Unanswered(p).lost = p.lost + 1
<1> DEFINE n == p.lost + 1
<1>1. n \in Nat
  BY DEF PaymentType
<1>2. Unanswered(p) = [p EXCEPT !.row = "FAILED", !.lost = n]
  BY DEF Unanswered
<1>3. n = p.lost + 1
  OBVIOUS
<1> HIDE DEF n
<1> QED
  BY <1>1, <1>2, <1>3 DEF PaymentType

LEMMA RecurringTypes ==
  ASSUME RecurringInv
  PROVE  /\ rows \in Seq(RowType) /\ DOMAIN rows = 1..Len(rows) /\ Len(rows) \in Nat
         /\ sweep \in [Sweeps -> SweepType]
         /\ \A s \in Sweeps : sweep[s].pc \in Holding => sweep[s].row \in DOMAIN rows
         /\ \A r \in DOMAIN rows : rows[r] \in RowType
<1>1. rows \in Seq(RowType)
  BY DEF RecurringInv, RecurringTypeOK, RowType, PaymentType
<1>2. sweep \in [Sweeps -> SweepType]
  BY DEF RecurringInv, RecurringTypeOK, SweepType, SweepPlaces
<1>3. \A s \in Sweeps : sweep[s].pc \in Holding => sweep[s].row \in DOMAIN rows
  BY DEF RecurringInv, RecurringTypeOK, Holding
<1>4. DOMAIN rows = 1..Len(rows) /\ Len(rows) \in Nat /\ \A r \in DOMAIN rows : rows[r] \in RowType
  BY <1>1, LenProperties
<1> QED
  BY <1>1, <1>2, <1>3, <1>4

LEMMA RecurringStart == RecurringInit => RecurringInv
<1> SUFFICES ASSUME RecurringInit PROVE RecurringInv
  OBVIOUS
<1>1. rows \in Seq(RowType) /\ DOMAIN rows = {}
  BY DEF RecurringInit
<1>2. sweep \in [Sweeps -> SweepType] /\ \A s \in Sweeps : sweep[s].pc = "idle"
  BY DEF RecurringInit, IdleSweeper, SweepType, SweepPlaces
<1>3. plan \in [status : {"ACTIVE", "PAUSED", "CANCELLED", "COMPLETED"}, next : Nat]
  BY DEF RecurringInit
<1>4. RecurringTypeOK
  BY <1>1, <1>2, <1>3
     DEF RecurringInit, RecurringTypeOK, RowType, PaymentType, SweepType, SweepPlaces
<1> QED
  BY <1>1, <1>2, <1>4 DEF RecurringInv, OneSubmits, Holding, Claiming

-----------------------------------------------------------------------------
\* A sweep moves on without a write to a row.
LEMMA SweepMovesOn ==
  ASSUME RecurringInv, NEW s \in Sweeps, NEW c \in SweepType,
         sweep' = [sweep EXCEPT ![s] = c], ~Claiming(c.pc),
         c.pc \in Holding => c.row \in DOMAIN rows /\ PlaceTells(c.pc, rows[c.row].payment),
         UNCHANGED <<internal, rows, client>>,
         plan' \in [status : {"ACTIVE", "PAUSED", "CANCELLED", "COMPLETED"}, next : Nat],
         skipped' \subseteq Nat, mishaps' \in Nat
  PROVE  RecurringInv'
<1>1. sweep' \in [Sweeps -> SweepType] /\ sweep'[s] = c /\ \A t \in Sweeps \ {s} : sweep'[t] = sweep[t]
  BY RecurringTypes
<1>2. \A t \in Sweeps : sweep'[t].pc \in Holding =>
        sweep'[t].row \in DOMAIN rows /\ PlaceTells(sweep'[t].pc, rows[sweep'[t].row].payment)
  BY <1>1, RecurringTypes DEF RecurringInv
<1>3. RecurringTypeOK'
  BY <1>1, <1>2 DEF RecurringInv, RecurringTypeOK, SweepType, SweepPlaces, Holding
<1>4. OneSubmits'
  BY <1>1 DEF RecurringInv, OneSubmits, Claiming
<1> QED
  BY <1>2, <1>3, <1>4 DEF RecurringInv, RowTells, PlaceTells

\* A sweep that holds a row writes x over it and goes to pc.
Harmless(s, x, pc) ==
  /\ x \in RowType /\ RowTells(x)
  /\ pc \in SweepPlaces /\ (pc \in Holding => PlaceTells(pc, x.payment))
  /\ \A t \in Sweeps \ {s} :
       sweep[t].pc \in Holding /\ sweep[t].row = sweep[s].row =>
         PlaceTells(sweep[t].pc, x.payment) /\ ~(Claiming(sweep[t].pc) /\ Claiming(pc))

LEMMA RowWritten ==
  ASSUME RecurringInv, NEW s \in Sweeps, NEW x, NEW pc, sweep[s].pc \in Holding,
         Harmless(s, x, pc),
         rows' = [rows EXCEPT ![sweep[s].row] = x], SweepTo(s, pc),
         UNCHANGED <<plan, internal, client, skipped, mishaps>>
  PROVE  RecurringInv'
<1> DEFINE r == sweep[s].row
           c == [sweep[s] EXCEPT !.pc = pc]
<1>1. r \in DOMAIN rows /\ r \in 1..Len(rows)
  BY RecurringTypes
<1>2. /\ rows' \in Seq(RowType) /\ Len(rows') = Len(rows) /\ DOMAIN rows' = DOMAIN rows
      /\ rows'[r] = x /\ \A q \in DOMAIN rows \ {r} : rows'[q] = rows[q]
  BY <1>1, RecurringTypes, ExceptSeq DEF Harmless
<1>3. c \in SweepType /\ c.pc = pc /\ c.row = r
  BY RecurringTypes DEF Harmless, SweepType
<1>4. sweep' = [sweep EXCEPT ![s] = c]
  BY RecurringTypes DEF SweepTo
<1>h. r = sweep[s].row
  OBVIOUS
<1> HIDE DEF r, c
<1>5. sweep' \in [Sweeps -> SweepType] /\ sweep'[s] = c /\ \A t \in Sweeps \ {s} : sweep'[t] = sweep[t]
  BY <1>3, <1>4, RecurringTypes
<1>6. \A t \in Sweeps : sweep'[t].pc \in Holding =>
        sweep'[t].row \in DOMAIN rows /\ PlaceTells(sweep'[t].pc, rows'[sweep'[t].row].payment)
  BY <1>1, <1>2, <1>3, <1>5, <1>h, RecurringTypes DEF Harmless, RecurringInv
<1>7. RecurringTypeOK'
  BY <1>2, <1>5, <1>6
     DEF RecurringInv, RecurringTypeOK, SweepType, SweepPlaces, Holding, RowType, PaymentType
<1>8. \A q \in DOMAIN rows : RowTells(rows'[q])
  BY <1>2 DEF Harmless, RecurringInv
<1>9. OneSubmits'
  BY <1>3, <1>5, <1>h DEF Harmless, RecurringInv, OneSubmits, Holding, Claiming
<1> QED
  BY <1>2, <1>6, <1>7, <1>8, <1>9 DEF RecurringInv, RowTells, PlaceTells

-----------------------------------------------------------------------------
\* The steps of sendPayment and of a move inside the organization.
LEMMA RowPaid ==
  ASSUME RecurringInv, NEW s \in Sweeps, Send(s) \/ MoveInside(s)
  PROVE  RecurringInv'
<1> DEFINE r == sweep[s].row
           p == rows[r].payment
<1>1. sweep[s].pc \in Holding /\ r \in DOMAIN rows
  BY RecurringTypes DEF Send, MoveInside, PayRow, Holding
<1>2. /\ p \in PaymentType /\ rows[r] \in RowType /\ RowTells(rows[r])
      /\ PlaceTells(sweep[s].pc, p)
  BY <1>1, RecurringTypes DEF RecurringInv, RowType
<1>3. \A t \in Sweeps \ {s} :
        sweep[t].pc \in Holding /\ sweep[t].row = r =>
          PlaceTells(sweep[t].pc, p) /\ ~(Claiming(sweep[t].pc) /\ Claiming(sweep[s].pc))
  BY DEF RecurringInv, OneSubmits, Claiming
<1>4. PICK out :
        /\ \/ sweep[s].pc = "next" /\ out \in Calls(p)
           \/ sweep[s].pc = "submit" /\ out \in Submits(p)
           \/ sweep[s].pc = "accepted" /\ out \in Answers(p)
           \/ sweep[s].pc = "move" /\ out \in MovesInside(p)
        /\ rows' = [rows EXCEPT ![r].payment = out.payment]
        /\ SweepTo(s, out.pc)
        /\ UNCHANGED <<plan, internal, client, skipped, mishaps>>
  BY DEF Send, MoveInside, PayRow
<1> DEFINE x == [rows[r] EXCEPT !.payment = out.payment]
<1>5. rows' = [rows EXCEPT ![r] = x]
  BY <1>1, <1>4, RecurringTypes
<1>6. x.payment = out.payment /\ x.status = rows[r].status
      /\ (out.payment \in PaymentType => x \in RowType)
  BY <1>2 DEF RowType
<1>h. p = rows[r].payment /\ r = sweep[s].row
  OBVIOUS
<1> HIDE DEF p, x, r
<1>7. Harmless(s, x, out.pc)
  <2>1. CASE sweep[s].pc = "next" /\ out \in Calls(p)
    <3>1. \/ out = Outcome("failed", p)
          \/ out = Outcome("sent", p) /\ p.row = "CONFIRMED"
          \/ out = Outcome("submit", [p EXCEPT !.row = "CLAIMED"]) /\ p.row \in {"NONE", "FAILED"}
      BY <2>1 DEF Calls, Replayed, Free
    <3>2. CASE out = Outcome("failed", p) \/ (out = Outcome("sent", p) /\ p.row = "CONFIRMED")
      BY <1>2, <1>3, <1>6, <1>h, <3>2
         DEF Outcome, Harmless, RowTells, PlaceTells, SweepPlaces, Claiming
    <3>3. CASE out = Outcome("submit", [p EXCEPT !.row = "CLAIMED"]) /\ p.row \in {"NONE", "FAILED"}
      BY <1>2, <1>3, <1>6, <1>h, <2>1, <3>3
         DEF Outcome, Harmless, RowTells, PlaceTells, SweepPlaces, PaymentType, Claiming
    <3> QED
      BY <3>1, <3>2, <3>3
  <2>2. CASE sweep[s].pc = "submit" /\ out \in Submits(p)
    <3>1. \A t \in Sweeps \ {s} :
            sweep[t].pc \in Holding /\ sweep[t].row = r => ~Claiming(sweep[t].pc)
      BY <1>3, <2>2 DEF Claiming
    <3>2. ~internal /\ p.row \in {"CLAIMED", "CONFIRMED"} /\ p.made = p.lost
      BY <1>2, <2>2 DEF PlaceTells
    <3>3. CASE out = Outcome("accepted", [p EXCEPT !.made = @ + 1])
      <4>1. /\ out.pc = "accepted" /\ out.payment \in PaymentType
            /\ out.payment.row = p.row /\ out.payment.lost = p.lost
            /\ out.payment.made = p.made + 1
        BY <1>2, <3>3 DEF Outcome, PaymentType
      <4> QED
        BY <1>2, <1>3, <1>6, <1>h, <3>1, <3>2, <4>1
           DEF Harmless, RowTells, PlaceTells, SweepPlaces, PaymentType, Claiming
    <3>4. CASE out = Outcome("failed", [p EXCEPT !.row = "FAILED"])
      <4>1. /\ out.pc = "failed" /\ out.payment \in PaymentType
            /\ out.payment.row = "FAILED" /\ out.payment.lost = p.lost
            /\ out.payment.made = p.made
        BY <1>2, <3>4 DEF Outcome, PaymentType
      <4> QED
        BY <1>2, <1>3, <1>6, <1>h, <3>1, <3>2, <4>1
           DEF Harmless, RowTells, PlaceTells, SweepPlaces, PaymentType, Claiming
    <3> QED
      BY <2>2, <3>3, <3>4 DEF Submits
  <2>3. CASE sweep[s].pc = "accepted" /\ out \in Answers(p)
    <3>1. CASE out.pc \in {"sent", "failed"} /\ out.payment \in {p, [p EXCEPT !.row = "CONFIRMED"]}
      BY <1>2, <1>3, <1>6, <1>h, <2>3, <3>1
         DEF Harmless, RowTells, PlaceTells, SweepPlaces, PaymentType, Claiming
    <3>2. CASE out = Outcome("failed", Unanswered(p))
      <4>1. out.payment = Unanswered(p) /\ out.pc = "failed"
        BY <3>2 DEF Outcome
      <4>2. /\ out.payment \in PaymentType /\ out.payment.row = "FAILED"
            /\ out.payment.made = p.made /\ out.payment.lost = p.lost + 1
        BY <1>2, <4>1, UnansweredFields
      <4>3. /\ ~internal /\ p.made = p.lost + 1
            /\ \A t \in Sweeps \ {s} :
                 sweep[t].pc \in Holding /\ sweep[t].row = r => ~Claiming(sweep[t].pc)
        BY <1>2, <1>3, <2>3 DEF PlaceTells, Claiming
      <4>4. RowTells(x)
        BY <1>2, <1>6, <4>2, <4>3 DEF RowTells, PaymentType
      <4>5. \A t \in Sweeps \ {s} :
              sweep[t].pc \in Holding /\ sweep[t].row = r => PlaceTells(sweep[t].pc, out.payment)
        BY <1>2, <1>3, <4>2, <4>3 DEF PlaceTells, Claiming, PaymentType
      <4> QED
        BY <1>6, <1>h, <4>1, <4>2, <4>4, <4>5 DEF Harmless, PlaceTells, SweepPlaces, Claiming
    <3> QED
      BY <2>3, <3>1, <3>2 DEF Answers, Outcome, Confirmed
  <2>4. CASE sweep[s].pc = "move" /\ out \in MovesInside(p)
    <3>1. out = Outcome("sent", [p EXCEPT !.made = @ + 1]) \/ out = Outcome("failed", p)
      BY <2>4 DEF MovesInside
    <3> QED
      BY <1>2, <1>3, <1>6, <1>h, <2>4, <3>1
         DEF Outcome, Harmless, RowTells, PlaceTells, SweepPlaces, PaymentType, Claiming
  <2> QED
    BY <1>4, <2>1, <2>2, <2>3, <2>4
<1> QED
  BY <1>1, <1>4, <1>5, <1>7, <1>h, RowWritten

LEMMA RowMarked ==
  ASSUME RecurringInv, NEW s \in Sweeps, Mark(s)
  PROVE  RecurringInv'
<1> DEFINE r == sweep[s].row
           x == [rows[r] EXCEPT !.status = IF sweep[s].pc = "sent" THEN "SUCCESS" ELSE "FAILED"]
<1>1. sweep[s].pc \in {"sent", "failed"} /\ r \in DOMAIN rows
  BY RecurringTypes DEF Mark, Holding
<1>2. /\ rows[r] \in RowType /\ RowTells(rows[r])
      /\ \A t \in Sweeps : sweep[t].pc \in Holding /\ sweep[t].row = r =>
           PlaceTells(sweep[t].pc, rows[r].payment)
  BY <1>1, RecurringTypes DEF RecurringInv
<1>3. PlaceTells(sweep[s].pc, rows[r].payment)
  BY <1>1, <1>2 DEF Holding
<1>4. x \in RowType /\ x.payment = rows[r].payment /\ (x.status = "SUCCESS" => sweep[s].pc = "sent")
  BY <1>2 DEF RowType
<1>5. rows' = [rows EXCEPT ![r] = x]
  BY <1>1, RecurringTypes DEF Mark
<1>h. r = sweep[s].row
  OBVIOUS
<1> HIDE DEF x, r
<1>6. Harmless(s, x, "advance")
  BY <1>2, <1>3, <1>4, <1>h DEF Harmless, RowTells, PlaceTells, SweepPlaces, Holding, Claiming
<1>7. SweepTo(s, "advance") /\ UNCHANGED <<plan, internal, client, skipped, mishaps>>
  BY DEF Mark
<1>8. sweep[s].pc \in Holding
  BY <1>1 DEF Holding
<1> QED
  BY <1>5, <1>6, <1>7, <1>8, <1>h, RowWritten

\* A new row is nobody else's.
LEMMA RowCreated ==
  ASSUME RecurringInv, NEW s \in Sweeps, CreateRow(s)
  PROVE  RecurringInv'
<1> DEFINE x == NewCycle(sweep[s].date)
           n == Len(rows) + 1
           c == [sweep[s] EXCEPT !.pc = "check", !.row = n]
<1>1. x \in RowType /\ RowTells(x)
  BY RecurringTypes DEF NewCycle, Unpaid, RowType, PaymentType, SweepType, RowTells
<1>2. rows' = Append(rows, x)
  BY DEF CreateRow
<1>0. sweep[s] \in SweepType /\ n \in Nat
  BY RecurringTypes
<1>3. c \in SweepType /\ c.pc = "check" /\ c.row = n
  BY <1>0 DEF SweepType, SweepPlaces
<1>4. sweep' = [sweep EXCEPT ![s] = c]
  BY RecurringTypes DEF CreateRow
<1>h. n = Len(rows) + 1
  OBVIOUS
<1> HIDE DEF x, n, c
<1>5. /\ rows' \in Seq(RowType) /\ DOMAIN rows' = 1..n /\ rows'[n] = x
      /\ \A r \in DOMAIN rows : r \in DOMAIN rows' /\ rows'[r] = rows[r]
  BY <1>1, <1>2, <1>h, RecurringTypes, AppendProperties, LenProperties
<1>6. sweep' \in [Sweeps -> SweepType] /\ sweep'[s] = c /\ \A t \in Sweeps \ {s} : sweep'[t] = sweep[t]
  BY <1>3, <1>4, RecurringTypes
<1>7. n \in DOMAIN rows'
  BY <1>5, <1>h, RecurringTypes
<1>8. \A t \in Sweeps : sweep'[t].pc \in Holding =>
        sweep'[t].row \in DOMAIN rows' /\ PlaceTells(sweep'[t].pc, rows'[sweep'[t].row].payment)
  BY <1>3, <1>5, <1>6, <1>7, RecurringTypes DEF RecurringInv, PlaceTells
<1>9. \A r \in DOMAIN rows' : RowTells(rows'[r])
  BY <1>1, <1>5, <1>h, RecurringTypes DEF RecurringInv
<1>10. UNCHANGED <<plan, internal, client, skipped, mishaps>>
  BY DEF CreateRow
<1>11. RecurringTypeOK'
  BY <1>5, <1>6, <1>8, <1>10
     DEF RecurringInv, RecurringTypeOK, SweepType, SweepPlaces, Holding, RowType, PaymentType
<1>12. OneSubmits'
  BY <1>3, <1>6 DEF RecurringInv, OneSubmits, Claiming
<1> QED
  BY <1>8, <1>9, <1>10, <1>11, <1>12 DEF RecurringInv, RowTells, PlaceTells

-----------------------------------------------------------------------------
\* The other steps of a sweep, one place to the next.
LEMMA SweepGoes ==
  ASSUME RecurringInv, NEW s \in Sweeps, NEW pc \in SweepPlaces, SweepTo(s, pc), ~Claiming(pc),
         pc \in Holding => sweep[s].pc \in Holding /\ PlaceTells(pc, rows[sweep[s].row].payment),
         UNCHANGED <<plan, internal, rows, client>>, skipped' \subseteq Nat, mishaps' \in Nat
  PROVE  RecurringInv'
<1> DEFINE c == [sweep[s] EXCEPT !.pc = pc]
<1>1. c \in SweepType /\ c.pc = pc /\ c.row = sweep[s].row
  BY RecurringTypes DEF SweepType
<1>2. sweep' = [sweep EXCEPT ![s] = c]
  BY RecurringTypes DEF SweepTo
<1>3. plan' \in [status : {"ACTIVE", "PAUSED", "CANCELLED", "COMPLETED"}, next : Nat]
  BY DEF RecurringInv, RecurringTypeOK
<1> HIDE DEF c
<1> QED
  BY <1>1, <1>2, <1>3, RecurringTypes, SweepMovesOn

LEMMA CycleKeeps ==
  ASSUME RecurringInv, NEW s \in Sweeps, CycleStep(s)
  PROVE  RecurringInv'
<1>1. /\ plan \in [status : {"ACTIVE", "PAUSED", "CANCELLED", "COMPLETED"}, next : Nat]
      /\ skipped \subseteq Nat /\ mishaps \in Nat /\ mishaps + 1 \in Nat
      /\ sweep[s] \in SweepType /\ sweep[s].date \in Nat
      /\ IdleSweeper \in SweepType /\ IdleSweeper.pc \notin Holding
  BY RecurringTypes DEF RecurringInv, RecurringTypeOK, SweepType, SweepPlaces, IdleSweeper, Holding
<1>2. CASE List(s)
  <2>1. PICK pc \in {"retire", "find"} :
          sweep' = [sweep EXCEPT ![s] = [pc |-> pc, date |-> plan.next, row |-> 0]]
    BY <1>2 DEF List
  <2>2. [pc |-> pc, date |-> plan.next, row |-> 0] \in SweepType
    BY <1>1 DEF SweepType, SweepPlaces
  <2> QED
    BY <1>1, <1>2, <2>1, <2>2, SweepMovesOn DEF List, Holding, Claiming
<1>3. CASE Retire(s) \/ Advance(s) \/ SweepDies(s)
  <2>1. sweep' = [sweep EXCEPT ![s] = IdleSweeper] /\ UNCHANGED <<internal, rows, client, skipped>>
    BY <1>3 DEF Retire, Advance, SweepDies
  <2>2. mishaps' \in Nat
    BY <1>1, <1>3 DEF Retire, Advance, SweepDies
  <2>3. plan' \in [status : {"ACTIVE", "PAUSED", "CANCELLED", "COMPLETED"}, next : Nat]
    BY <1>1, <1>3 DEF Retire, Advance, SweepDies
  <2>4. ~Claiming(IdleSweeper.pc)
    BY DEF IdleSweeper, Claiming
  <2> QED
    BY <1>1, <2>1, <2>2, <2>3, <2>4, SweepMovesOn
<1>4. CASE FindRow(s)
  <2>1. UNCHANGED <<plan, internal, rows, client, skipped, mishaps>>
    BY <1>4 DEF FindRow
  <2>2. CASE SweepTo(s, "create") \/ SweepTo(s, "advance")
    BY <1>1, <2>1, <2>2, SweepGoes DEF SweepPlaces, Holding, Claiming
  <2>3. ASSUME NEW newest \in RowsFor(sweep[s].date),
               sweep' = [sweep EXCEPT ![s].pc = "check", ![s].row = newest]
        PROVE  RecurringInv'
    <3> DEFINE c == [sweep[s] EXCEPT !.pc = "check", !.row = newest]
    <3>1. newest \in DOMAIN rows /\ newest \in Nat
      BY RecurringTypes DEF RowsFor
    <3>2. c \in SweepType /\ c.pc = "check" /\ c.row = newest
      BY <1>1, <3>1 DEF SweepType, SweepPlaces
    <3>3. sweep' = [sweep EXCEPT ![s] = c]
      BY <2>3, RecurringTypes
    <3> HIDE DEF c
    <3> QED
      BY <1>1, <2>1, <3>1, <3>2, <3>3, SweepMovesOn DEF PlaceTells, Claiming
  <2> QED
    BY <1>4, <2>2, <2>3 DEF FindRow
<1>5. CASE CreateRow(s)
  BY <1>5, RowCreated
<1>6. CASE Check(s)
  <2>1. PICK pc \in {"failed", IF internal THEN "move" ELSE "next"} : SweepTo(s, pc)
    BY <1>6 DEF Check
  <2>2. sweep[s].pc = "check" /\ UNCHANGED <<plan, internal, rows, client, skipped, mishaps>>
    BY <1>6 DEF Check
  <2>3. pc \in {"failed", "move", "next"} /\ (pc = "move" => internal) /\ (pc = "next" => ~internal)
    OBVIOUS
  <2> QED
    BY <1>1, <2>1, <2>2, <2>3, SweepGoes DEF SweepPlaces, Holding, PlaceTells, Claiming
<1>7. CASE Send(s) \/ MoveInside(s)
  BY <1>7, RowPaid
<1>8. CASE Mark(s)
  BY <1>8, RowMarked
<1>9. CASE MarkFails(s)
  <2>1. sweep[s].pc = "sent" /\ SweepTo(s, "failed") /\ mishaps' = mishaps + 1
        /\ UNCHANGED <<plan, internal, rows, client, skipped>>
    BY <1>9 DEF MarkFails
  <2> QED
    BY <1>1, <2>1, SweepGoes DEF SweepPlaces, Holding, PlaceTells, Claiming
<1>10. CASE Unexpected(s)
  <2>1. SweepTo(s, "advance") /\ mishaps' = mishaps + 1 /\ skipped' = skipped \cup {sweep[s].date}
        /\ UNCHANGED <<plan, internal, rows, client>>
    BY <1>10 DEF Unexpected
  <2>2. skipped' \subseteq Nat
    BY <1>1, <2>1
  <2> QED
    BY <1>1, <2>1, <2>2, SweepGoes DEF SweepPlaces, Holding, Claiming
<1> QED
  BY <1>2, <1>3, <1>4, <1>5, <1>6, <1>7, <1>8, <1>9, <1>10 DEF CycleStep

LEMMA SweptRow ==
  ASSUME RecurringInv, NEW r \in DOMAIN rows, SweepRow(r)
  PROVE  RecurringInv'
<1> DEFINE x == [rows[r] EXCEPT !.payment = Confirmed(@)]
<1>1. /\ rows[r] \in RowType /\ RowTells(rows[r]) /\ r \in 1..Len(rows)
      /\ rows[r].payment.row = "CLAIMED" /\ rows[r].payment.made > 0
  BY RecurringTypes DEF SweepRow, Sweepable, RecurringInv
<1>2. x \in RowType /\ RowTells(x) /\ x.payment = [rows[r].payment EXCEPT !.row = "CONFIRMED"]
  BY <1>1 DEF RowType, PaymentType, Confirmed, RowTells
<1>3. rows' = [rows EXCEPT ![r] = x] /\ UNCHANGED <<plan, internal, sweep, client, skipped, mishaps>>
  BY RecurringTypes DEF SweepRow
<1> HIDE DEF x
<1>4. /\ rows' \in Seq(RowType) /\ DOMAIN rows' = DOMAIN rows
      /\ rows'[r] = x /\ \A q \in DOMAIN rows \ {r} : rows'[q] = rows[q]
  BY <1>1, <1>2, <1>3, RecurringTypes, ExceptSeq
<1>5. \A pc : PlaceTells(pc, rows[r].payment) => PlaceTells(pc, x.payment)
  BY <1>1, <1>2 DEF PlaceTells, RowType, PaymentType
<1>6. \A t \in Sweeps : sweep[t].pc \in Holding =>
        sweep[t].row \in DOMAIN rows /\ PlaceTells(sweep[t].pc, rows'[sweep[t].row].payment)
  BY <1>4, <1>5, RecurringTypes DEF RecurringInv
<1>7. RecurringTypeOK'
  BY <1>3, <1>4 DEF RecurringInv, RecurringTypeOK, RowType, PaymentType
<1>8. \A q \in DOMAIN rows : RowTells(rows'[q])
  BY <1>2, <1>4 DEF RecurringInv
<1>9. OneSubmits'
  BY <1>3 DEF RecurringInv, OneSubmits, Claiming
<1> QED
  BY <1>3, <1>4, <1>6, <1>7, <1>8, <1>9 DEF RecurringInv, RowTells, PlaceTells

LEMMA ClientKeeps ==
  ASSUME RecurringInv, NEW c \in Clients,
         (\E status \in {"PAUSED", "ACTIVE", "CANCELLED"} : Ask(c, status)) \/ WriteStatusOf(c)
  PROVE  RecurringInv'
<1>1. UNCHANGED <<internal, rows, sweep, skipped, mishaps>>
  BY DEF Ask, WriteStatusOf
<1>2. /\ plan' \in [status : {"ACTIVE", "PAUSED", "CANCELLED", "COMPLETED"}, next : Nat]
      /\ client' \in [Clients -> {"none", "PAUSED", "ACTIVE", "CANCELLED"}]
  BY DEF Ask, WriteStatusOf, RecurringInv, RecurringTypeOK
<1> QED
  BY <1>1, <1>2 DEF RecurringInv, RecurringTypeOK, RowTells, PlaceTells, OneSubmits

LEMMA RecurringKept == RecurringInv /\ [RecurringNext]_recurringVars => RecurringInv'
<1> SUFFICES ASSUME RecurringInv, [RecurringNext]_recurringVars PROVE RecurringInv'
  OBVIOUS
<1>1. CASE UNCHANGED recurringVars
  BY <1>1 DEF recurringVars, RecurringInv, RecurringTypeOK, RowTells, PlaceTells, OneSubmits
<1> QED
  BY <1>1, CycleKeeps, SweptRow, ClientKeeps DEF RecurringNext

-----------------------------------------------------------------------------
\* A sweep works on a row of the date it listed, and does not advance before
\* there is one, or an error was logged.
CycleCovered ==
  \A s \in Sweeps :
    /\ sweep[s].pc \in Holding => rows[sweep[s].row].date = sweep[s].date
    /\ sweep[s].pc = "advance" => RowsFor(sweep[s].date) # {} \/ sweep[s].date \in skipped

\* Rows are only added, and keep their date.
LEMMA DatesKept ==
  ASSUME RecurringInv, [RecurringNext]_recurringVars
  PROVE  \A r \in DOMAIN rows : r \in DOMAIN rows' /\ rows'[r].date = rows[r].date
<1> SUFFICES ASSUME NEW r \in DOMAIN rows
             PROVE  r \in DOMAIN rows' /\ rows'[r].date = rows[r].date
  OBVIOUS
<1>1. rows[r] \in RowType /\ r \in 1..Len(rows)
  BY RecurringTypes
<1>2. ASSUME NEW s \in Sweeps, CreateRow(s) PROVE r \in DOMAIN rows' /\ rows'[r].date = rows[r].date
  <2>1. NewCycle(sweep[s].date) \in RowType
    BY RecurringTypes DEF NewCycle, Unpaid, RowType, PaymentType, SweepType
  <2>2. rows' = Append(rows, NewCycle(sweep[s].date))
    BY <1>2 DEF CreateRow
  <2>3. rows' \in Seq(RowType) /\ Len(rows') = Len(rows) + 1 /\ rows'[r] = rows[r]
    BY <1>1, <2>1, <2>2, RecurringTypes, AppendProperties
  <2> QED
    BY <2>3, RecurringTypes, LenProperties
<1>3. ASSUME NEW q, NEW p, rows' = [rows EXCEPT ![q].payment = p]
      PROVE  r \in DOMAIN rows' /\ rows'[r].date = rows[r].date
  BY <1>1, <1>3 DEF RowType
<1>4. ASSUME NEW q, NEW status, rows' = [rows EXCEPT ![q].status = status]
      PROVE  r \in DOMAIN rows' /\ rows'[r].date = rows[r].date
  BY <1>1, <1>4 DEF RowType
<1>5. ASSUME NEW s \in Sweeps, CycleStep(s) PROVE r \in DOMAIN rows' /\ rows'[r].date = rows[r].date
  <2>1. CASE rows' = rows
    BY <2>1
  <2>2. CASE CreateRow(s)
    BY <1>2, <2>2
  <2>3. CASE Send(s) \/ MoveInside(s)
    BY <1>3, <2>3 DEF Send, MoveInside, PayRow
  <2>4. CASE Mark(s)
    BY <1>4, <2>4 DEF Mark
  <2> QED
    BY <1>5, <2>1, <2>2, <2>3, <2>4
       DEF CycleStep, List, Retire, FindRow, Check, Advance, MarkFails, Unexpected, SweepDies
<1>6. ASSUME NEW q \in DOMAIN rows, SweepRow(q) PROVE r \in DOMAIN rows' /\ rows'[r].date = rows[r].date
  BY <1>3, <1>6 DEF SweepRow
<1>7. CASE rows' = rows
  BY <1>7
<1> QED
  BY <1>5, <1>6, <1>7 DEF RecurringNext, Ask, WriteStatusOf, recurringVars

LEMMA CycleNext ==
  RecurringInv /\ RecurringInv' /\ CycleCovered /\ [RecurringNext]_recurringVars => CycleCovered'
<1> SUFFICES ASSUME RecurringInv, RecurringInv', CycleCovered, [RecurringNext]_recurringVars,
                    NEW t \in Sweeps
             PROVE  /\ sweep'[t].pc \in Holding => rows'[sweep'[t].row].date = sweep'[t].date
                    /\ sweep'[t].pc = "advance" =>
                         RowsFor(sweep[t].date)' # {} \/ sweep'[t].date \in skipped'
  BY DEF CycleCovered
<1>1. /\ skipped \subseteq skipped'
      /\ \A d : RowsFor(d) # {} => RowsFor(d)' # {}
  <2>1. skipped \subseteq skipped'
    BY DEF RecurringNext, CycleStep, List, Retire, FindRow, CreateRow, Check, Send, MoveInside,
       PayRow, Mark, Advance, MarkFails, Unexpected, SweepDies, SweepRow, Ask, WriteStatusOf,
       recurringVars
  <2> QED
    BY <2>1, DatesKept DEF RowsFor
<1>2. CASE sweep'[t] = sweep[t]
  BY <1>1, <1>2, DatesKept, RecurringTypes DEF CycleCovered
<1>3. ASSUME CycleStep(t) PROVE
        /\ sweep'[t].pc \in Holding => rows'[sweep'[t].row].date = sweep'[t].date
        /\ sweep'[t].pc = "advance" => RowsFor(sweep[t].date)' # {} \/ sweep'[t].date \in skipped'
  <2> USE RecurringTypes DEF Holding
  <2>1. CASE List(t) \/ Retire(t) \/ Advance(t) \/ SweepDies(t)
    BY <2>1 DEF List, Retire, Advance, SweepDies, IdleSweeper
  <2>2. CASE FindRow(t)
    <3>1. sweep[t] \in SweepType /\ sweep[t].pc = "find" /\ rows' = rows /\ skipped' = skipped
      BY <2>2 DEF FindRow
    <3>2. \/ sweep'[t].pc = "create"
          \/ sweep'[t].pc = "advance" /\ sweep'[t].date = sweep[t].date /\ RowsFor(sweep[t].date) # {}
          \/ sweep'[t].pc = "check" /\ sweep'[t].date = sweep[t].date
             /\ sweep'[t].row \in RowsFor(sweep[t].date)
      BY <2>2, <3>1 DEF FindRow, SweepTo, SweepType
    <3> QED
      BY <1>1, <3>1, <3>2 DEF RowsFor
  <2>3. CASE CreateRow(t)
    <3>1. NewCycle(sweep[t].date) \in RowType
      BY DEF NewCycle, Unpaid, RowType, PaymentType, SweepType
    <3>2. rows'[Len(rows) + 1] = NewCycle(sweep[t].date)
      BY <2>3, <3>1, AppendProperties DEF CreateRow
    <3>3. sweep'[t].pc = "check" /\ sweep'[t].row = Len(rows) + 1 /\ sweep'[t].date = sweep[t].date
      BY <2>3 DEF CreateRow, SweepType
    <3> QED
      BY <3>2, <3>3 DEF NewCycle
  <2>4. CASE Unexpected(t)
    BY <2>4 DEF Unexpected, SweepTo, SweepType
  <2>5. CASE Check(t) \/ Send(t) \/ MoveInside(t) \/ Mark(t) \/ MarkFails(t)
    <3>1. sweep[t] \in SweepType /\ sweep[t].pc \in Holding
      BY <2>5 DEF Check, Send, MoveInside, PayRow, Mark, MarkFails
    <3>2. sweep'[t].row = sweep[t].row /\ sweep'[t].date = sweep[t].date
      BY <2>5, <3>1 DEF Check, Send, MoveInside, PayRow, Mark, MarkFails, SweepTo, SweepType
    <3>3. rows[sweep[t].row].date = sweep[t].date /\ sweep[t].row \in DOMAIN rows
      BY <3>1 DEF CycleCovered
    <3>4. sweep[t].row \in RowsFor(sweep[t].date)
      BY <3>3 DEF RowsFor
    <3> QED
      BY <1>1, <3>2, <3>3, <3>4, DatesKept
  <2> QED
    BY <1>3, <2>1, <2>2, <2>3, <2>4, <2>5 DEF CycleStep
<1>4. ASSUME NEW s \in Sweeps \ {t}, CycleStep(s) PROVE sweep'[t] = sweep[t]
  BY <1>4, RecurringTypes DEF CycleStep, List, Retire, FindRow, CreateRow, Check, Send, MoveInside,
     PayRow, Mark, Advance, MarkFails, Unexpected, SweepDies, SweepTo
<1> QED
  BY <1>2, <1>3, <1>4 DEF RecurringNext, SweepRow, Ask, WriteStatusOf, recurringVars

LEMMA CycleStart == RecurringInit => CycleCovered
  BY DEF RecurringInit, CycleCovered, IdleSweeper, Holding

LEMMA OneCycleAtATime ==
  ASSUME RecurringInv, CycleCovered, [RecurringNext]_recurringVars, plan'.next # plan.next
  PROVE  /\ plan.status = "ACTIVE"
         /\ plan'.next = plan.next + 1
         /\ RowsFor(plan.next) # {} \/ plan.next \in skipped
<1>1. plan \in [status : {"ACTIVE", "PAUSED", "CANCELLED", "COMPLETED"}, next : Nat]
  BY DEF RecurringInv, RecurringTypeOK
<1>2. PICK s \in Sweeps : Advance(s)
  <2>1. ASSUME NEW c \in Clients, WriteStatusOf(c) PROVE FALSE
    BY <1>1, <2>1 DEF WriteStatusOf
  <2>2. ASSUME NEW s \in Sweeps, Retire(s) PROVE FALSE
    BY <1>1, <2>2 DEF Retire
  <2> QED
    BY <2>1, <2>2 DEF RecurringNext, CycleStep, List, FindRow, CreateRow, Check, Send, MoveInside,
       PayRow, Mark, MarkFails, Unexpected, SweepDies, SweepRow, Ask, recurringVars
<1> QED
  BY <1>1, <1>2 DEF Advance, StillDue, CycleCovered

-----------------------------------------------------------------------------
\* Every variable of a recurring transfer keeps its type.
THEOREM RecurringTypeCorrect == RecurringSpec => []RecurringTypeOK
<1>1. RecurringInv => RecurringTypeOK
  BY DEF RecurringInv
<1> QED
  BY RecurringStart, RecurringKept, <1>1, PTL DEF RecurringSpec

\* One execution row pays a person again only if the answer to the payment
\* before was lost, whoever takes it over.
THEOREM PaysRowAgainOnlyIfLost == RecurringSpec => []RowPaidAgainOnlyIfLost
<1>1. RecurringInv => RowPaidAgainOnlyIfLost
  BY DEF RecurringInv, RowTells, RowPaidAgainOnlyIfLost, AgainOnlyIfLost
<1> QED
  BY RecurringStart, RecurringKept, <1>1, PTL DEF RecurringSpec

\* A row that says SUCCESS has moved the money.
THEOREM SuccessfulRowsWerePaid == RecurringSpec => []SuccessWasPaid
<1>1. RecurringInv => SuccessWasPaid
  BY DEF RecurringInv, RowTells, SuccessWasPaid
<1> QED
  BY RecurringStart, RecurringKept, <1>1, PTL DEF RecurringSpec

\* The schedule moves one cycle at a time, and leaves none without a row.
THEOREM LeavesNoCycleBehind == RecurringSpec => AdvancesOneCycle
<1>1. RecurringInv /\ CycleCovered /\ [RecurringNext]_recurringVars =>
        [plan'.next # plan.next =>
           /\ plan.status = "ACTIVE"
           /\ plan'.next = plan.next + 1
           /\ RowsFor(plan.next) # {} \/ plan.next \in skipped]_recurringVars
  BY OneCycleAtATime
<1> QED
  BY RecurringStart, RecurringKept, CycleStart, CycleNext, <1>1, PTL
     DEF RecurringSpec, AdvancesOneCycle
=============================================================================
