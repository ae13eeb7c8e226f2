----------------------------- MODULE PayoutProofs -----------------------------
(***************************************************************************)
(* Proofs about the services of MCServices, each for any number of         *)
(* concurrent actors and any bounds: the sweep of PayrollSchedule, the     *)
(* payments of UnifiedTransfer, the rules of MoneyRules, the card          *)
(* checkouts of InvoiceCheckout, the mirror of AgreementMirror and the     *)
(* redemptions of YieldRedemption.                                         *)
(***************************************************************************)
EXTENDS PayrollSchedule, UnifiedTransfer, MoneyRules, InvoiceCheckout, AgreementMirror,
        YieldRedemption, SumProofs, TLAPS

(* PayrollSchedule: no date a sweep holds skips a period. *)

\* Every period before d had its draft, or was moved past by an edit.
Passed(d) == \A e \in 1..(d - 1) : e \in everMade \cup excused

\* A sweep never holds a date that skips a period, and one about to advance
\* has seen the run of its date.
ScheduleInv ==
  /\ ScheduleTypeOK
  /\ drafts \cup approvedRuns \subseteq everMade
  /\ Passed(nextRunDate)
  /\ \A s \in Sweepers :
       /\ sweeper[s].pc # "idle" => Passed(sweeper[s].date)
       /\ sweeper[s].pc \in {"recheck", "advance"} => sweeper[s].date \in everMade

SweeperType == [pc : {"idle", "look", "generate", "recheck", "advance"}, date : Nat]

LEMMA ScheduleStart == ScheduleInit => ScheduleInv
  BY DEF ScheduleInit, ScheduleInv, ScheduleTypeOK, Passed, Resting

\* Whatever was made or excused stays so: a step keeps the invariant when the
\* dates it writes are covered.
LEMMA SweeperMoves ==
  ASSUME ScheduleInv, NEW s \in Sweepers, NEW r \in SweeperType,
         sweeper' = [sweeper EXCEPT ![s] = r],
         r.pc # "idle" => Passed(r.date),
         r.pc \in {"recheck", "advance"} => r.date \in everMade',
         everMade \subseteq everMade', everMade' \subseteq Nat,
         drafts' \cup approvedRuns' \subseteq everMade',
         nextRunDate' \in Nat, Passed(nextRunDate'),
         active' = active, excused' = excused, failures' \in Nat
  PROVE  ScheduleInv'
<1>1. sweeper \in [Sweepers -> SweeperType]
  BY DEF ScheduleInv, ScheduleTypeOK, SweeperType
<1>2. sweeper' \in [Sweepers -> SweeperType] /\ sweeper'[s] = r
  BY <1>1
<1>3. \A t \in Sweepers \ {s} : sweeper'[t] = sweeper[t]
  BY <1>1
<1>4. ScheduleTypeOK'
  BY <1>2 DEF ScheduleInv, ScheduleTypeOK, SweeperType
<1>5. Passed(nextRunDate)'
  BY DEF Passed
<1>6. ASSUME NEW t \in Sweepers
      PROVE  /\ sweeper'[t].pc # "idle" => Passed(sweeper[t].date)'
             /\ sweeper'[t].pc \in {"recheck", "advance"} => sweeper'[t].date \in everMade'
  <2>1. CASE t = s
    BY <1>2, <2>1 DEF Passed
  <2>2. CASE t # s
    BY <1>3, <2>2 DEF Passed, ScheduleInv
  <2> QED
    BY <2>1, <2>2
<1> QED
  BY <1>4, <1>5, <1>6 DEF ScheduleInv

\* A sweep goes on with the date it holds.
LEMMA SweeperGoes ==
  ASSUME ScheduleInv, NEW s \in Sweepers,
         NEW pc \in {"idle", "look", "generate", "recheck", "advance"},
         GoOn(s, pc),
         pc # "idle" => sweeper[s].pc # "idle",
         pc \in {"recheck", "advance"} => sweeper[s].date \in everMade',
         everMade \subseteq everMade', everMade' \subseteq Nat,
         drafts' \cup approvedRuns' \subseteq everMade',
         UNCHANGED <<nextRunDate, active, excused>>, failures' \in Nat
  PROVE  ScheduleInv'
<1> DEFINE q == [sweeper[s] EXCEPT !.pc = pc]
<1>1. q \in SweeperType /\ q.pc = pc /\ q.date = sweeper[s].date
  BY DEF SweeperType, ScheduleInv, ScheduleTypeOK
<1>2. sweeper' = [sweeper EXCEPT ![s] = q]
  BY DEF GoOn, ScheduleInv, ScheduleTypeOK
<1>3. pc # "idle" => Passed(q.date)
  BY <1>1 DEF ScheduleInv
<1>4. nextRunDate' \in Nat /\ Passed(nextRunDate')
  BY DEF ScheduleInv, ScheduleTypeOK
<1> HIDE DEF q
<1> QED
  BY <1>1, <1>2, <1>3, <1>4, SweeperMoves

LEMMA SweeperKeeps ==
  ASSUME ScheduleInv, NEW s \in Sweepers, SweeperStep(s)
  PROVE  ScheduleInv'
<1> DEFINE r == sweeper[s]
<1>1. r \in SweeperType /\ Resting \in SweeperType /\ Resting.pc = "idle"
  BY DEF ScheduleInv, ScheduleTypeOK, SweeperType, Resting
<1>2. /\ r.pc # "idle" => Passed(r.date)
      /\ r.pc \in {"recheck", "advance"} => r.date \in everMade
  BY DEF ScheduleInv
<1>3. /\ nextRunDate \in Nat /\ Passed(nextRunDate) /\ failures \in Nat /\ failures + 1 \in Nat
      /\ everMade \subseteq Nat /\ drafts \cup approvedRuns \subseteq everMade
  BY DEF ScheduleInv, ScheduleTypeOK
<1>h. r = sweeper[s]
  OBVIOUS
<1> HIDE DEF r
<1>5. CASE ListDue(s)
  <2> DEFINE q == [pc |-> "look", date |-> nextRunDate]
  <2>1. q \in SweeperType
    BY <1>3 DEF SweeperType
  <2>2. sweeper' = [sweeper EXCEPT ![s] = q]
    BY <1>5 DEF ListDue
  <2> QED
    BY <1>3, <1>5, <2>1, <2>2, SweeperMoves DEF ListDue
<1>6. CASE LookUp(s)
  <2>1. PICK pc \in {"recheck", "generate"} :
          GoOn(s, pc) /\ (pc = "recheck" => r.date \in everMade)
    BY <1>3, <1>6, <1>h DEF LookUp
  <2>2. r.pc = "look" /\ UNCHANGED <<nextRunDate, active, drafts, approvedRuns, everMade, excused, failures>>
    BY <1>6, <1>h DEF LookUp
  <2> QED
    BY <1>2, <1>3, <1>h, <2>1, <2>2, SweeperGoes
<1>7. CASE Generate(s)
  <2>1. r.pc = "generate" /\ UNCHANGED <<nextRunDate, active, approvedRuns, excused, failures>>
    BY <1>7, <1>h DEF Generate
  <2>2. r.date \in Nat
    BY <1>1 DEF SweeperType
  <2>3. \/ /\ r.date \in everMade /\ GoOn(s, "recheck")
           /\ UNCHANGED <<drafts, everMade>>
        \/ /\ drafts' = drafts \cup {r.date} /\ everMade' = everMade \cup {r.date}
           /\ GoOn(s, "advance")
    BY <1>3, <1>7, <1>h DEF Generate
  <2> QED
    BY <1>2, <1>3, <1>h, <2>1, <2>2, <2>3, SweeperGoes
<1>8. CASE GenerateFails(s)
  <2>1. GoOn(s, "idle") /\ failures' = failures + 1
        /\ UNCHANGED <<nextRunDate, active, drafts, approvedRuns, everMade, excused>>
    BY <1>8 DEF GenerateFails, AfterFailure
  <2> QED
    BY <1>3, <1>h, <2>1, SweeperGoes
<1>9. CASE RecheckDue(s)
  <2>1. PICK pc \in {"advance", "idle"} : GoOn(s, pc)
    BY <1>9 DEF RecheckDue
  <2>2. r.pc = "recheck" /\ UNCHANGED <<nextRunDate, active, drafts, approvedRuns, everMade, excused, failures>>
    BY <1>9, <1>h DEF RecheckDue
  <2> QED
    BY <1>2, <1>3, <1>h, <2>1, <2>2, SweeperGoes
<1>10. CASE AdvanceSchedule(s)
  <2>1. /\ r.pc = "advance" /\ nextRunDate' = r.date + 1 /\ sweeper' = [sweeper EXCEPT ![s] = Resting]
        /\ UNCHANGED <<active, drafts, approvedRuns, everMade, excused, failures>>
    BY <1>10, <1>h DEF AdvanceSchedule, Rest
  <2>2. r.date \in Nat /\ r.date \in everMade /\ Passed(r.date)
    BY <1>1, <1>2, <2>1 DEF SweeperType
  <2>3. nextRunDate' \in Nat /\ Passed(nextRunDate')
    BY <2>1, <2>2 DEF Passed
  <2> QED
    BY <1>1, <1>3, <2>1, <2>3, SweeperMoves
<1>11. CASE SweeperDies(s)
  <2>1. /\ sweeper' = [sweeper EXCEPT ![s] = Resting] /\ failures' = failures + 1
        /\ UNCHANGED <<nextRunDate, active, drafts, approvedRuns, everMade, excused>>
    BY <1>11 DEF SweeperDies, Rest
  <2> QED
    BY <1>1, <1>3, <2>1, SweeperMoves
<1> QED
  BY <1>5, <1>6, <1>7, <1>8, <1>9, <1>10, <1>11 DEF SweeperStep

LEMMA ScheduleKept == ScheduleInv /\ [ScheduleNext]_scheduleVars => ScheduleInv'
<1> SUFFICES ASSUME ScheduleInv, [ScheduleNext]_scheduleVars PROVE ScheduleInv'
  OBVIOUS
<1>1. ASSUME NEW s \in Sweepers, SweeperStep(s) PROVE ScheduleInv'
  BY <1>1, SweeperKeeps
<1>2. ASSUME NEW d \in 1..LastPeriod, DropDraft(d) \/ KeepDraft(d) PROVE ScheduleInv'
  BY <1>2, ScheduleAssumption DEF DropDraft, KeepDraft, ScheduleInv, ScheduleTypeOK, Passed
<1>3. ASSUME NEW d \in 1..LastPeriod, SetDate(d) PROVE ScheduleInv'
  <2>1. d \in Nat /\ \A e \in 1..(d - 1) : e \in 1..LastPeriod /\ e < d
    BY ScheduleAssumption
  <2>2. Passed(nextRunDate)'
    BY <1>3, <2>1 DEF SetDate, Passed
  <2>3. ScheduleTypeOK'
    <3>1. nextRunDate' \in Nat /\ failures' \in Nat
      BY <1>3, <2>1 DEF SetDate, ScheduleInv, ScheduleTypeOK
    <3>2. excused \subseteq Nat /\ 1..LastPeriod \subseteq Nat
      BY ScheduleAssumption DEF ScheduleInv, ScheduleTypeOK
    <3>3. excused' \subseteq excused \cup 1..LastPeriod
      BY <1>3 DEF SetDate
    <3> QED
      BY <1>3, <3>1, <3>2, <3>3 DEF SetDate, ScheduleInv, ScheduleTypeOK
  <2>4. \A s \in Sweepers : sweeper[s].pc # "idle" => Passed(sweeper[s].date)'
    BY <1>3 DEF SetDate, ScheduleInv, Passed
  <2> QED
    BY <1>3, <2>2, <2>3, <2>4 DEF SetDate, ScheduleInv
<1>4. CASE SetActive
  BY <1>4 DEF SetActive, ScheduleInv, ScheduleTypeOK, Passed
<1>5. CASE UNCHANGED scheduleVars
  BY <1>5 DEF scheduleVars, ScheduleInv, ScheduleTypeOK, Passed
<1> QED
  BY <1>1, <1>2, <1>3, <1>4, <1>5 DEF ScheduleNext

\* No pay period before nextRunDate lacks its draft unless an edit moved past
\* it, although overlapping sweeps write back dates they listed long ago.
THEOREM SkipsNoPeriod == ScheduleSpec => []NoPeriodSkipped
<1>1. ScheduleInv => NoPeriodSkipped
  BY DEF ScheduleInv, NoPeriodSkipped, Passed
<1> QED
  BY ScheduleStart, ScheduleKept, <1>1, PTL DEF ScheduleSpec

-----------------------------------------------------------------------------
(* UnifiedTransfer: whoever holds the claim of a payment holds it alone, from  *)
(* the claim through its top-up to the spend.                                  *)

RowOf == [row : {"NONE", "CLAIMED", "FAILED", "CONFIRMED"}, spent : Nat, lost : Nat]

\* Claimed, and spent so many times since the last answer that was lost.
Claimed(x, n) == x.row = "CLAIMED" /\ x.spent = x.lost + n

ActorType ==
  [pc : {"idle", "claim", "cover", "topUp", "arc", "wait", "recheck", "spend", "confirm",
         "debit", "outer", "delta", "deposit", "book"},
   key : Sends \cup {NoSend}, balance : Nat, short : Nat, missing : Nat,
   moved : Nat, base : Nat, delta : Nat]

\* Places of a payment between its claim and its spend, its top-up included.
Holding ==
  {"cover", "topUp", "arc", "wait", "recheck", "spend", "outer", "delta", "deposit", "book"}

\* What the place r of a call says of its row.
PlaceTells(r) ==
  /\ r.pc \in Holding \cup {"claim", "confirm"} => r.key \in Sends
  /\ r.pc \in Holding => Claimed(sent[r.key], 0)
  /\ r.pc = "confirm" => Claimed(sent[r.key], 1)

SpendInv ==
  /\ UnifiedTypeOK
  /\ SpentAgainOnlyIfLost
  /\ \A a \in Depositors : actor[a].pc \in {"idle", "delta", "deposit", "book"}
  /\ \A a \in Senders : PlaceTells(actor[a])
  /\ \A a, b \in Senders :
       /\ actor[a].pc \in Holding \cup {"confirm"}
       /\ actor[b].pc \in Holding \cup {"confirm"}
       /\ actor[a].key = actor[b].key
       => a = b

LEMMA MaxOfTwo == ASSUME NEW n \in Int PROVE Max({0, n}) \in Nat /\ (n > 0 => Max({0, n}) = n)
  BY DEF Max

LEMMA MinOfTwo == ASSUME NEW m \in Nat, NEW n \in Nat
                  PROVE Min({m, n}) \in Nat /\ Min({m, n}) <= m /\ Min({m, n}) <= n
  BY DEF Min

LEMMA SpendStart == UnifiedInit => SpendInv
<1> SUFFICES ASSUME UnifiedInit PROVE SpendInv
  OBVIOUS
<1>1. sent \in [Sends -> RowOf] /\ \A k \in Sends : sent[k] = [row |-> "NONE", spent |-> 0, lost |-> 0]
  BY DEF UnifiedInit, RowOf
<1>2. actor \in [Actors -> ActorType] /\ \A a \in Actors : actor[a].pc = "idle"
  BY DEF UnifiedInit, NoActor, ActorType
<1>3. gateway \in [confirmed : Nat, pending : Nat]
  BY DEF UnifiedInit
<1>4. UnifiedTypeOK
  BY <1>1, <1>2, <1>3, UnifiedAssumption DEF UnifiedInit, UnifiedTypeOK, RowOf, ActorType
<1>5. SpentAgainOnlyIfLost
  BY <1>1 DEF SpentAgainOnlyIfLost
<1> QED
  BY <1>2, <1>4, <1>5 DEF SpendInv, Holding, PlaceTells, Actors

LEMMA UnifiedTypes ==
  ASSUME SpendInv
  PROVE  /\ sent \in [Sends -> RowOf] /\ actor \in [Actors -> ActorType]
         /\ gateway \in [confirmed : Nat, pending : Nat]
         /\ arc \in Nat /\ bucket \in Nat /\ outer \in Nat
         /\ cumulative \in Nat /\ deposited \in Nat /\ creditedOut \in Nat
         /\ arrivals \in Nat /\ calls \in Nat /\ stops \in Nat
  BY DEF SpendInv, UnifiedTypeOK, RowOf, ActorType

\* A call or a sweep moves to r and writes no row.
LEMMA ActorMoves ==
  ASSUME SpendInv, NEW a \in Actors, NEW r \in ActorType,
         actor' = [actor EXCEPT ![a] = r], sent' = sent, 
         a \in Depositors => r.pc \in {"idle", "delta", "deposit", "book"},
         a \in Senders =>
           \/ r.pc \in {"idle", "debit"}
           \/ r.pc = "claim" /\ r.key \in Sends
           \/ r.pc \in Holding /\ actor[a].pc \in Holding /\ r.key = actor[a].key,
         gateway' \in [confirmed : Nat, pending : Nat],
         arc' \in Nat, bucket' \in Nat, outer' \in Nat,
         cumulative' \in Nat, deposited' \in Nat, creditedOut' \in Nat,
         arrivals' \in Nat, calls' \in Nat, stops' \in Nat
  PROVE  SpendInv'
<1>1. actor' \in [Actors -> ActorType] /\ actor'[a] = r /\ \A b \in Actors \ {a} : actor'[b] = actor[b]
  BY UnifiedTypes
<1>2. UnifiedTypeOK'
  BY <1>1 DEF SpendInv, UnifiedTypeOK, ActorType
<1>3. SpentAgainOnlyIfLost'
  BY DEF SpendInv, SpentAgainOnlyIfLost
<1>4. \A b \in Depositors : actor'[b].pc \in {"idle", "delta", "deposit", "book"}
  BY <1>1 DEF SpendInv, Actors
<1>5. \A b \in Senders : PlaceTells(actor[b])'
  BY <1>1 DEF SpendInv, Actors, PlaceTells, Holding
<1>6. \A b, c \in Senders :
       /\ actor'[b].pc \in Holding \cup {"confirm"}
       /\ actor'[c].pc \in Holding \cup {"confirm"}
       /\ actor'[b].key = actor'[c].key
       => b = c
  BY <1>1 DEF SpendInv, Actors, Holding
<1> QED
  BY <1>2, <1>3, <1>4, <1>5, <1>6 DEF SpendInv

\* A call moves to r and writes x over the row of its payment, which no other
\* call holds.
RowWrite(a, r, x) ==
  LET k == actor[a].key
  IN  /\ k \in Sends /\ r \in ActorType /\ x \in RowOf
      /\ actor' = [actor EXCEPT ![a] = r]
      /\ sent' = [sent EXCEPT ![k] = x]
      /\ actor[a].pc \in Holding \cup {"confirm"} \/ sent[k].row \in {"NONE", "FAILED"}
      /\ x.spent <= x.lost + 1
      /\ x.row = "CONFIRMED" => x.spent = x.lost + 1
      /\ x.row \in {"NONE", "FAILED"} => x.spent = x.lost
      /\ \/ r.pc \in {"idle", "debit"}
         \/ r.pc \in Holding /\ r.key = k /\ Claimed(x, 0)
         \/ r.pc = "confirm" /\ r.key = k /\ Claimed(x, 1)
      /\ gateway' \in [confirmed : Nat, pending : Nat] /\ stops' \in Nat
      /\ UNCHANGED <<arc, bucket, outer, cumulative, deposited, creditedOut,
                     arrivals, calls>>

LEMMA RowWritten ==
  ASSUME SpendInv, NEW a \in Senders, NEW r, NEW x, RowWrite(a, r, x)
  PROVE  SpendInv'
<1> DEFINE k == actor[a].key
<1> USE DEF RowWrite
<1>1. /\ actor' \in [Actors -> ActorType] /\ actor'[a] = r /\ \A b \in Actors \ {a} : actor'[b] = actor[b]
      /\ sent' \in [Sends -> RowOf] /\ sent'[k] = x /\ \A j \in Sends \ {k} : sent'[j] = sent[j]
  BY UnifiedTypes DEF Actors
<1>2. UnifiedTypeOK'
  BY <1>1, UnifiedTypes DEF UnifiedTypeOK, ActorType, RowOf
<1>3. SpentAgainOnlyIfLost'
  BY <1>1 DEF SpendInv, SpentAgainOnlyIfLost
<1>4. \A b \in Depositors : actor'[b].pc \in {"idle", "delta", "deposit", "book"}
  BY <1>1, UnifiedAssumption DEF SpendInv, Actors
<1>5. ASSUME NEW b \in Senders \ {a}, actor[b].pc \in Holding \cup {"confirm"}
      PROVE  actor[b].key # k
  BY <1>5 DEF SpendInv, PlaceTells, Claimed
<1>6. \A b \in Senders : PlaceTells(actor[b])'
  BY <1>1, <1>5 DEF SpendInv, Actors, PlaceTells, Holding
<1>7. \A b, c \in Senders :
       /\ actor'[b].pc \in Holding \cup {"confirm"}
       /\ actor'[c].pc \in Holding \cup {"confirm"}
       /\ actor'[b].key = actor'[c].key
       => b = c
  BY <1>1, <1>5 DEF SpendInv, Actors, Holding
<1> QED
  BY <1>2, <1>3, <1>4, <1>6, <1>7 DEF SpendInv

\* A call goes on to pc, or a payment or a sweep leaves.
LEMMA ActorGoes ==
  ASSUME SpendInv, NEW a \in Senders, NEW pc \in Holding,
         Go(a, pc), sent' = sent, actor[a].pc \in Holding,
         UNCHANGED <<gateway, arc, bucket, outer, cumulative, deposited, creditedOut,
                     arrivals, calls, stops>>
  PROVE  SpendInv'
<1> DEFINE r == [actor[a] EXCEPT !.pc = pc]
<1>1. r \in ActorType /\ r.pc = pc /\ r.key = actor[a].key
  BY UnifiedTypes DEF ActorType, Actors, Holding
<1>2. actor' = [actor EXCEPT ![a] = r]
  BY UnifiedTypes DEF Go, Actors
<1>3. a \in Actors /\ a \notin Depositors
  BY UnifiedAssumption DEF Actors
<1> HIDE DEF r
<1> QED
  BY <1>1, <1>2, <1>3, ActorMoves, UnifiedTypes

LEMMA LackingNat ==
  ASSUME SpendInv, NEW a \in Senders, actor[a].pc \in Holding
  PROVE  Lacking(a) \in Nat
<1>1. actor[a].key \in Sends
  BY DEF SpendInv, PlaceTells
<1>2. CostOf(a) - gateway.confirmed \in Int
  BY <1>1, UnifiedAssumption, UnifiedTypes DEF CostOf
<1> QED
  BY <1>2, MaxOfTwo DEF Lacking

\* Up to the spend.
LEMMA TopUpKeeps ==
  ASSUME SpendInv, NEW a \in Senders,
         \/ \E k \in Sends : BeginSend(a, k)
         \/ ReadCoverage(a) \/ ReadAgain(a) \/ TopUpArc(a) \/ ArcUnanswered(a) \/ Wait(a)
  PROVE  SpendInv'
<1>1. /\ actor[a] \in ActorType /\ a \in Actors /\ a \notin Depositors
      /\ actor \in [Actors -> ActorType]
  BY UnifiedTypes, UnifiedAssumption DEF Actors
<1>2. ASSUME NEW k \in Sends, BeginSend(a, k) PROVE SpendInv'
  <2>h. /\ calls' = calls + 1
        /\ UNCHANGED <<sent, arc, bucket, outer, gateway, cumulative, deposited,
                       creditedOut, arrivals, stops>>
    BY <1>2 DEF BeginSend
  <2>c. calls' \in Nat
    BY <2>h, UnifiedTypes
  <2>1. CASE actor' = actor
    BY <2>1, <2>h, <2>c DEF SpendInv, UnifiedTypeOK, SpentAgainOnlyIfLost, PlaceTells
  <2>2. CASE actor' = [actor EXCEPT ![a].pc = "claim", ![a].key = k, ![a].balance = bucket]
    <3> DEFINE r == [actor[a] EXCEPT !.pc = "claim", !.key = k, !.balance = bucket]
    <3>1. r \in ActorType /\ r.pc = "claim" /\ r.key = k
      BY <1>1, UnifiedTypes DEF ActorType
    <3>2. actor' = [actor EXCEPT ![a] = r]
      BY <1>1, <2>2
    <3> HIDE DEF r
    <3> QED
      BY <1>1, <2>h, <2>c, <3>1, <3>2, ActorMoves, UnifiedTypes
  <2> QED
    BY <1>2, <2>1, <2>2 DEF BeginSend
<1>3. CASE ReadCoverage(a)
  <2>1. actor[a].pc \in Holding /\ UNCHANGED <<sent, arc, bucket, outer, gateway, cumulative,
          deposited, creditedOut, arrivals, calls, stops>>
    BY <1>3 DEF ReadCoverage, At, Holding
  <2>2. PICK pc \in {"spend", "topUp"} :
          actor' = [actor EXCEPT ![a].pc = pc, ![a].short = Lacking(a)]
    BY <1>3 DEF ReadCoverage
  <2> DEFINE r == [actor[a] EXCEPT !.pc = pc, !.short = Lacking(a)]
  <2>3. r \in ActorType /\ r.pc \in Holding /\ r.key = actor[a].key
    BY <1>1, <2>1, LackingNat DEF ActorType, Holding
  <2>4. actor' = [actor EXCEPT ![a] = r]
    BY <1>1, <2>2
  <2> HIDE DEF r
  <2> QED
    BY <1>1, <2>1, <2>3, <2>4, ActorMoves, UnifiedTypes
<1>4. CASE ReadAgain(a)
  <2>1. actor[a].pc \in Holding /\ UNCHANGED <<sent, arc, bucket, outer, gateway, cumulative,
          deposited, creditedOut, arrivals, calls, stops>>
    BY <1>4 DEF ReadAgain, At, Holding
  <2>2. PICK pc \in {"recheck", "arc"} :
          actor' = [actor EXCEPT ![a].pc = pc, ![a].missing = Lacking(a)]
    BY <1>4 DEF ReadAgain
  <2> DEFINE r == [actor[a] EXCEPT !.pc = pc, !.missing = Lacking(a)]
  <2>3. r \in ActorType /\ r.pc \in Holding /\ r.key = actor[a].key
    BY <1>1, <2>1, LackingNat DEF ActorType, Holding
  <2>4. actor' = [actor EXCEPT ![a] = r]
    BY <1>1, <2>2
  <2> HIDE DEF r
  <2> QED
    BY <1>1, <2>1, <2>3, <2>4, ActorMoves, UnifiedTypes
<1>5. CASE TopUpArc(a)
  <2>1. actor[a].pc \in Holding /\ UNCHANGED <<sent, bucket, outer, cumulative,
          deposited, creditedOut, arrivals, calls, stops>>
    BY <1>5 DEF TopUpArc, At, Holding
  <2>2. PICK n \in {0, Min({arc, actor[a].missing})}, pc \in {"wait", "outer"} :
          /\ arc' = arc - n
          /\ gateway' = [gateway EXCEPT !.pending = @ + n]
          /\ actor' = [actor EXCEPT ![a].pc = pc, ![a].missing = @ - n, ![a].moved = @ + n]
    BY <1>5 DEF TopUpArc
  <2>3. arc \in Nat /\ actor[a].missing \in Nat
    BY <1>1, UnifiedTypes DEF ActorType
  <2>4. n \in Nat /\ n <= arc /\ n <= actor[a].missing
    BY <2>3, MinOfTwo
  <2>5. arc' \in Nat /\ gateway' \in [confirmed : Nat, pending : Nat]
    BY <2>2, <2>3, <2>4, UnifiedTypes
  <2> DEFINE r == [actor[a] EXCEPT !.pc = pc, !.missing = @ - n, !.moved = @ + n]
  <2>8. actor[a].missing - n \in Nat /\ actor[a].moved + n \in Nat
    BY <1>1, <2>3, <2>4 DEF ActorType
  <2>6. r \in ActorType /\ r.pc \in Holding /\ r.key = actor[a].key
    BY <1>1, <2>8 DEF ActorType, Holding
  <2>7. actor' = [actor EXCEPT ![a] = r]
    BY <1>1, <2>2
  <2> HIDE DEF r
  <2> QED
    BY <1>1, <2>1, <2>5, <2>6, <2>7, ActorMoves, UnifiedTypes
<1>6. CASE Wait(a)
  BY <1>6, ActorGoes DEF Wait, At, Holding
<1>7. CASE ArcUnanswered(a)
  <2> DEFINE n == Min({arc, actor[a].missing})
             r == [actor[a] EXCEPT !.pc = "outer"]
  <2>1. actor[a].pc \in Holding /\ UNCHANGED <<sent, bucket, outer, cumulative,
          deposited, creditedOut, arrivals, calls>>
    BY <1>7 DEF ArcUnanswered, At, Holding
  <2>2. arc' = arc - n /\ gateway' = [gateway EXCEPT !.pending = @ + n] /\ stops' = stops + 1
    BY <1>7 DEF ArcUnanswered
  <2>3. arc \in Nat /\ actor[a].missing \in Nat
    BY <1>1, UnifiedTypes DEF ActorType
  <2>4. n \in Nat /\ n <= arc
    BY <2>3, MinOfTwo
  <2> HIDE DEF n
  <2>5. arc' \in Nat /\ gateway' \in [confirmed : Nat, pending : Nat] /\ stops' \in Nat
    BY <2>2, <2>3, <2>4, UnifiedTypes
  <2>6. r \in ActorType /\ r.pc \in Holding /\ r.key = actor[a].key
    BY <1>1 DEF ActorType, Holding
  <2>7. actor' = [actor EXCEPT ![a] = r]
    BY <1>1, <1>7 DEF ArcUnanswered, Go
  <2> HIDE DEF r
  <2> QED
    BY <1>1, <2>1, <2>5, <2>6, <2>7, ActorMoves, UnifiedTypes
<1> QED
  BY <1>2, <1>3, <1>4, <1>5, <1>6, <1>7

\* The claim, the spend and its confirmation.
LEMMA SpendKeeps ==
  ASSUME SpendInv, NEW a \in Senders,
         \/ ClaimSend(a) \/ Recheck(a) \/ SpendAccepted(a) \/ SpendRejected(a)
         \/ SpendUnanswered(a) \/ ConfirmSpend(a) \/ DebitTopUp(a)
  PROVE  SpendInv'
<1> DEFINE k == actor[a].key
<1>1. /\ actor[a] \in ActorType /\ a \in Actors /\ a \notin Depositors
      /\ actor \in [Actors -> ActorType] /\ sent \in [Sends -> RowOf]
      /\ gateway \in [confirmed : Nat, pending : Nat] /\ stops \in Nat
  BY UnifiedTypes, UnifiedAssumption DEF Actors
<1>2. NoActor \in ActorType /\ NoActor.pc = "idle"
  BY DEF NoActor, ActorType
<1>3. \A pc \in {"claim", "confirm", "debit"} \cup Holding :
        /\ [actor[a] EXCEPT !.pc = pc] \in ActorType
        /\ [actor[a] EXCEPT !.pc = pc].pc = pc
        /\ [actor[a] EXCEPT !.pc = pc].key = k
        /\ Go(a, pc) => actor' = [actor EXCEPT ![a] = [actor[a] EXCEPT !.pc = pc]]
  BY <1>1 DEF ActorType, Holding, Go
<1>4. PlaceTells(actor[a])
  BY DEF SpendInv
<1>5. CASE ClaimSend(a)
  <2>1. actor[a].pc = "claim" /\ k \in Sends /\ sent[k] \in RowOf
        /\ UNCHANGED <<arc, bucket, outer, gateway, cumulative, deposited, creditedOut,
                       arrivals, calls, stops>>
    BY <1>1, <1>4, <1>5 DEF ClaimSend, At, PlaceTells
  <2>2. CASE Claimable(k)
    <3> DEFINE x == [sent[k] EXCEPT !.row = "CLAIMED"]
    <3>1. sent[k].row \in {"NONE", "FAILED"} /\ sent[k].spent = sent[k].lost
      BY <2>1, <2>2 DEF Claimable, SpendInv, SpentAgainOnlyIfLost
    <3>2. x \in RowOf /\ x = [sent[k] EXCEPT !.row = "CLAIMED"]
      BY <2>1, <3>1 DEF RowOf
    <3>3. sent' = [sent EXCEPT ![k] = x] /\ Go(a, "cover")
      BY <1>1, <1>5, <2>1, <2>2, <3>2 DEF ClaimSend
    <3>4. Claimed(x, 0) /\ x.row = "CLAIMED" /\ x.spent = x.lost /\ x.spent \in Nat
      BY <2>1, <3>1 DEF RowOf, Claimed
    <3> DEFINE r == [actor[a] EXCEPT !.pc = "cover"]
    <3>5. r \in ActorType /\ r.pc \in Holding /\ r.key = k /\ actor' = [actor EXCEPT ![a] = r]
      BY <1>3, <3>3 DEF Holding
    <3> HIDE DEF x, r
    <3>6. RowWrite(a, r, x)
      BY <1>1, <2>1, <3>1, <3>2, <3>3, <3>4, <3>5 DEF RowWrite
    <3> QED
      BY <3>6, RowWritten
  <2>3. CASE ~Claimable(k)
    BY <1>1, <1>2, <1>5, <2>1, <2>3, ActorMoves, UnifiedTypes DEF ClaimSend, Leave
  <2> QED
    BY <2>2, <2>3
<1>6. ASSUME Unclaimed(k), Leave(a), actor[a].pc \in Holding,
             UNCHANGED <<arc, bucket, outer, gateway, cumulative, deposited, creditedOut,
                         arrivals, calls, stops>>
      PROVE  SpendInv'
  <2> DEFINE x == [sent[k] EXCEPT !.row = "FAILED"]
  <2>1. k \in Sends /\ sent[k] \in RowOf /\ Claimed(sent[k], 0)
    BY <1>1, <1>4, <1>6 DEF PlaceTells
  <2>2. x \in RowOf /\ x = [sent[k] EXCEPT !.row = "FAILED"] /\ x.row = "FAILED" /\ x.spent = x.lost
        /\ x.spent \in Nat
    BY <2>1 DEF RowOf, Claimed
  <2> HIDE DEF x
  <2>3. sent' = [sent EXCEPT ![k] = x] /\ actor' = [actor EXCEPT ![a] = NoActor]
    BY <1>1, <1>6, <2>1, <2>2 DEF Unclaimed, Leave
  <2> QED
    <3>1. RowWrite(a, NoActor, x)
      BY <1>1, <1>2, <1>6, <2>1, <2>2, <2>3 DEF RowWrite
    <3> QED
      BY <3>1, RowWritten
<1>7. CASE Recheck(a)
  <2>1. actor[a].pc \in Holding /\ UNCHANGED <<arc, bucket, outer, gateway, cumulative, deposited,
          creditedOut, arrivals, calls, stops>>
    BY <1>7 DEF Recheck, At, Holding
  <2>2. CASE Unclaimed(k) /\ Leave(a)
    BY <1>6, <2>1, <2>2
  <2>3. CASE sent' = sent /\ Go(a, "spend")
    BY <2>1, <2>3, ActorGoes DEF Holding
  <2> QED
    BY <1>7, <2>2, <2>3 DEF Recheck
<1>8. CASE SpendRejected(a)
  <2>1. actor[a].pc \in Holding
    BY <1>8 DEF SpendRejected, At, Holding
  <2> QED
    BY <1>6, <1>8, <2>1 DEF SpendRejected
<1>9. CASE SpendAccepted(a)
  <2> DEFINE x == [sent[k] EXCEPT !.spent = @ + 1]
  <2>1. actor[a].pc \in Holding
    BY <1>9 DEF SpendAccepted, At, Holding
  <2>2. k \in Sends /\ sent[k] \in RowOf /\ Claimed(sent[k], 0)
    BY <1>1, <1>4, <2>1 DEF PlaceTells
  <2>7. x \in RowOf /\ x = [sent[k] EXCEPT !.spent = @ + 1]
        /\ Claimed(x, 1) /\ x.row = "CLAIMED" /\ x.spent = x.lost + 1 /\ x.spent \in Nat
    BY <2>2 DEF RowOf, Claimed
  <2> HIDE DEF x
  <2>3. sent' = [sent EXCEPT ![k] = x]
    BY <1>1, <1>9, <2>2, <2>7 DEF SpendAccepted
  <2>4. CostOf(a) \in Nat /\ gateway.confirmed \in Nat /\ gateway.confirmed >= CostOf(a)
    BY <1>1, <1>9, <2>2, UnifiedAssumption DEF SpendAccepted, CostOf
  <2>5. gateway' \in [confirmed : Nat, pending : Nat]
    BY <1>1, <1>9, <2>4 DEF SpendAccepted
  <2>6. Go(a, "confirm") /\ UNCHANGED <<arc, bucket, outer, cumulative, deposited, creditedOut,
          arrivals, calls, stops>>
    BY <1>9 DEF SpendAccepted
  <2> DEFINE r == [actor[a] EXCEPT !.pc = "confirm"]
  <2>8. r \in ActorType /\ r.pc = "confirm" /\ r.key = k /\ actor' = [actor EXCEPT ![a] = r]
    BY <1>3, <2>6
  <2> HIDE DEF r
  <2>9. RowWrite(a, r, x)
    BY <1>1, <2>1, <2>2, <2>3, <2>5, <2>6, <2>7, <2>8 DEF RowWrite
  <2> QED
    BY <2>9, RowWritten
<1>10. CASE ConfirmSpend(a)
  <2> DEFINE x == [sent[k] EXCEPT !.row = "CONFIRMED"]
  <2>1. actor[a].pc = "confirm"
    BY <1>10 DEF ConfirmSpend, At
  <2>2. k \in Sends /\ sent[k] \in RowOf /\ Claimed(sent[k], 1)
    BY <1>1, <1>4, <2>1 DEF PlaceTells
  <2>6. x \in RowOf /\ x = [sent[k] EXCEPT !.row = "CONFIRMED"] /\ x.row = "CONFIRMED"
        /\ x.spent = x.lost + 1 /\ x.spent \in Nat
    BY <2>2 DEF RowOf, Claimed
  <2> HIDE DEF x
  <2>3. sent' = [sent EXCEPT ![k] = x]
    BY <1>1, <1>10, <2>2, <2>6 DEF ConfirmSpend
  <2>4. UNCHANGED <<arc, bucket, outer, gateway, cumulative, deposited, creditedOut,
                    arrivals, calls, stops>>
    BY <1>10 DEF ConfirmSpend
  <2>5. PICK r \in ActorType : actor' = [actor EXCEPT ![a] = r] /\ r.pc \in {"debit", "idle"}
    BY <1>2, <1>3, <1>10 DEF ConfirmSpend, Leave
  <2>7. RowWrite(a, r, x)
    BY <1>1, <2>1, <2>2, <2>3, <2>4, <2>5, <2>6 DEF RowWrite
  <2> QED
    BY <2>7, RowWritten
<1>11. CASE DebitTopUp(a)
  <2>1. actor' = [actor EXCEPT ![a] = NoActor] /\ UNCHANGED <<sent, arc, outer, gateway, cumulative,
          deposited, creditedOut, arrivals, calls, stops>>
    BY <1>11 DEF DebitTopUp, Leave
  <2>2. DebitNeeded(a) \in Nat
    BY <1>1 DEF DebitNeeded, ActorType
  <2>3. bucket' \in Nat
    BY <1>11, <2>2, UnifiedTypes DEF DebitTopUp
  <2> QED
    BY <1>1, <1>2, <2>1, <2>3, ActorMoves, UnifiedTypes
<1>12. CASE SpendUnanswered(a)
  <2> DEFINE x == [row |-> "FAILED", spent |-> sent[k].spent + 1, lost |-> sent[k].lost + 1]
  <2>1. actor[a].pc \in Holding
    BY <1>12 DEF SpendUnanswered, At, Holding
  <2>2. k \in Sends /\ sent[k] \in RowOf /\ Claimed(sent[k], 0)
    BY <1>1, <1>4, <2>1 DEF PlaceTells
  <2>3. sent' = [sent EXCEPT ![k] = x] /\ actor' = [actor EXCEPT ![a] = NoActor]
    BY <1>12 DEF SpendUnanswered, Leave
  <2>4. x \in RowOf /\ x.row = "FAILED" /\ x.spent = x.lost /\ x.spent \in Nat
    BY <2>2 DEF RowOf, Claimed
  <2> HIDE DEF x
  <2>5. CostOf(a) \in Nat /\ gateway.confirmed \in Nat /\ gateway.confirmed >= CostOf(a)
    BY <1>1, <1>12, <2>2, UnifiedAssumption DEF SpendUnanswered, CostOf
  <2>6. gateway' \in [confirmed : Nat, pending : Nat] /\ stops' \in Nat
    BY <1>1, <1>12, <2>5, UnifiedTypes DEF SpendUnanswered
  <2>7. UNCHANGED <<arc, bucket, outer, cumulative, deposited, creditedOut, arrivals, calls>>
    BY <1>12 DEF SpendUnanswered
  <2>8. RowWrite(a, NoActor, x)
    BY <1>1, <1>2, <2>1, <2>2, <2>3, <2>4, <2>6, <2>7 DEF RowWrite
  <2> QED
    BY <2>8, RowWritten
<1> QED
  BY <1>5, <1>7, <1>8, <1>9, <1>10, <1>11, <1>12

-----------------------------------------------------------------------------
\* A payment that tops up from the other chain stays where it holds its claim;
\* a sweep holds none.
Stays(a, r) ==
  /\ r \in ActorType
  /\ a \in Depositors => r.pc \in {"idle", "delta", "deposit", "book"}
  /\ a \in Senders => r.pc \in Holding /\ actor[a].pc \in Holding /\ r.key = actor[a].key

LEMMA ReturnStays ==
  ASSUME SpendInv, NEW a \in Actors, NEW n \in Nat, actor[a].pc \in Holding, Returned(a, n)
  PROVE  \E r : Stays(a, r) /\ actor' = [actor EXCEPT ![a] = r]
<1>1. actor[a] \in ActorType /\ actor \in [Actors -> ActorType]
  BY UnifiedTypes
<1>2. CASE a \in Depositors
  <2>1. NoActor \in ActorType /\ NoActor.pc = "idle"
    BY DEF NoActor, ActorType
  <2>2. actor' = [actor EXCEPT ![a] = NoActor]
    BY <1>2 DEF Returned
  <2> QED
    BY <1>2, <2>1, <2>2, UnifiedAssumption DEF Stays
<1>3. CASE a \notin Depositors
  <2> DEFINE missing == Max({0, actor[a].missing - n})
             pc == IF n >= actor[a].missing THEN "wait" ELSE "recheck"
             r == [actor[a] EXCEPT !.pc = pc, !.missing = missing, !.moved = @ + n,
                                   !.base = 0, !.delta = 0]
  <2>1. actor[a].missing - n \in Int /\ actor[a].moved + n \in Nat
    BY <1>1 DEF ActorType
  <2>2. missing \in Nat /\ pc \in {"wait", "recheck"}
    BY <2>1, MaxOfTwo
  <2>6. actor' = [actor EXCEPT ![a] = IF a \in Depositors THEN NoActor ELSE r]
    BY DEF Returned
  <2> HIDE DEF r
  <2>3. actor' = [actor EXCEPT ![a] = r]
    BY <1>3, <2>6
  <2> HIDE DEF missing, pc
  <2>4. r \in ActorType /\ r.pc = pc /\ r.key = actor[a].key
    BY <1>1, <2>1, <2>2 DEF ActorType, r
  <2> HIDE DEF r
  <2>5. Stays(a, r)
    BY <1>3, <2>2, <2>4 DEF Stays, Holding
  <2> QED
    BY <2>3, <2>5
<1> QED
  BY <1>2, <1>3

LEMMA StayKeeps ==
  ASSUME SpendInv, NEW a \in Actors, NEW r, Stays(a, r), actor' = [actor EXCEPT ![a] = r],
         UNCHANGED <<sent, arc, bucket, arrivals, calls>>,
         gateway' \in [confirmed : Nat, pending : Nat], outer' \in Nat,
         cumulative' \in Nat, deposited' \in Nat, creditedOut' \in Nat, stops' \in Nat
  PROVE  SpendInv'
  BY ActorMoves, UnifiedTypes DEF Stays

LEMMA DepositKeeps ==
  ASSUME SpendInv, NEW a \in Actors, DepositStep(a)
  PROVE  SpendInv'
<1>1. actor[a] \in ActorType /\ actor \in [Actors -> ActorType]
  BY UnifiedTypes
<1>2. /\ gateway \in [confirmed : Nat, pending : Nat] /\ arc \in Nat /\ bucket \in Nat
      /\ outer \in Nat /\ cumulative \in Nat /\ deposited \in Nat /\ creditedOut \in Nat
      /\ stops \in Nat /\ stops + 1 \in Nat
  BY UnifiedTypes
<1>3. /\ a \in Senders <=> a \notin Depositors
      /\ a \in Depositors => actor[a].pc \in {"idle", "delta", "deposit", "book"}
  BY UnifiedAssumption DEF Actors, SpendInv
<1>4. CASE ReadRegistration(a)
  <2> DEFINE r == [actor[a] EXCEPT !.pc = "delta", !.base = cumulative]
  <2>1. r \in ActorType /\ r.pc = "delta" /\ r.key = actor[a].key
    BY <1>1, <1>2 DEF ActorType
  <2>2. actor' = [actor EXCEPT ![a] = r]
    BY <1>1, <1>4 DEF ReadRegistration
  <2>3. a \in Senders => actor[a].pc \in Holding
    BY <1>3, <1>4 DEF ReadRegistration, At, Holding
  <2> HIDE DEF r
  <2>4. Stays(a, r)
    BY <1>3, <2>1, <2>3 DEF Stays, Holding
  <2> QED
    BY <1>2, <1>4, <2>2, <2>4, StayKeeps DEF ReadRegistration
<1>5. CASE ReadDelta(a)
  <2>1. actor[a].pc \in Holding /\ UNCHANGED <<sent, arc, bucket, outer, gateway, cumulative,
          deposited, creditedOut, arrivals, calls, stops>>
    BY <1>5 DEF ReadDelta, At, Holding
  <2>2. CASE Returned(a, 0)
    BY <1>2, <2>1, <2>2, ReturnStays, StayKeeps
  <2>3. CASE outer - actor[a].base > 0
             /\ actor' = [actor EXCEPT ![a].pc = "deposit", ![a].delta = outer - actor[a].base]
    <3> DEFINE r == [actor[a] EXCEPT !.pc = "deposit", !.delta = outer - actor[a].base]
    <3>1. outer - actor[a].base \in Nat
      BY <1>1, <1>2, <2>3 DEF ActorType
    <3>2. r \in ActorType /\ r.pc = "deposit" /\ r.key = actor[a].key
      BY <1>1, <3>1 DEF ActorType
    <3>3. actor' = [actor EXCEPT ![a] = r]
      BY <1>1, <2>3
    <3> HIDE DEF r
    <3>4. Stays(a, r)
      BY <1>3, <2>1, <3>2 DEF Stays, Holding
    <3> QED
      BY <1>2, <2>1, <3>3, <3>4, StayKeeps
  <2> QED
    BY <1>5, <2>2, <2>3 DEF ReadDelta
<1>6. CASE DepositDelta(a)
  <2>1. actor[a].pc \in Holding /\ actor[a].delta \in Nat
        /\ UNCHANGED <<sent, arc, bucket, cumulative, creditedOut, arrivals, calls, stops>>
    BY <1>1, <1>6 DEF DepositDelta, At, Holding, ActorType
  <2>2. CASE Returned(a, 0) /\ UNCHANGED <<outer, gateway, deposited>>
    BY <1>2, <2>1, <2>2, ReturnStays, StayKeeps
  <2>3. CASE /\ outer >= actor[a].delta
             /\ outer' = outer - actor[a].delta
             /\ gateway' = [gateway EXCEPT !.pending = @ + actor[a].delta]
             /\ deposited' = deposited + actor[a].delta
             /\ Go(a, "book")
    <3> DEFINE r == [actor[a] EXCEPT !.pc = "book"]
    <3>1. outer' \in Nat /\ deposited' \in Nat /\ gateway' \in [confirmed : Nat, pending : Nat]
      BY <1>2, <2>1, <2>3
    <3>2. r \in ActorType /\ r.pc = "book" /\ r.key = actor[a].key
      BY <1>1 DEF ActorType
    <3>3. actor' = [actor EXCEPT ![a] = r]
      BY <1>1, <2>3 DEF Go
    <3> HIDE DEF r
    <3>4. Stays(a, r)
      BY <1>3, <2>1, <3>2 DEF Stays, Holding
    <3> QED
      BY <1>2, <2>1, <3>1, <3>3, <3>4, StayKeeps
  <2> QED
    BY <1>6, <2>2, <2>3 DEF DepositDelta, AfterFailedDeposit
<1>10. CASE DepositUnanswered(a)
  <2>1. actor[a].pc \in Holding /\ actor[a].delta \in Nat
        /\ UNCHANGED <<sent, arc, bucket, cumulative, creditedOut, arrivals, calls>>
    BY <1>1, <1>10 DEF DepositUnanswered, At, Holding, ActorType
  <2>2. /\ outer >= actor[a].delta
        /\ outer' = outer - actor[a].delta
        /\ gateway' = [gateway EXCEPT !.pending = @ + actor[a].delta]
        /\ deposited' = deposited + actor[a].delta
        /\ stops' = stops + 1
        /\ Returned(a, 0)
    BY <1>10 DEF DepositUnanswered, AfterFailedDeposit
  <2>3. outer' \in Nat /\ deposited' \in Nat /\ gateway' \in [confirmed : Nat, pending : Nat]
        /\ stops' \in Nat
    BY <1>2, <2>1, <2>2
  <2> QED
    BY <1>2, <2>1, <2>2, <2>3, ReturnStays, StayKeeps
<1>7. CASE BookDeposit(a)
  <2>1. actor[a].pc \in Holding /\ actor[a].delta \in Nat /\ actor[a].base \in Nat
    BY <1>1, <1>7 DEF BookDeposit, At, Holding, ActorType
  <2>2. creditedOut' \in Nat /\ cumulative' \in Nat
    BY <1>2, <1>7, <2>1 DEF BookDeposit
  <2>3. Returned(a, actor[a].delta)
        /\ UNCHANGED <<sent, arc, bucket, outer, gateway, deposited, arrivals, calls, stops>>
    BY <1>7 DEF BookDeposit
  <2> QED
    BY <1>2, <2>1, <2>2, <2>3, ReturnStays, StayKeeps
<1>8. CASE BookFails(a)
  <2>1. actor[a].pc \in Holding
    BY <1>8 DEF BookFails, At, Holding
  <2> QED
    BY <1>2, <1>8, <2>1, ReturnStays, StayKeeps DEF BookFails
<1>9. CASE Stop(a)
  <2>1. NoActor \in ActorType /\ NoActor.pc = "idle"
    BY DEF NoActor, ActorType
  <2> QED
    BY <1>2, <1>9, <2>1, ActorMoves, UnifiedTypes DEF Stop, Leave
<1> QED
  BY <1>4, <1>5, <1>6, <1>7, <1>8, <1>9, <1>10 DEF DepositStep

LEMMA SpendNext == SpendInv /\ [UnifiedNext]_unifiedVars => SpendInv'
<1> SUFFICES ASSUME SpendInv, [UnifiedNext]_unifiedVars PROVE SpendInv'
  OBVIOUS
<1>1. ASSUME NEW a \in Senders, SenderStep(a) PROVE SpendInv'
  BY <1>1, TopUpKeeps, SpendKeeps DEF SenderStep
<1>2. ASSUME NEW a \in Actors, DepositStep(a) PROVE SpendInv'
  BY <1>2, DepositKeeps
<1>3. ASSUME UNCHANGED <<sent, actor>>, UnifiedTypeOK' PROVE SpendInv'
  BY <1>3 DEF SpendInv, SpentAgainOnlyIfLost, PlaceTells
<1>4. ASSUME NEW n \in Arrivals, Arrive(n) PROVE SpendInv'
  <2>1. outer' \in Nat /\ arrivals' \in Nat
    BY <1>4, UnifiedTypes, UnifiedAssumption DEF Arrive
  <2> QED
    BY <1>3, <1>4, <2>1 DEF Arrive, SpendInv, UnifiedTypeOK
<1>5. CASE GatewayConfirms
  <2>1. gateway' \in [confirmed : Nat, pending : Nat]
    BY <1>5, UnifiedTypes DEF GatewayConfirms
  <2> QED
    BY <1>3, <1>5, <2>1 DEF GatewayConfirms, SpendInv, UnifiedTypeOK
<1>6. CASE UNCHANGED unifiedVars
  BY <1>3, <1>6 DEF unifiedVars, SpendInv, UnifiedTypeOK
<1> QED
  BY <1>1, <1>2, <1>4, <1>5, <1>6 DEF UnifiedNext

\* A payment is spent again for its key only if the answer to the spend before
\* was lost, and its row tells whether it was spent.
THEOREM SpendsAgainOnlyIfLost == UnifiedSpec => []SpentAgainOnlyIfLost
<1>1. SpendInv => SpentAgainOnlyIfLost
  BY DEF SpendInv
<1> QED
  BY SpendStart, SpendNext, <1>1, PTL DEF UnifiedSpec

\* Every variable of the Unified Balance payments keeps its type.
THEOREM UnifiedTypeCorrect == UnifiedSpec => []UnifiedTypeOK
<1>1. SpendInv => UnifiedTypeOK
  BY DEF SpendInv
<1> QED
  BY SpendStart, SpendNext, <1>1, PTL DEF UnifiedSpec

-----------------------------------------------------------------------------
(* UnifiedTransfer: what was deposited from the other chain is credited, or *)
(* waits to be booked by the one that deposited it.                         *)

Booking == {a \in Actors : actor[a].pc = "book"}

Deltas == [a \in Actors |-> actor[a].delta]

\* What is credited and what is still to be booked add up to no more than was
\* deposited; only finitely many are about to book at once.
BooksInv ==
  /\ IsFiniteSet(Booking)
  /\ creditedOut + SumOver(Deltas, Booking) <= deposited

LEMMA BooksStart == UnifiedInit => BooksInv
<1> SUFFICES ASSUME UnifiedInit PROVE BooksInv
  OBVIOUS
<1>1. Booking = {}
  BY DEF UnifiedInit, NoActor, Booking
<1>2. SumOver(Deltas, {}) = 0
  BY SumEmpty
<1>3. creditedOut = 0 /\ deposited = 0
  BY DEF UnifiedInit
<1> QED
  BY <1>1, <1>2, <1>3, FS_EmptySet DEF BooksInv

\* The deltas to be booked are naturals, and so is what they add up to.
LEMMA BooksTypes ==
  ASSUME SpendInv, BooksInv, NEW B, B \subseteq Booking
  PROVE  /\ \A a \in Actors : Deltas[a] = actor[a].delta /\ Deltas[a] \in Nat
         /\ IsFiniteSet(B) /\ SumOver(Deltas, B) \in Nat
         /\ creditedOut \in Nat /\ deposited \in Nat
<1>1. \A a \in Actors : Deltas[a] = actor[a].delta /\ Deltas[a] \in Nat
  BY UnifiedTypes DEF Deltas, ActorType
<1>2. IsFiniteSet(B)
  BY FS_Subset DEF BooksInv
<1>3. \A a \in B : Deltas[a] \in Nat
  BY <1>1 DEF Booking
<1> QED
  BY <1>1, <1>2, <1>3, SumNat, UnifiedTypes

\* What an actor does outside its booking leaves the deltas of the others.
LEMMA BooksAgree ==
  ASSUME SpendInv, BooksInv, NEW a \in Actors,
         \A b \in Actors \ {a} : actor'[b] = actor[b],
         NEW B, B \subseteq Booking, a \notin B
  PROVE  SumOver(Deltas', B) = SumOver(Deltas, B)
<1>1. \A b \in B : b \in Actors \ {a}
  BY DEF Booking
<1>2. \A b \in B : Deltas[b] = Deltas'[b]
  BY <1>1 DEF Deltas
<1>3. IsFiniteSet(B)
  BY BooksTypes
<1> QED
  BY <1>2, <1>3, SumAgree

\* A step that does not touch the books, a deposit that nobody will book
\* included.
LEMMA BooksQuiet ==
  ASSUME SpendInv, BooksInv, NEW a \in Actors,
         \A b \in Actors \ {a} : actor'[b] = actor[b],
         actor[a].pc # "book", actor'[a].pc # "book",
         deposited' \in Nat, deposited' >= deposited, creditedOut' = creditedOut
  PROVE  BooksInv'
<1>1. Booking' = Booking /\ a \notin Booking
  BY DEF Booking
<1>2. SumOver(Deltas', Booking) = SumOver(Deltas, Booking)
  BY <1>1, BooksAgree
<1>3. SumOver(Deltas, Booking) \in Nat /\ creditedOut \in Nat /\ deposited \in Nat
  BY BooksTypes
<1>4. creditedOut + SumOver(Deltas, Booking) <= deposited
  BY DEF BooksInv
<1>5. creditedOut' + SumOver(Deltas', Booking') <= deposited'
  BY <1>1, <1>2, <1>3, <1>4
<1> QED
  BY <1>1, <1>5 DEF BooksInv

\* A deposit, which its actor is then about to book.
LEMMA BooksOpened ==
  ASSUME SpendInv, BooksInv, NEW a \in Actors,
         \A b \in Actors \ {a} : actor'[b] = actor[b],
         actor[a].pc # "book", actor'[a].pc = "book", actor'[a].delta = actor[a].delta,
         deposited' = deposited + actor[a].delta, creditedOut' = creditedOut
  PROVE  BooksInv'
<1> DEFINE D == actor[a].delta
<1>1. Booking' = Booking \cup {a} /\ a \notin Booking
  BY DEF Booking
<1>2. IsFiniteSet(Booking')
  BY <1>1, FS_AddElement DEF BooksInv
<1>3. SumOver(Deltas', Booking) = SumOver(Deltas, Booking)
  BY <1>1, BooksAgree
<1>4. \A b \in Booking \cup {a} : Deltas'[b] \in Int
  <2>1. \A b \in Actors : Deltas'[b] = Deltas[b] /\ Deltas[b] \in Nat
    BY BooksTypes DEF Deltas
  <2> QED
    BY <2>1 DEF Booking
<1>5. SumOver(Deltas', Booking \cup {a}) = Deltas'[a] + SumOver(Deltas', Booking)
  <2>1. IsFiniteSet(Booking)
    BY DEF BooksInv
  <2> QED
    BY <1>1, <1>4, <2>1, SumAdd
<1>6. Deltas'[a] = D /\ D \in Nat
  BY BooksTypes DEF Deltas
<1>7. SumOver(Deltas, Booking) \in Nat /\ creditedOut \in Nat /\ deposited \in Nat
  BY BooksTypes
<1>8. creditedOut' + SumOver(Deltas', Booking') <= deposited'
  <2> HIDE DEF D
  <2>1. creditedOut + SumOver(Deltas, Booking) <= deposited
    BY DEF BooksInv
  <2>2. deposited' = deposited + D
    BY DEF D
  <2> QED
    BY <1>1, <1>3, <1>5, <1>6, <1>7, <2>1, <2>2
<1> QED
  BY <1>2, <1>8 DEF BooksInv

\* Its actor credits what it deposited, or fails to.
LEMMA BooksClosed ==
  ASSUME SpendInv, BooksInv, NEW a \in Actors,
         \A b \in Actors \ {a} : actor'[b] = actor[b],
         actor[a].pc = "book", actor'[a].pc # "book",
         deposited' = deposited, creditedOut' \in {creditedOut, creditedOut + actor[a].delta}
  PROVE  BooksInv'
<1> DEFINE D == actor[a].delta
           rest == Booking \ {a}
<1>1. Booking' = rest /\ a \in Booking /\ rest \subseteq Booking /\ a \notin rest
  BY DEF Booking
<1> HIDE DEF rest
<1>2. IsFiniteSet(Booking') /\ IsFiniteSet(Booking)
  BY <1>1, BooksTypes
<1>3. SumOver(Deltas', rest) = SumOver(Deltas, rest)
  BY <1>1, BooksAgree
<1>4. \A b \in Booking : Deltas[b] \in Int
  <2>1. \A b \in Actors : Deltas[b] \in Nat
    BY <1>1, BooksTypes
  <2> QED
    BY <2>1 DEF Booking
<1>5. SumOver(Deltas, Booking) = Deltas[a] + SumOver(Deltas, rest)
  BY <1>1, <1>2, <1>4, SumRemove DEF rest
<1>6. Deltas[a] = D /\ D \in Nat
  BY BooksTypes
<1>7. SumOver(Deltas, rest) \in Nat /\ creditedOut \in Nat /\ deposited \in Nat
  BY <1>1, BooksTypes
<1>8. creditedOut' + SumOver(Deltas', Booking') <= deposited'
  <2>1. creditedOut + SumOver(Deltas, Booking) <= deposited
    BY DEF BooksInv
  <2>2. creditedOut' = creditedOut \/ creditedOut' = creditedOut + D
    OBVIOUS
  <2> HIDE DEF D
  <2> QED
    BY <1>1, <1>3, <1>5, <1>6, <1>7, <2>1, <2>2
<1> QED
  BY <1>2, <1>8 DEF BooksInv

\* What a call or a sweep returns with, it is no longer about to book.
LEMMA ReturnLeaves ==
  ASSUME SpendInv, NEW a \in Actors, NEW n \in Nat, Returned(a, n)
  PROVE  actor'[a].pc # "book" /\ \A b \in Actors \ {a} : actor'[b] = actor[b]
<1>1. actor[a] \in ActorType /\ actor \in [Actors -> ActorType]
  BY UnifiedTypes
<1> DEFINE r == [actor[a] EXCEPT !.pc = IF n >= actor[a].missing THEN "wait" ELSE "recheck",
                   !.missing = Max({0, actor[a].missing - n}), !.moved = actor[a].moved + n,
                   !.base = 0, !.delta = 0]
<1>2. actor' = [actor EXCEPT ![a] = IF a \in Depositors THEN NoActor ELSE r]
  BY DEF Returned
<1>3. r.pc \in {"wait", "recheck"}
  BY <1>1 DEF ActorType
<1> HIDE DEF r
<1>4. NoActor.pc = "idle"
  BY DEF NoActor
<1> QED
  BY <1>1, <1>2, <1>3, <1>4

LEMMA BooksKept == SpendInv /\ BooksInv /\ [UnifiedNext]_unifiedVars => BooksInv'
<1> SUFFICES ASSUME SpendInv, BooksInv, [UnifiedNext]_unifiedVars PROVE BooksInv'
  OBVIOUS
<1>0. actor \in [Actors -> ActorType] /\ Senders \subseteq Actors /\ deposited \in Nat
  BY UnifiedTypes DEF Actors
<1>1. ASSUME NEW a \in Senders, SenderStep(a) PROVE BooksInv'
  <2>1. UNCHANGED <<deposited, creditedOut>> /\ actor[a].pc # "book"
    BY <1>1 DEF SenderStep, BeginSend, ClaimSend, ReadCoverage, ReadAgain, TopUpArc,
       ArcUnanswered, Wait, Recheck, SpendAccepted, SpendRejected, SpendUnanswered,
       ConfirmSpend, DebitTopUp, At
  <2>2. actor'[a].pc # "book" /\ \A b \in Actors \ {a} : actor'[b] = actor[b]
    <3>1. CASE \E k \in Sends : BeginSend(a, k)
      BY <1>0, <2>1, <3>1 DEF BeginSend, ActorType
    <3>2. CASE ReadCoverage(a) \/ ReadAgain(a)
      BY <1>0, <3>2 DEF ReadCoverage, ReadAgain, ActorType
    <3>3. CASE TopUpArc(a)
      <4>1. PICK n \in {0, Min({arc, actor[a].missing})}, pc \in {"wait", "outer"} :
              actor' = [actor EXCEPT ![a].pc = pc, ![a].missing = @ - n, ![a].moved = @ + n]
        BY <3>3 DEF TopUpArc
      <4> QED
        BY <1>0, <4>1 DEF ActorType
    <3>4. CASE \/ ClaimSend(a) \/ Recheck(a) \/ SpendRejected(a) \/ SpendUnanswered(a)
               \/ ConfirmSpend(a) \/ DebitTopUp(a)
      BY <1>0, <3>4 DEF ClaimSend, Recheck, SpendRejected, SpendUnanswered, ConfirmSpend,
         DebitTopUp, Go, Leave, NoActor, ActorType
    <3>5. CASE SpendAccepted(a) \/ ArcUnanswered(a) \/ Wait(a)
      BY <1>0, <3>5 DEF SpendAccepted, ArcUnanswered, Wait, Go, ActorType
    <3> QED
      BY <1>1, <3>1, <3>2, <3>3, <3>4, <3>5 DEF SenderStep
  <2> QED
    BY <1>0, <2>1, <2>2, BooksQuiet
<1>2. ASSUME NEW a \in Actors, DepositStep(a) PROVE BooksInv'
  <2>0. actor[a].delta \in Nat /\ 0 \in Nat
    BY <1>0 DEF ActorType
  <2>1. CASE ReadRegistration(a) \/ ReadDelta(a)
    <3>1. UNCHANGED <<deposited, creditedOut>> /\ actor[a].pc # "book"
      BY <2>1 DEF ReadRegistration, ReadDelta, At
    <3>2. actor'[a].pc # "book" /\ \A b \in Actors \ {a} : actor'[b] = actor[b]
      BY <1>0, <2>0, <2>1, ReturnLeaves DEF ReadRegistration, ReadDelta, ActorType
    <3> QED
      BY <1>0, <3>1, <3>2, BooksQuiet
  <2>2. CASE DepositDelta(a)
    <3>1. actor[a].pc = "deposit" /\ creditedOut' = creditedOut
      BY <2>2 DEF DepositDelta, At
    <3>2. CASE deposited' = deposited + actor[a].delta /\ Go(a, "book")
      <4>1. actor'[a].pc = "book" /\ actor'[a].delta = actor[a].delta
            /\ \A b \in Actors \ {a} : actor'[b] = actor[b]
        BY <1>0, <3>2 DEF Go, ActorType
      <4> QED
        BY <3>1, <3>2, <4>1, BooksOpened
    <3>3. CASE Returned(a, 0) /\ deposited' = deposited
      BY <1>0, <2>0, <3>1, <3>3, ReturnLeaves, BooksQuiet
    <3> QED
      BY <2>2, <3>2, <3>3 DEF DepositDelta, AfterFailedDeposit
  <2>5. CASE DepositUnanswered(a)
    <3>1. actor[a].pc = "deposit" /\ creditedOut' = creditedOut /\ Returned(a, 0)
          /\ deposited' = deposited + actor[a].delta
      BY <2>5 DEF DepositUnanswered, At, AfterFailedDeposit
    <3>2. deposited' \in Nat /\ deposited' >= deposited
      BY <1>0, <2>0, <3>1
    <3> QED
      BY <2>0, <3>1, <3>2, ReturnLeaves, BooksQuiet
  <2>3. CASE BookDeposit(a) \/ BookFails(a)
    <3>1. actor[a].pc = "book" /\ deposited' = deposited
          /\ creditedOut' \in {creditedOut, creditedOut + actor[a].delta}
      BY <2>3 DEF BookDeposit, BookFails, At
    <3>2. actor'[a].pc # "book" /\ \A b \in Actors \ {a} : actor'[b] = actor[b]
      BY <2>0, <2>3, ReturnLeaves DEF BookDeposit, BookFails
    <3> QED
      BY <3>1, <3>2, BooksClosed
  <2>4. CASE Stop(a)
    <3>1. actor'[a].pc # "book" /\ \A b \in Actors \ {a} : actor'[b] = actor[b]
      BY <1>0, <2>4 DEF Stop, Leave, NoActor
    <3>2. UNCHANGED <<deposited, creditedOut>>
      BY <2>4 DEF Stop
    <3> QED
      BY <1>0, <3>1, <3>2, BooksClosed, BooksQuiet
  <2> QED
    BY <1>2, <2>1, <2>2, <2>3, <2>4, <2>5 DEF DepositStep
<1>3. ASSUME UNCHANGED <<actor, deposited, creditedOut>> PROVE BooksInv'
  <2>1. Booking' = Booking /\ Deltas' = Deltas
    BY <1>3 DEF Booking, Deltas
  <2> QED
    BY <1>3, <2>1 DEF BooksInv
<1>4. CASE \E n \in Arrivals : Arrive(n)
  BY <1>3, <1>4 DEF Arrive
<1>5. CASE GatewayConfirms
  BY <1>3, <1>5 DEF GatewayConfirms
<1>6. CASE UNCHANGED unifiedVars
  BY <1>3, <1>6 DEF unifiedVars
<1> QED
  BY <1>1, <1>2, <1>4, <1>5, <1>6 DEF UnifiedNext

\* The default bucket is never credited for more than was deposited from the
\* other chain, however many sweeps and payments take the same delta at once.
THEOREM DepositsBacked == UnifiedSpec => []DepositsBackCredits
<1>1. SpendInv /\ BooksInv => DepositsBackCredits
  <2> SUFFICES ASSUME SpendInv, BooksInv PROVE DepositsBackCredits
    OBVIOUS
  <2>1. SumOver(Deltas, Booking) \in Nat /\ creditedOut \in Nat /\ deposited \in Nat
    BY BooksTypes
  <2> QED
    BY <2>1 DEF BooksInv, DepositsBackCredits
<1> QED
  BY SpendStart, SpendNext, BooksStart, BooksKept, <1>1, PTL DEF UnifiedSpec

-----------------------------------------------------------------------------
(* MoneyRules: what came in is in the buckets, or was spent. *)

RunnerType ==
  [pc : {"idle", "commit", "allocate", "read", "sweep", "stamp"},
   transfer : Transfers \cup {NoTransfer}, amount : Nat, scheduled : BOOLEAN]

RulesInv == RulesTypeOK /\ \A h \in Handlers : runner[h].pc = "commit" => runner[h].transfer \in Transfers

LEMMA ConstrainedIsNat ==
  ASSUME NEW balance \in Nat, NEW n \in Nat
  PROVE  Constrained(balance, n) \in Nat
<1> DEFINE m == Min({n, balance - Floor})
<1>1. balance - Floor \in Int
  BY RulesAssumption
<1>2. m \in Int /\ m <= balance - Floor
  BY <1>1 DEF Min
<1> HIDE DEF m
<1>3. Max({0, m}) \in Nat
  BY <1>2 DEF Max
<1> QED
  BY <1>3 DEF Constrained, m

LEMMA RulesTypes ==
  ASSUME RulesInv
  PROVE  /\ runner \in [Handlers -> RunnerType] /\ known \subseteq Transfers
         /\ source \in Nat /\ saved \in Nat /\ due \in BOOLEAN
         /\ days \in Nat /\ payments \in Nat /\ spent \in Nat /\ errors \in Nat
  BY DEF RulesInv, RulesTypeOK, RunnerType

LEMMA RulesStart == RulesInit => RulesInv
<1> SUFFICES ASSUME RulesInit PROVE RulesInv
  OBVIOUS
<1>1. runner \in [Handlers -> RunnerType] /\ \A h \in Handlers : runner[h].pc = "idle"
  BY DEF RulesInit, NoRun, RunnerType
<1> QED
  BY <1>1, RulesAssumption DEF RulesInit, RulesInv, RulesTypeOK, RunnerType

\* h goes on as r, and the counters stay natural numbers.
LEMMA RunnerGoes ==
  ASSUME RulesInv, NEW h \in Handlers, NEW r \in RunnerType,
         r.pc = "commit" => r.transfer \in Transfers,
         runner' = [runner EXCEPT ![h] = r],
         known' \subseteq Transfers, source' \in Nat, saved' \in Nat, due' \in BOOLEAN,
         days' \in Nat, payments' \in Nat, spent' \in Nat, errors' \in Nat
  PROVE  RulesInv'
<1>1. runner' \in [Handlers -> RunnerType] /\ runner'[h] = r /\ \A g \in Handlers \ {h} : runner'[g] = runner[g]
  BY RulesTypes
<1>2. RulesTypeOK'
  BY <1>1 DEF RulesTypeOK, RunnerType
<1> QED
  BY <1>1, <1>2 DEF RulesInv

LEMMA RuleKeeps ==
  ASSUME RulesInv, NEW h \in Handlers, RuleStep(h)
  PROVE  RulesInv'
<1>1. /\ runner \in [Handlers -> RunnerType] /\ runner[h] \in RunnerType
      /\ known \subseteq Transfers /\ source \in Nat /\ saved \in Nat /\ due \in BOOLEAN
      /\ days \in Nat /\ payments \in Nat /\ spent \in Nat /\ errors \in Nat
      /\ errors + 1 \in Nat /\ payments + 1 \in Nat
  BY RulesTypes
<1>2. NoRun \in RunnerType /\ NoRun.pc = "idle"
  BY DEF NoRun, RunnerType
<1>3. [NoRun EXCEPT !.pc = "read"] \in RunnerType /\ [NoRun EXCEPT !.pc = "read"].pc = "read"
      /\ [NoRun EXCEPT !.pc = "read", !.scheduled = TRUE] \in RunnerType
      /\ [NoRun EXCEPT !.pc = "read", !.scheduled = TRUE].pc = "read"
  BY <1>2 DEF RunnerType
<1>4. \A pc \in {"allocate", "read", "stamp"} :
        [runner[h] EXCEPT !.pc = pc] \in RunnerType /\ [runner[h] EXCEPT !.pc = pc].pc = pc
  BY <1>1 DEF RunnerType
<1>5. ASSUME NEW t \in Transfers, Receive(h, t) PROVE RulesInv'
  <2> DEFINE r == [runner[h] EXCEPT !.pc = "commit", !.transfer = t]
  <2>1. r \in RunnerType /\ r.transfer \in Transfers
    BY <1>1 DEF RunnerType
  <2>2. runner' = [runner EXCEPT ![h] = r] /\ UNCHANGED <<known, source, saved, due, days, payments, spent, errors>>
    BY <1>1, <1>5 DEF Receive
  <2> HIDE DEF r
  <2> QED
    BY <1>1, <2>1, <2>2, RunnerGoes
<1>6. CASE CommitCredit(h)
  <2> DEFINE t == runner[h].transfer
             r == [runner[h] EXCEPT !.pc = "allocate"]
  <2>1. t \in Transfers
    BY <1>6 DEF CommitCredit, Runs, RulesInv
  <2>2. Inflow[t] \in Nat
    BY <2>1, RulesAssumption
  <2>3. known' = known \cup {t} /\ source' \in {source, source + Inflow[t]} /\ runner' = [runner EXCEPT ![h] = r]
        /\ UNCHANGED <<saved, due, days, payments, spent, errors>>
    BY <1>1, <1>6 DEF CommitCredit, Credited
  <2>4. r \in RunnerType /\ r.pc = "allocate"
    BY <1>4
  <2> HIDE DEF t, r
  <2>5. known' \subseteq Transfers /\ source' \in Nat
    BY <1>1, <2>1, <2>2, <2>3
  <2> QED
    BY <1>1, <2>3, <2>4, <2>5, RunnerGoes
<1>7. CASE AbortCredit(h) \/ RunEnds(h) \/ Stamp(h)
  <2>1. runner' = [runner EXCEPT ![h] = NoRun] /\ UNCHANGED <<known, source, saved, days, payments, spent>>
    BY <1>7 DEF AbortCredit, RunEnds, Stamp
  <2>2. due' \in BOOLEAN /\ errors' \in Nat
    BY <1>1, <1>7 DEF AbortCredit, RunEnds, Stamp
  <2> QED
    BY <1>1, <1>2, <2>1, <2>2, RunnerGoes
<1>8. CASE Allocate(h) \/ SkipAllocation(h)
  <2> DEFINE r == [runner[h] EXCEPT !.pc = "read"]
  <2>1. r \in RunnerType /\ r.pc = "read"
    BY <1>4
  <2>2. runner' = [runner EXCEPT ![h] = r] /\ UNCHANGED <<known, saved, due, days, payments, errors>>
    BY <1>1, <1>8 DEF Allocate, SkipAllocation
  <2>3. source' \in Nat /\ spent' \in Nat
    BY <1>1, <1>8, RulesAssumption DEF Allocate, SkipAllocation
  <2> HIDE DEF r
  <2> QED
    BY <1>1, <2>1, <2>2, <2>3, RunnerGoes
<1>9. CASE ReadBalance(h)
  <2>1. UNCHANGED <<known, source, saved, due, days, payments, spent, errors>>
    BY <1>9 DEF ReadBalance
  <2>2. PICK n \in Asked :
          runner' = [runner EXCEPT ![h] =
             IF Constrained(source, n) = 0 THEN NoRun
             ELSE [runner[h] EXCEPT !.pc = "sweep", !.amount = Constrained(source, n)]]
    BY <1>9 DEF ReadBalance
  <2> DEFINE r == [runner[h] EXCEPT !.pc = "sweep", !.amount = Constrained(source, n)]
  <2>3. Constrained(source, n) \in Nat
    BY <1>1, ConstrainedIsNat, RulesAssumption
  <2>4. r \in RunnerType /\ r.pc = "sweep"
    BY <1>1, <2>3 DEF RunnerType
  <2>5. runner' = [runner EXCEPT ![h] = NoRun] \/ runner' = [runner EXCEPT ![h] = r]
    BY <2>2
  <2> HIDE DEF r
  <2> QED
    BY <1>1, <1>2, <2>1, <2>4, <2>5, RunnerGoes
<1>10. CASE SweepToSavings(h)
  <2> DEFINE n == runner[h].amount
             r == [runner[h] EXCEPT !.pc = "stamp"]
  <2>1. n \in Nat /\ r \in RunnerType /\ r.pc = "stamp"
    BY <1>1, <1>4 DEF RunnerType
  <2>2. runner' = [runner EXCEPT ![h] = r] \/ runner' = [runner EXCEPT ![h] = NoRun]
    BY <1>1, <1>10 DEF SweepToSavings
  <2>3. UNCHANGED <<known, due, days, payments, spent, errors>>
    BY <1>10 DEF SweepToSavings
  <2>4. \/ n <= source /\ source' = source - n /\ saved' = saved + n
        \/ UNCHANGED <<source, saved>>
    BY <1>10 DEF SweepToSavings
  <2> HIDE DEF n, r
  <2>5. source' \in Nat /\ saved' \in Nat
    BY <1>1, <2>1, <2>4
  <2> QED
    BY <1>1, <1>2, <2>1, <2>2, <2>3, <2>5, RunnerGoes
<1>11. ASSUME NEW n \in Asked, PayOut(h, n) PROVE RulesInv'
  <2>1. runner' = [runner EXCEPT ![h] = [NoRun EXCEPT !.pc = "read"]] /\ UNCHANGED <<known, saved, due, days, errors>>
    BY <1>11 DEF PayOut
  <2>2. source' \in Nat /\ spent' \in Nat /\ payments' \in Nat
    BY <1>1, <1>11, RulesAssumption DEF PayOut
  <2> QED
    BY <1>1, <1>3, <2>1, <2>2, RunnerGoes
<1>12. CASE ListDueRule(h)
  <2>1. runner' = [runner EXCEPT ![h] = [NoRun EXCEPT !.pc = "read", !.scheduled = TRUE]]
        /\ UNCHANGED <<known, source, saved, due, days, payments, spent, errors>>
    BY <1>12 DEF ListDueRule
  <2> QED
    BY <1>1, <1>3, <2>1, RunnerGoes
<1> QED
  BY <1>5, <1>6, <1>7, <1>8, <1>9, <1>10, <1>11, <1>12 DEF RuleStep

LEMMA RulesKept == RulesInv /\ [RulesNext]_rulesVars => RulesInv'
<1> SUFFICES ASSUME RulesInv, [RulesNext]_rulesVars PROVE RulesInv'
  OBVIOUS
<1>1. CASE NextDay
  <2>1. days' \in Nat
    BY <1>1, RulesTypes DEF NextDay
  <2> QED
    BY <1>1, <2>1 DEF NextDay, RulesInv, RulesTypeOK
<1>2. CASE UNCHANGED rulesVars
  BY <1>2 DEF rulesVars, RulesInv, RulesTypeOK
<1> QED
  BY <1>1, <1>2, RuleKeeps DEF RulesNext

\* Every variable of the rules keeps its type: no overlap of sweeps,
\* allocations and payments takes a bucket below zero.
THEOREM RulesTypeCorrect == RulesSpec => []RulesTypeOK
<1>1. RulesInv => RulesTypeOK
  BY DEF RulesInv
<1> QED
  BY RulesStart, RulesKept, <1>1, PTL DEF RulesSpec

\* The transfers with a row are finitely many, and their amounts are in the
\* buckets or were spent.
AccountsInv ==
  /\ RulesInv
  /\ IsFiniteSet(known)
  /\ source + saved + spent = Floor + SumOver(Inflow, known)

LEMMA AccountsKept ==
  ASSUME AccountsInv, [RulesNext]_rulesVars
  PROVE  AccountsInv'
<1>1. /\ runner \in [Handlers -> RunnerType] /\ known \subseteq Transfers
      /\ source \in Nat /\ saved \in Nat /\ spent \in Nat
  BY RulesTypes DEF AccountsInv
<1>2. RulesInv'
  BY RulesKept DEF AccountsInv
<1>3. \A t \in Transfers : Inflow[t] \in Nat
  BY RulesAssumption
<1>4. source + saved + spent = Floor + SumOver(Inflow, known) /\ Floor \in Nat
  BY RulesAssumption DEF AccountsInv
<1>5. CASE UNCHANGED <<source, saved, spent, known>>
  BY <1>2, <1>5 DEF AccountsInv
<1>6. ASSUME NEW h \in Handlers, CommitCredit(h) PROVE AccountsInv'
  <2> DEFINE t == runner[h].transfer
  <2>1. t \in Transfers
    BY <1>6 DEF CommitCredit, Runs, AccountsInv, RulesInv
  <2>2. known' = known \cup {t} /\ UNCHANGED <<saved, spent>>
        /\ source' = IF t \in known THEN source ELSE source + Inflow[t]
    BY <1>6 DEF CommitCredit, Credited
  <2> HIDE DEF t
  <2>3. CASE t \in known
    <3>1. UNCHANGED <<source, saved, spent, known>>
      BY <2>2, <2>3
    <3> QED
      BY <1>5, <3>1
  <2>4. CASE t \notin known
    <3>1. SumOver(Inflow, known \cup {t}) = Inflow[t] + SumOver(Inflow, known)
      BY <1>1, <1>3, <2>1, <2>4, SumAdd DEF AccountsInv
    <3>2. SumOver(Inflow, known) \in Nat
      BY <1>1, <1>3, SumNat DEF AccountsInv
    <3>3. IsFiniteSet(known')
      BY <2>2, FS_AddElement DEF AccountsInv
    <3>4. source' + saved' + spent' = Floor + SumOver(Inflow, known \cup {t})
      <4> DEFINE total == SumOver(Inflow, known)
      <4>1. Inflow[t] \in Nat /\ source' = source + Inflow[t] /\ saved' = saved /\ spent' = spent
        BY <1>3, <2>1, <2>2, <2>4
      <4>2. source + saved + spent = Floor + total /\ total \in Nat /\ Floor \in Nat
        BY <1>4, <3>2
      <4> HIDE DEF total
      <4>3. source' + saved' + spent' = Floor + (Inflow[t] + total)
        BY <1>1, <4>1, <4>2
      <4> QED
        BY <3>1, <4>3 DEF total
    <3> QED
      BY <1>2, <2>2, <3>3, <3>4 DEF AccountsInv
  <2> QED
    BY <2>3, <2>4
<1>7. ASSUME known' = known, source' \in Nat, saved' \in Nat, spent' \in Nat,
             source' + saved' + spent' = source + saved + spent
      PROVE  AccountsInv'
  <2>1. source' + saved' + spent' = Floor + SumOver(Inflow, known)
    BY <1>4, <1>7
  <2> QED
    BY <1>2, <1>7, <2>1 DEF AccountsInv
<1>8. ASSUME NEW h \in Handlers, NEW n \in Asked, n <= source, source' = source - n, spent' = spent + n,
             UNCHANGED <<known, saved>>
      PROVE  AccountsInv'
  <2>1. n \in Nat
    BY RulesAssumption
  <2>2. source' \in Nat /\ spent' \in Nat /\ source' + saved' + spent' = source + saved + spent
    BY <1>1, <1>8, <2>1
  <2> QED
    BY <1>1, <1>7, <1>8, <2>2
<1>9. ASSUME NEW h \in Handlers, SweepToSavings(h) PROVE AccountsInv'
  <2> DEFINE n == runner[h].amount
  <2>1. n \in Nat
    BY <1>1 DEF RunnerType
  <2>2. /\ UNCHANGED <<known, spent>>
        /\ \/ n <= source /\ source' = source - n /\ saved' = saved + n
           \/ UNCHANGED <<source, saved>>
    BY <1>9 DEF SweepToSavings
  <2> HIDE DEF n
  <2>3. CASE n <= source /\ source' = source - n /\ saved' = saved + n
    <3>1. source' \in Nat /\ saved' \in Nat /\ source' + saved' + spent' = source + saved + spent
      BY <1>1, <2>1, <2>2, <2>3
    <3> QED
      BY <1>1, <1>7, <2>2, <3>1
  <2> QED
    BY <1>5, <2>2, <2>3
<1>10. CASE NextDay \/ UNCHANGED rulesVars
  BY <1>5, <1>10 DEF NextDay, rulesVars
<1>11. ASSUME NEW h \in Handlers, RuleStep(h) PROVE AccountsInv'
  <2>1. CASE CommitCredit(h)
    BY <1>6, <2>1
  <2>2. CASE Allocate(h)
    BY <1>8, <2>2 DEF Allocate
  <2>3. ASSUME NEW n \in Asked, PayOut(h, n) PROVE AccountsInv'
    BY <1>8, <2>3 DEF PayOut
  <2>4. CASE SweepToSavings(h)
    BY <1>9, <2>4
  <2>5. CASE \/ \E t \in Transfers : Receive(h, t)
             \/ AbortCredit(h) \/ SkipAllocation(h) \/ ReadBalance(h) \/ Stamp(h)
             \/ RunEnds(h) \/ ListDueRule(h)
    <3>1. UNCHANGED <<source, saved, spent, known>>
      BY <2>5 DEF Receive, AbortCredit, SkipAllocation, ReadBalance, Stamp, RunEnds, ListDueRule
    <3> QED
      BY <1>5, <3>1
  <2> QED
    BY <1>11, <2>1, <2>2, <2>3, <2>4, <2>5 DEF RuleStep
<1> QED
  BY <1>10, <1>11 DEF RulesNext

\* Every transfer with a row was credited once, however its notices overlap
\* with each other and with the rules, and every unit of it is in one of the
\* two buckets or was spent.
THEOREM MoneyIsAccounted == RulesSpec => []MoneyAccounted
<1>1. RulesInit => AccountsInv
  <2> SUFFICES ASSUME RulesInit PROVE AccountsInv
    OBVIOUS
  <2>1. known = {} /\ source = Floor /\ saved = 0 /\ spent = 0 /\ Floor \in Nat
    BY RulesAssumption DEF RulesInit
  <2>2. SumOver(Inflow, known) = 0 /\ IsFiniteSet(known)
    BY <2>1, SumEmpty, FS_EmptySet
  <2> QED
    BY <2>1, <2>2, RulesStart DEF AccountsInv
<1>2. AccountsInv /\ [RulesNext]_rulesVars => AccountsInv'
  BY AccountsKept
<1>3. AccountsInv => MoneyAccounted
  BY DEF AccountsInv, MoneyAccounted, SumOver
<1> QED
  BY <1>1, <1>2, <1>3, PTL DEF RulesSpec

-----------------------------------------------------------------------------
(* InvoiceCheckout: two notices of one transfer. *)

CardSession ==
  [status : {"NONE", "PENDING", "CONFIRMED", "FAILED"}, hosted : BOOLEAN]

\* The rows that are there and the rows to come, each of a transfer that may
\* have it.
CheckoutInv ==
  /\ \A r \in settling : \E c \in Cards, hash \in NoticeHashes : r = CardRow(c, hash)
  /\ \A r \in onchain :
       \/ \E c \in Cards, hash \in NoticeHashes : r = CardRow(c, hash)
       \/ \E x \in Moneys, hash \in NoticeHashes : r = InboundRow(x, hash)
  /\ \A m \in matching : \E x \in Moneys, hash \in NoticeHashes : m.row = InboundRow(x, hash)
  /\ session \in [Cards -> CardSession]
  /\ CheckoutBacked

LEMMA CheckoutStart == CheckoutInit => CheckoutInv
<1> SUFFICES ASSUME CheckoutInit PROVE CheckoutInv
  OBVIOUS
<1>1. settling = {} /\ onchain = {} /\ matching = {} /\ session \in [Cards -> CardSession]
  BY DEF CheckoutInit, CardSession
<1>2. \A c \in Cards : session[c].status = "NONE"
  BY DEF CheckoutInit
<1> QED
  BY <1>1, <1>2 DEF CheckoutInv, CheckoutBacked

\* A session that is not CONFIRMED turns to something else.
LEMMA SessionMoves ==
  ASSUME CheckoutInv, NEW c \in Cards, session[c].status # "CONFIRMED", NEW v \in CardSession,
         v.status # "CONFIRMED", session' = [session EXCEPT ![c] = v],
         UNCHANGED <<settling, onchain, matching>>
  PROVE  CheckoutInv'
<1>1. \A d \in Cards : session'[d].status = "CONFIRMED" <=> session[d].status = "CONFIRMED"
  BY DEF CheckoutInv
<1> QED
  BY <1>1 DEF CheckoutInv, CheckoutBacked

\* The money of r gets its row, in the transaction that confirms its session.
LEMMA SettleKeeps ==
  ASSUME CheckoutInv, NEW r \in settling, SettleCard(r)
  PROVE  CheckoutInv'
<1>1. PICK c \in Cards, hash \in NoticeHashes : r = CardRow(c, hash)
  BY DEF CheckoutInv
<1>2. r.of = c /\ r.by = "card"
  BY <1>1 DEF CardRow
<1>3. settling' = settling \ {r} /\ matching' = matching
  BY DEF SettleCard
<1>4. CASE session[c].status = "PENDING" /\ ~Collides(r)
  <2>1. session' = [session EXCEPT ![c].status = "CONFIRMED"] /\ onchain' = onchain \cup {r}
    BY <1>2, <1>4 DEF SettleCard, ClaimKept
  <2>2. session' \in [Cards -> CardSession] /\ session'[c].status = "CONFIRMED"
          /\ \A d \in Cards \ {c} : session'[d] = session[d]
    BY <2>1 DEF CheckoutInv, CardSession
  <2>3. ASSUME NEW d \in Cards
        PROVE  session'[d].status = "CONFIRMED" <=> \E q \in onchain' : q.by = "card" /\ q.of = d
    BY <1>2, <2>1, <2>2 DEF CheckoutInv, CheckoutBacked
  <2>4. \A q \in onchain' :
          \/ \E d \in Cards, h \in NoticeHashes : q = CardRow(d, h)
          \/ \E x \in Moneys, h \in NoticeHashes : q = InboundRow(x, h)
    BY <1>1, <2>1 DEF CheckoutInv
  <2> QED
    BY <1>3, <2>2, <2>3, <2>4 DEF CheckoutInv, CheckoutBacked
<1>5. CASE ~(session[c].status = "PENDING" /\ ~Collides(r))
  <2>1. session' = session /\ onchain' = onchain
    BY <1>2, <1>5 DEF SettleCard, ClaimKept
  <2> QED
    BY <1>3, <2>1 DEF CheckoutInv, CheckoutBacked
<1> QED
  BY <1>4, <1>5

\* The treasury's notice writes no card payment's row.
LEMMA MatchKeeps ==
  ASSUME CheckoutInv, NEW m \in matching, CommitMatch(m)
  PROVE  CheckoutInv'
<1>1. PICK x \in Moneys, hash \in NoticeHashes : m.row = InboundRow(x, hash)
  BY DEF CheckoutInv
<1>2. onchain' = onchain \cup {m.row} /\ UNCHANGED <<session, settling>> /\ matching' \subseteq matching
  BY DEF CommitMatch
<1>3. m.row.by # "card"
  BY <1>1 DEF InboundRow
<1>4. CheckoutBacked'
  BY <1>2, <1>3 DEF CheckoutInv, CheckoutBacked
<1> QED
  BY <1>1, <1>2, <1>4 DEF CheckoutInv

\* What touches neither sessions nor rows.
LEMMA ElsewhereKeeps ==
  ASSUME CheckoutInv, UNCHANGED <<session, settling, onchain>>,
         \A m \in matching' : \E x \in Moneys, hash \in NoticeHashes : m.row = InboundRow(x, hash)
  PROVE  CheckoutInv'
  BY DEF CheckoutInv, CheckoutBacked

LEMMA CheckoutKept == CheckoutInv /\ [CheckoutNext]_checkoutVars => CheckoutInv'
<1> SUFFICES ASSUME CheckoutInv, [CheckoutNext]_checkoutVars PROVE CheckoutInv'
  OBVIOUS
<1>1. CASE IssuerStep \/ OverdueStep \/ UNCHANGED checkoutVars
  <2>1. UNCHANGED <<session, settling, onchain, matching>>
    BY <1>1 DEF IssuerStep, IssuerReads, IssuerWrites, View, MarkViewed, OverdueStep, DayPasses,
                Flip, ListOverdue, Remind, SweepEnds, checkoutVars
  <2> QED
    BY <2>1, ElsewhereKeeps DEF CheckoutInv
<1>2. ASSUME NEW c \in Cards, StartCheckout(c) \/ HostCheckout(c) \/ CardRefused(c)
      PROVE  CheckoutInv'
  <2>1. session[c].status # "CONFIRMED" /\ UNCHANGED <<settling, onchain, matching>>
    BY <1>2 DEF StartCheckout, HostCheckout, CardRefused
  <2>2. PICK v \in {[session[c] EXCEPT !.status = "PENDING"], [session[c] EXCEPT !.status = "FAILED"],
                    [session[c] EXCEPT !.hosted = TRUE]} : session' = [session EXCEPT ![c] = v]
    BY <1>2 DEF StartCheckout, HostCheckout, CardRefused
  <2>3. v.status # "CONFIRMED" /\ v \in CardSession
    BY <2>1, <2>2 DEF CheckoutInv, CardSession
  <2> QED
    BY <2>1, <2>2, <2>3, SessionMoves
<1>3. ASSUME NEW c \in Cards, PayByCard(c)
      PROVE  CheckoutInv'
  BY <1>3, ElsewhereKeeps DEF PayByCard, CheckoutInv
<1>4. ASSUME NEW x \in Directs, PayDirectly(x)
      PROVE  CheckoutInv'
  BY <1>4, ElsewhereKeeps DEF PayDirectly, CheckoutInv
<1>5. ASSUME NEW c \in Cards, CardPaid(c)
      PROVE  CheckoutInv'
  <2>1. PICK hash \in NoticeHashes : settling' = settling \cup {CardRow(c, hash)}
    BY <1>5 DEF CardPaid
  <2>2. UNCHANGED <<session, onchain, matching>>
    BY <1>5 DEF CardPaid
  <2> QED
    BY <2>1, <2>2 DEF CheckoutInv, CheckoutBacked
<1>6. ASSUME NEW r \in settling, SettleCard(r)
      PROVE  CheckoutInv'
  BY <1>6, SettleKeeps
<1>7. ASSUME NEW x \in Moneys, BeginMatch(x)
      PROVE  CheckoutInv'
  <2>1. PICK r \in RowFor(x) : \A m \in matching' : m \in matching \/ m.row = r
    BY <1>7 DEF BeginMatch
  <2>2. \E y \in Moneys, hash \in NoticeHashes : r = InboundRow(y, hash)
    <3>1. CASE r \in onchain /\ r.by = "inbound"
      BY <3>1 DEF CheckoutInv, CardRow
    <3>2. CASE \E hash \in NoticeHashes : r = InboundRow(x, hash)
      BY <3>2
    <3> QED
      BY <3>1, <3>2 DEF RowFor
  <2>3. \A m \in matching' : \E y \in Moneys, hash \in NoticeHashes : m.row = InboundRow(y, hash)
    BY <2>1, <2>2 DEF CheckoutInv
  <2> QED
    BY <1>7, <2>3, ElsewhereKeeps DEF BeginMatch
<1>8. ASSUME NEW m \in matching, CommitMatch(m)
      PROVE  CheckoutInv'
  BY <1>8, MatchKeeps
<1>9. ASSUME NEW m \in matching, AbortMatch(m)
      PROVE  CheckoutInv'
  BY <1>9, ElsewhereKeeps DEF AbortMatch, CheckoutInv
<1> QED
  BY <1>1, <1>2, <1>3, <1>4, <1>5, <1>6, <1>7, <1>8, <1>9
  DEF CheckoutNext, CustomerStep, NoticeStep

\* A checkout is CONFIRMED exactly when the card payment's own notice has been
\* credited, whatever the other notice and the other checkouts do.
THEOREM ConfirmsWithCredit == CheckoutSpec => []CheckoutBacked
<1>1. CheckoutInv => CheckoutBacked
  BY DEF CheckoutInv
<1> QED
  BY CheckoutStart, CheckoutKept, <1>1, PTL DEF CheckoutSpec

\* Rows that collide are one row, the row of a match under way included; a
\* transfer has at most one match under way.
OneRowInv ==
  /\ CheckoutInv
  /\ \A q, r \in onchain : SameKey(q, r) => q = r
  /\ \A m \in matching : \A q \in onchain : SameKey(q, m.row) => q = m.row
  /\ \A m, n \in matching : m.row.of = n.row.of => m = n

LEMMA OneRowKept ==
  ASSUME OneRowInv, [CheckoutNext]_checkoutVars
  PROVE  OneRowInv'
<1>1. CheckoutInv'
  BY CheckoutKept DEF OneRowInv
<1>2. CASE UNCHANGED onchain /\ matching' \subseteq matching
  BY <1>1, <1>2 DEF OneRowInv, SameKey
<1>3. ASSUME NEW x \in Moneys, BeginMatch(x)
      PROVE  OneRowInv'
  <2>1. PICK r \in RowFor(x) : \A m \in matching' : m \in matching \/ m.row = r
    BY <1>3 DEF BeginMatch
  <2>2. onchain' = onchain /\ \A m \in matching : m.row.of # x
    BY <1>3 DEF BeginMatch
  <2>3. r.of = x /\ \A q \in onchain : SameKey(q, r) => q = r
    BY DEF RowFor, Collides, InboundRow, OneRowInv
  <2>4. \A m, n \in matching' : m.row.of = n.row.of => m = n
    <3>1. \E n0 : matching' = matching \cup {n0} /\ n0.row.of = x
      <4> DEFINE found == {i \in Invoices : invoice[i].status \in Open /\ Total[i] = Received[x]}
      <4>1. PICK q \in RowFor(x) : matching' = matching \cup {[row |-> q, found |-> found]}
        BY <1>3 DEF BeginMatch
      <4>2. q.of = x
        BY DEF RowFor, InboundRow
      <4> HIDE DEF found
      <4>3. [row |-> q, found |-> found].row.of = x
        BY <4>2
      <4> WITNESS [row |-> q, found |-> found]
      <4> QED
        BY <4>1, <4>3
    <3>2. PICK n0 : matching' = matching \cup {n0} /\ n0.row.of = x
      BY <3>1
    <3> QED
      BY <2>2, <3>2 DEF OneRowInv
  <2> QED
    BY <1>1, <2>1, <2>2, <2>3, <2>4 DEF OneRowInv, SameKey
<1>4. ASSUME NEW r \in settling, SettleCard(r), onchain' # onchain
      PROVE  OneRowInv'
  <2>1. onchain' = onchain \cup {r} /\ matching' = matching /\ ~Collides(r)
        /\ \A m \in matching : ~SameKey(m.row, r)
    BY <1>4 DEF SettleCard
  <2>2. \A q, p \in onchain' : SameKey(q, p) => q = p
    BY <2>1 DEF OneRowInv, Collides, SameKey
  <2>3. \A m \in matching : \A q \in onchain' : SameKey(q, m.row) => q = m.row
    BY <2>1 DEF OneRowInv, SameKey
  <2> QED
    BY <1>1, <2>1, <2>2, <2>3 DEF OneRowInv, SameKey
<1>5. ASSUME NEW m \in matching, CommitMatch(m)
      PROVE  OneRowInv'
  <2>1. onchain' = onchain \cup {m.row} /\ matching' = matching \ {m}
    BY <1>5 DEF CommitMatch
  <2>2. \A q, p \in onchain' : SameKey(q, p) => q = p
    BY <2>1 DEF OneRowInv, SameKey
  <2>3. \A n \in matching' : \A q \in onchain' : SameKey(q, n.row) => q = n.row
    BY <2>1 DEF OneRowInv, SameKey
  <2> QED
    BY <1>1, <2>1, <2>2, <2>3 DEF OneRowInv, SameKey
<1>6. CASE IssuerStep \/ OverdueStep \/ CustomerStep \/ UNCHANGED checkoutVars
  <2>1. onchain' = onchain /\ matching' = matching
    BY <1>6 DEF IssuerStep, IssuerReads, IssuerWrites, View, MarkViewed, OverdueStep, DayPasses,
                Flip, ListOverdue, Remind, SweepEnds, checkoutVars, CustomerStep, StartCheckout,
                HostCheckout, PayByCard, PayDirectly
  <2> QED
    BY <1>2, <2>1
<1>7. CASE \E c \in Cards : CardRefused(c) \/ CardPaid(c)
  BY <1>2, <1>7 DEF CardRefused, CardPaid
<1>8. CASE \E r \in settling : SettleCard(r)
  BY <1>2, <1>4, <1>8 DEF SettleCard
<1>9. CASE \E m \in matching : AbortMatch(m)
  BY <1>2, <1>9 DEF AbortMatch
<1> QED
  BY <1>3, <1>5, <1>6, <1>7, <1>8, <1>9 DEF CheckoutNext, NoticeStep

\* However often, in which order and with or without the txHash the notices of
\* one transfer are handled, a second credit is the other webhook's, for a
\* transfer that one of the two did not name.
THEOREM CreditsAgainOnlyUnhashed == CheckoutSpec => []SecondCreditUnhashed
<1>1. CheckoutInit => OneRowInv
  BY CheckoutStart DEF CheckoutInit, OneRowInv
<1>2. OneRowInv /\ [CheckoutNext]_checkoutVars => OneRowInv'
  BY OneRowKept
<1>3. OneRowInv => SecondCreditUnhashed
  BY DEF OneRowInv, SecondCreditUnhashed, SameKey
<1> QED
  BY <1>1, <1>2, <1>3, PTL DEF CheckoutSpec

-----------------------------------------------------------------------------
(* AgreementMirror: the mirror is never ahead of the chain. *)

\* Whether an agreement that is d may have been c before.
Behind(c, d) ==
  /\ Precedes(c.status, d.status)
  /\ c.deposited <= d.deposited /\ c.released <= d.released
  /\ c.condition = "released" => d.condition = "released"

\* What a sync has read is behind the chain as well.
MirrorInv ==
  /\ MirrorTypeOK
  /\ MirrorNotAhead
  /\ \A s \in Copiers : \A c \in copying[s].seen : Behind(c, chain)

LEMMA PrecedesChains ==
  ASSUME NEW s \in Statuses, NEW t \in Statuses, NEW u \in Statuses,
         Precedes(s, t), Precedes(t, u)
  PROVE  Precedes(s, u)
  BY DEF Precedes, Statuses, Terminal

LEMMA MirrorStart == MirrorInit => MirrorInv
  BY MirrorAssumption DEF MirrorInit, MirrorInv, MirrorTypeOK, MirrorNotAhead, Agreement, Mirror, Statuses,
     Modules, NotCopying, Precedes

\* A transaction takes the agreement to one that it precedes.
LEMMA MiningAdvances ==
  ASSUME NEW c \in Agreement, NEW op \in {"CREATE"} \cup Plain \cup Recording,
         Succeeds(op, c), NEW d \in Outcomes(op, c)
  PROVE  d \in Agreement /\ Behind(c, d)
<1> USE DEF Statuses, Terminal
<1>2. /\ c.status \in Statuses /\ c.deposited \in Nat /\ c.released \in Nat
      /\ c.condition \in {"none", "registered", "authorized", "released"}
      /\ c.stream \in {"none", "running", "cancelled"}
  BY DEF Agreement
<1>3. Precedes(c.status, c.status)
  BY DEF Precedes
<1>4. ASSUME Payable(c), d = Releasing(c) \/ d = [Releasing(c) EXCEPT !.condition = "released"]
      PROVE  d \in Agreement /\ Behind(c, d)
  <2> DEFINE t == IF c.released + 1 = c.deposited THEN "SETTLED" ELSE c.status
  <2>1. t \in Statuses /\ Precedes(c.status, t)
    BY <1>2, <1>4 DEF Payable, Precedes
  <2>2. c.released + 1 \in Nat
    BY <1>2
  <2>3. PICK n \in {c.condition, "released"} :
          d = [c EXCEPT !.status = t, !.released = c.released + 1, !.condition = n]
    BY <1>2, <1>4 DEF Releasing, Agreement
  <2> HIDE DEF t
  <2>4. d \in Agreement
    BY <1>2, <2>1, <2>2, <2>3 DEF Agreement
  <2>5. d.status = t /\ d.deposited = c.deposited /\ d.released = c.released + 1 /\ d.condition = n
    BY <2>3 DEF Agreement
  <2> QED
    BY <1>2, <2>1, <2>3, <2>4, <2>5 DEF Behind
<1>5. CASE op = "CANCEL_STREAM"
  <2>1. PICK r \in c.released .. c.deposited :
          d = [c EXCEPT !.stream = "cancelled", !.status = "CANCELLED", !.released = r]
    BY <1>5 DEF Outcomes
  <2>2. r \in Nat /\ c.released <= r
    BY <1>2, <2>1
  <2>3. Precedes(c.status, "CANCELLED")
    BY <1>5 DEF Succeeds, Precedes
  <2>4. d \in Agreement
    BY <1>2, <2>1, <2>2 DEF Agreement
  <2>5. /\ d.status = "CANCELLED" /\ d.deposited = c.deposited /\ d.released = r
        /\ d.condition = c.condition
    BY <2>1 DEF Agreement
  <2> QED
    BY <1>2, <2>2, <2>3, <2>4, <2>5 DEF Behind
<1>6. CASE op \in {"RELEASE", "CLAIM_STREAM", "RELEASE_CONDITION"}
  <2>1. Payable(c)
    BY <1>6 DEF Succeeds
  <2>2. d = Releasing(c) \/ d = [Releasing(c) EXCEPT !.condition = "released"]
    BY <1>6 DEF Outcomes
  <2> QED
    BY <1>4, <2>1, <2>2
<1>7. CASE op = "FUND"
  <2>1. d = [c EXCEPT !.status = "FUNDED", !.deposited = c.deposited + 1]
    BY <1>7 DEF Outcomes
  <2>2. Precedes(c.status, "FUNDED")
    BY <1>7 DEF Succeeds, Early, Precedes
  <2> DEFINE m == c.deposited + 1
  <2>3. d \in Agreement
    <3>1. m \in Nat
      BY <1>2
    <3>2. d = [c EXCEPT !.status = "FUNDED", !.deposited = m]
      BY <2>1
    <3> HIDE DEF m
    <3> QED
      BY <3>1, <3>2 DEF Agreement
  <2>4. /\ d.status = "FUNDED" /\ d.deposited = c.deposited + 1 /\ d.released = c.released
        /\ d.condition = c.condition
    BY <2>1 DEF Agreement
  <2>5. c.deposited <= d.deposited /\ c.released <= d.released
    BY <1>2, <2>4
  <2> QED
    BY <2>2, <2>3, <2>4, <2>5 DEF Behind
<1>8. CASE op \in {"CREATE", "ACTIVATE", "CANCEL", "EXPIRE"}
  <2>1. PICK t \in {"CREATED", "ACTIVE", "CANCELLED", "EXPIRED"} :
          d = [c EXCEPT !.status = t] /\ Precedes(c.status, t)
    BY <1>8 DEF Succeeds, Early, Outcomes, Precedes
  <2> QED
    BY <1>2, <2>1 DEF Agreement, Behind
<1>9. CASE op \in {"REGISTER_CONDITION", "AUTHORIZE_CONDITION"}
  <2>1. PICK n \in {"registered", "authorized"} : d = [c EXCEPT !.condition = n]
    BY <1>9 DEF Outcomes
  <2>2. c.condition # "released"
    BY <1>9 DEF Succeeds
  <2> QED
    BY <1>2, <1>3, <2>1, <2>2 DEF Agreement, Behind
<1>10. CASE op = "CREATE_STREAM"
  <2>1. d = [c EXCEPT !.stream = "running"]
    BY <1>10 DEF Outcomes
  <2> QED
    BY <1>2, <1>3, <2>1 DEF Agreement, Behind
<1> QED
  BY <1>5, <1>6, <1>7, <1>8, <1>9, <1>10 DEF Plain, Recording

\* The chain moves on: whatever was behind it stays so.
LEMMA MineKeeps == MirrorInv /\ Mine => MirrorInv'
<1> SUFFICES ASSUME MirrorInv, Mine PROVE MirrorInv'
  OBVIOUS
<1> DEFINE op == Head(mempool)
<1>1. op \in {"CREATE"} \cup Plain \cup Recording /\ mempool' \in Seq({"CREATE"} \cup Plain \cup Recording)
  BY DEF Mine, MirrorInv, MirrorTypeOK
<1>2. chain \in Agreement /\ mirror \in Mirror
  BY DEF MirrorInv, MirrorTypeOK
<1>3. Behind(chain, chain)
  BY <1>2 DEF Behind, Precedes, Agreement
<1>4. chain' \in Agreement /\ Behind(chain, chain')
  BY <1>1, <1>2, <1>3, MiningAdvances DEF Mine
<1>5. MirrorTypeOK'
  BY <1>1, <1>4 DEF Mine, MirrorInv, MirrorTypeOK
<1>6. MirrorNotAhead'
  BY <1>2, <1>4, PrecedesChains DEF Mine, MirrorInv, MirrorNotAhead, Behind, Agreement, Mirror
<1>7. ASSUME NEW s \in Copiers, NEW c \in copying[s].seen
      PROVE  Behind(c, chain')
  <2>1. c \in Agreement /\ Behind(c, chain)
    BY DEF MirrorInv, MirrorTypeOK
  <2> QED
    BY <1>2, <1>4, <2>1, PrecedesChains DEF Behind, Agreement
<1> QED
  BY <1>5, <1>6, <1>7 DEF MirrorInv, Mine, Behind

\* The records of the operations write nothing that the chain does not have.
LEMMA RecordingKeeps ==
  ASSUME MirrorInv, NEW c \in pending, Record(c)
  PROVE  MirrorInv'
<1>1. mirror \in Mirror
  BY DEF MirrorInv, MirrorTypeOK
<1>2. mirror' \in Mirror
  BY <1>1 DEF Record, Mirrored, Mirror, Statuses
<1>3. mirror'.status \in {mirror.status, "CREATED"} /\ mirror'.paidOut = mirror.paidOut
        /\ mirror'.deposited = mirror.deposited /\ mirror'.released = mirror.released
  BY <1>1 DEF Record, Mirrored, Mirror
<1> QED
  BY <1>2, <1>3 DEF Record, MirrorInv, MirrorTypeOK, MirrorNotAhead, Precedes, Behind

LEMMA CallKeeps == MirrorInv /\ CallStep => MirrorInv'
<1> SUFFICES ASSUME MirrorInv, CallStep PROVE MirrorInv'
  OBVIOUS
<1>1. ASSUME NEW op \in {"CREATE"} \cup Plain \cup Recording, Sent(op),
             UNCHANGED <<chain, mirror, copying>>
      PROVE  MirrorInv'
  <2>1. mempool' \in Seq({"CREATE"} \cup Plain \cup Recording) /\ operations' \in Nat
    BY <1>1 DEF Sent, MirrorInv, MirrorTypeOK
  <2> QED
    BY <1>1, <2>1 DEF MirrorInv, MirrorTypeOK, MirrorNotAhead, Behind
<1>2. CASE SubmitCreate \/ SubmitItsStream
  BY <1>1, <1>2 DEF SubmitCreate, SubmitItsStream, Recording
<1>3. CASE \E op \in Plain \cup Recording : Submit(op)
  BY <1>1, <1>3 DEF Submit
<1>4. ASSUME NEW c \in pending, Record(c) PROVE MirrorInv'
  BY <1>4, RecordingKeeps
<1>5. ASSUME NEW c \in pending, Forget(c) PROVE MirrorInv'
  BY <1>5 DEF Forget, MirrorInv, MirrorTypeOK, MirrorNotAhead, Behind
<1> QED
  BY <1>2, <1>3, <1>4, <1>5 DEF CallStep

LEMMA CopierMoves ==
  ASSUME MirrorInv, NEW s \in Copiers, NEW pc \in {"idle", "agreement", "module", "part"},
         NEW seen \in {{}, {chain}},
         copying' = [copying EXCEPT ![s] = [pc |-> pc, seen |-> seen]],
         mirror' \in Mirror, MirrorNotAhead',
         UNCHANGED <<chain, mempool, operations>>
  PROVE  MirrorInv'
<1>1. chain \in Agreement /\ Behind(chain, chain)
  BY DEF MirrorInv, MirrorTypeOK, Behind, Precedes, Agreement
<1>2. MirrorTypeOK'
  BY <1>1 DEF MirrorInv, MirrorTypeOK
<1>3. ASSUME NEW t \in Copiers, NEW c \in copying'[t].seen
      PROVE  Behind(c, chain')
  BY <1>1, <1>3 DEF MirrorInv, MirrorTypeOK
<1> QED
  BY <1>2, <1>3 DEF MirrorInv, Behind

LEMMA CopyKeeps == MirrorInv /\ CopyStep => MirrorInv'
<1> SUFFICES ASSUME MirrorInv, NEW s \in Copiers,
               \/ ReadAgreement(s) \/ CopyAgreement(s)
               \/ ReadModule(s) \/ CopyModule(s) \/ StopCopying(s)
             PROVE  MirrorInv'
  BY DEF CopyStep
<1>1. mirror \in Mirror /\ chain \in Agreement /\ MirrorNotAhead
  BY DEF MirrorInv, MirrorTypeOK
<1>2. CASE ReadAgreement(s) \/ ReadModule(s) \/ StopCopying(s)
  <2>1. mirror' = mirror /\ MirrorNotAhead'
    BY <1>1, <1>2 DEF ReadAgreement, ReadModule, StopCopying, MirrorNotAhead
  <2> QED
    BY <1>1, <1>2, <2>1, CopierMoves DEF ReadAgreement, ReadModule, StopCopying, NotCopying
<1>3. CASE CopyAgreement(s)
  <2>1. PICK c \in copying[s].seen :
          mirror' = [mirror EXCEPT !.status = c.status, !.deposited = c.deposited,
                                   !.released = c.released]
    BY <1>3 DEF CopyAgreement
  <2>2. c \in Agreement /\ Behind(c, chain)
    BY DEF MirrorInv, MirrorTypeOK
  <2>3. mirror' \in Mirror
    BY <1>1, <2>1, <2>2 DEF Mirror, Agreement
  <2>4. MirrorNotAhead'
    BY <1>1, <1>3, <2>1, <2>2 DEF CopyAgreement, MirrorNotAhead, Behind, Mirror
  <2> QED
    BY <1>3, <2>3, <2>4, CopierMoves DEF CopyAgreement
<1>4. CASE CopyModule(s)
  <2>1. PICK c \in copying[s].seen :
          mirror' =
            CASE c.condition # "none" ->
                   [mirror EXCEPT !.condition = "registered",
                                  !.authorized = c.condition \in {"authorized", "released"},
                                  !.paidOut = c.condition = "released"]
              [] c.condition = "none" /\ c.stream # "none" /\ mirror.stream # "none" ->
                   [mirror EXCEPT !.stream = c.stream]
              [] OTHER -> mirror
    BY <1>4 DEF CopyModule
  <2>2. c \in Agreement /\ Behind(c, chain)
    BY DEF MirrorInv, MirrorTypeOK
  <2>3. CASE c.condition # "none"
    <3> DEFINE a == c.condition \in {"authorized", "released"}
               b == c.condition = "released"
    <3>0. a \in BOOLEAN /\ b \in BOOLEAN /\ (b => chain.condition = "released")
      BY <2>2 DEF Behind
    <3>1. mirror' = [mirror EXCEPT !.condition = "registered", !.authorized = a, !.paidOut = b]
      BY <2>1, <2>3
    <3> HIDE DEF a, b
    <3>2. mirror' \in Mirror
      BY <1>1, <3>0, <3>1 DEF Mirror
    <3>3. MirrorNotAhead'
      BY <1>1, <1>4, <3>0, <3>1 DEF CopyModule, MirrorNotAhead, Mirror
    <3> QED
      BY <1>4, <3>2, <3>3, CopierMoves DEF CopyModule, NotCopying
  <2>4. CASE c.condition = "none"
    <3>1. mirror' \in {mirror, [mirror EXCEPT !.stream = c.stream]}
      BY <2>1, <2>4
    <3>2. mirror' \in Mirror
      BY <1>1, <2>2, <3>1 DEF Mirror, Agreement
    <3>3. MirrorNotAhead'
      BY <1>1, <1>4, <3>1 DEF CopyModule, MirrorNotAhead, Mirror
    <3> QED
      BY <1>4, <3>2, <3>3, CopierMoves DEF CopyModule, NotCopying
  <2> QED
    BY <2>3, <2>4
<1> QED
  BY <1>2, <1>3, <1>4

LEMMA MirrorKept == MirrorInv /\ [MirrorNext]_mirrorVars => MirrorInv'
<1> SUFFICES ASSUME MirrorInv, [MirrorNext]_mirrorVars PROVE MirrorInv'
  OBVIOUS
<1>1. CASE UNCHANGED mirrorVars
  BY <1>1 DEF mirrorVars, MirrorInv, MirrorTypeOK, MirrorNotAhead, Behind
<1> QED
  BY <1>1, MineKeeps, CallKeeps, CopyKeeps DEF MirrorNext

\* The mirror of an agreement is never ahead of the contract, however many
\* operations and syncs are under way and whichever of them die.
THEOREM MirrorLags == MirrorSpec => []MirrorNotAhead
<1>1. MirrorInv => MirrorNotAhead
  BY DEF MirrorInv
<1> QED
  BY MirrorStart, MirrorKept, <1>1, PTL DEF MirrorSpec

\* Every variable of the mirror but the set of calls keeps its type.
THEOREM MirrorTypeCorrect == MirrorSpec => []MirrorTypeOK
<1>1. MirrorInv => MirrorTypeOK
  BY DEF MirrorInv
<1> QED
  BY MirrorStart, MirrorKept, <1>1, PTL DEF MirrorSpec

-----------------------------------------------------------------------------
(* YieldRedemption: a request is what Circle did, and no position loses USYC *)
(* that no completed request asked for.                                      *)

PositionRow == [usyc : Nat, status : {"ACTIVE", "REDEEMED"}]

Progress == {"PENDING", "PROCESSING", "COMPLETED", "FAILED"}

RequestRow == [position : Nat, amount : Nat, status : Progress]

Orders == {"none", "settling", "complete", "failed"}

Stages == {"convert", "record", "enqueue", "over"}

ClickType == [pc : {"idle", "sum", "create"}, seen : Seq(Nat), take : Seq(Nat)]

ConfirmerType ==
  [pc : {"idle", "poll", "fail", "begin", "commit"}, request : Nat, usyc : Nat]

\* A click only knows positions there are, and a busy run of the job a request.
YieldShape ==
  /\ YieldTypeOK
  /\ click \in [Clicks -> ClickType]
  /\ \A c \in Clicks : DOMAIN click[c].seen \cup DOMAIN click[c].take \subseteq DOMAIN positions
  /\ \A w \in YieldWorkers : confirmer[w].pc # "idle" => confirmer[w].request \in DOMAIN requests

\* What the columns of a request say of one another.
RowTells(status, order, stage, credits, left) ==
  /\ status = "COMPLETED" => order = "complete" /\ credits = 1
  /\ status # "COMPLETED" => credits = 0
  /\ status = "FAILED" => order = "failed"
  /\ stage \in {"record", "enqueue"} => order # "none"
  /\ left > 0 \/ status \in {"COMPLETED", "FAILED"} => stage = "over" /\ order # "none"

\* What the place of a run of the job says of its request.
RunTells(pc, order, stage) ==
  /\ pc # "idle" => stage = "over" /\ order # "none"
  /\ pc \in {"begin", "commit"} => order = "complete"
  /\ pc = "fail" => order = "failed"

OutcomeInv ==
  /\ \A r \in DOMAIN requests :
       RowTells(requests[r].status, conversion[r], submission[r], credited[r], tries[r])
  /\ \A w \in YieldWorkers : confirmer[w].pc # "idle" =>
       RunTells(confirmer[w].pc, conversion[confirmer[w].request],
                submission[confirmer[w].request])

-----------------------------------------------------------------------------
\* A sequence with one more element, and with one element replaced.
LEMMA SeqMore ==
  ASSUME NEW T, NEW s \in Seq(T), NEW e \in T
  PROVE  /\ Append(s, e) \in Seq(T) /\ Len(Append(s, e)) = Len(s) + 1 /\ Len(s) \in Nat
         /\ DOMAIN s = 1..Len(s) /\ DOMAIN Append(s, e) = 1..(Len(s) + 1)
         /\ \A i \in 1..Len(s) : Append(s, e)[i] = s[i]
         /\ Append(s, e)[Len(s) + 1] = e
  OBVIOUS

LEMMA SeqPut ==
  ASSUME NEW T, NEW s \in Seq(T), NEW i \in DOMAIN s, NEW e \in T
  PROVE  /\ [s EXCEPT ![i] = e] \in Seq(T) /\ Len([s EXCEPT ![i] = e]) = Len(s)
         /\ DOMAIN [s EXCEPT ![i] = e] = DOMAIN s
         /\ [s EXCEPT ![i] = e][i] = e
         /\ \A j \in DOMAIN s : j # i => [s EXCEPT ![i] = e][j] = s[j]
  OBVIOUS

LEMMA YieldTypes ==
  ASSUME YieldShape
  PROVE  /\ positions \in Seq(PositionRow) /\ requests \in Seq(RequestRow)
         /\ conversion \in Seq(Orders) /\ submission \in Seq(Stages)
         /\ credited \in Seq(Nat) /\ tries \in Seq(Nat)
         /\ DOMAIN positions = 1..Len(positions) /\ Len(positions) \in Nat
         /\ DOMAIN requests = 1..Len(requests) /\ Len(requests) \in Nat
         /\ DOMAIN conversion = DOMAIN requests /\ DOMAIN submission = DOMAIN requests
         /\ DOMAIN credited = DOMAIN requests /\ DOMAIN tries = DOMAIN requests
         /\ Len(conversion) = Len(requests) /\ Len(submission) = Len(requests)
         /\ Len(credited) = Len(requests) /\ Len(tries) = Len(requests)
         /\ confirmer \in [YieldWorkers -> ConfirmerType]
         /\ \A r \in DOMAIN requests : requests[r].position \in DOMAIN positions
  BY DEF YieldShape, YieldTypeOK, PositionRow, RequestRow, Progress, Orders, Stages, ConfirmerType

\* The columns of request r are written, and nothing else of any request.
RowMoves(r, status, order, stage, credits, left) ==
  /\ r \in DOMAIN requests
  /\ status \in Progress /\ order \in Orders /\ stage \in Stages
  /\ credits \in Nat /\ left \in Nat
  /\ requests' = [requests EXCEPT ![r].status = status]
  /\ conversion' = [conversion EXCEPT ![r] = order]
  /\ submission' = [submission EXCEPT ![r] = stage]
  /\ credited' = [credited EXCEPT ![r] = credits]
  /\ tries' = [tries EXCEPT ![r] = left]

LEMMA RowMoved ==
  ASSUME YieldShape, NEW r, NEW status, NEW order, NEW stage, NEW credits, NEW left,
         RowMoves(r, status, order, stage, credits, left)
  PROVE  /\ requests' \in Seq(RequestRow) /\ conversion' \in Seq(Orders)
         /\ submission' \in Seq(Stages) /\ credited' \in Seq(Nat) /\ tries' \in Seq(Nat)
         /\ Len(requests') = Len(requests) /\ DOMAIN requests' = DOMAIN requests
         /\ Len(conversion') = Len(requests) /\ Len(submission') = Len(requests)
         /\ Len(credited') = Len(requests) /\ Len(tries') = Len(requests)
         /\ \A q \in DOMAIN requests : requests'[q].position = requests[q].position
                                       /\ requests'[q].amount = requests[q].amount
         /\ requests'[r].status = status /\ conversion'[r] = order /\ submission'[r] = stage
         /\ credited'[r] = credits /\ tries'[r] = left
         /\ \A q \in DOMAIN requests : q # r =>
              /\ requests'[q] = requests[q] /\ conversion'[q] = conversion[q]
              /\ submission'[q] = submission[q] /\ credited'[q] = credited[q] /\ tries'[q] = tries[q]
<1> DEFINE row == [requests[r] EXCEPT !.status = status]
<1>0. /\ r \in DOMAIN requests /\ status \in Progress /\ order \in Orders /\ stage \in Stages
      /\ credits \in Nat /\ left \in Nat
  BY DEF RowMoves
<1>1. requests[r] \in RequestRow
  BY <1>0, YieldTypes
<1>2. row \in RequestRow /\ row.status = status /\ row.position = requests[r].position
      /\ row.amount = requests[r].amount
  BY <1>0, <1>1 DEF RequestRow
<1>3. requests' = [requests EXCEPT ![r] = row]
  BY YieldTypes DEF RowMoves
<1> HIDE DEF row
<1>4. /\ requests' \in Seq(RequestRow) /\ Len(requests') = Len(requests)
      /\ DOMAIN requests' = DOMAIN requests /\ requests'[r] = row
      /\ \A q \in DOMAIN requests : q # r => requests'[q] = requests[q]
  BY <1>0, <1>2, <1>3, YieldTypes, SeqPut
<1>5. /\ conversion' \in Seq(Orders) /\ Len(conversion') = Len(requests) /\ conversion'[r] = order
      /\ \A q \in DOMAIN requests : q # r => conversion'[q] = conversion[q]
  BY <1>0, YieldTypes, SeqPut DEF RowMoves
<1>6. /\ submission' \in Seq(Stages) /\ Len(submission') = Len(requests) /\ submission'[r] = stage
      /\ \A q \in DOMAIN requests : q # r => submission'[q] = submission[q]
  BY <1>0, YieldTypes, SeqPut DEF RowMoves
<1>7. /\ credited' \in Seq(Nat) /\ Len(credited') = Len(requests) /\ credited'[r] = credits
      /\ \A q \in DOMAIN requests : q # r => credited'[q] = credited[q]
  BY <1>0, YieldTypes, SeqPut DEF RowMoves
<1>8. /\ tries' \in Seq(Nat) /\ Len(tries') = Len(requests) /\ tries'[r] = left
      /\ \A q \in DOMAIN requests : q # r => tries'[q] = tries[q]
  BY <1>0, YieldTypes, SeqPut DEF RowMoves
<1> QED
  BY <1>2, <1>4, <1>5, <1>6, <1>7, <1>8

\* A step that writes the columns of one request, a run of the job and perhaps
\* a position keeps the shape.
LEMMA RowKeepsShape ==
  ASSUME YieldShape, NEW r, NEW status, NEW order, NEW stage, NEW credits, NEW left,
         RowMoves(r, status, order, stage, credits, left),
         positions' \in Seq(PositionRow), Len(positions') = Len(positions),
         confirmer' \in [YieldWorkers -> ConfirmerType],
         \A w \in YieldWorkers : confirmer'[w].pc # "idle" => confirmer'[w].request \in DOMAIN requests,
         losses' \in Nat, UNCHANGED <<click, deployer>>
  PROVE  YieldShape'
<1>1. DOMAIN positions' = DOMAIN positions
  BY YieldTypes
<1>2. /\ requests' \in Seq(RequestRow) /\ conversion' \in Seq(Orders)
      /\ submission' \in Seq(Stages) /\ credited' \in Seq(Nat) /\ tries' \in Seq(Nat)
      /\ DOMAIN requests' = DOMAIN requests
      /\ Len(conversion') = Len(requests') /\ Len(submission') = Len(requests')
      /\ Len(credited') = Len(requests') /\ Len(tries') = Len(requests')
  BY RowMoved
<1>3. \A q \in DOMAIN requests' : requests'[q].position \in DOMAIN positions'
  BY <1>1, RowMoved, YieldTypes
<1>4. YieldTypeOK'
  BY <1>2, <1>3 DEF YieldShape, YieldTypeOK, PositionRow, RequestRow, Progress, Orders, Stages,
     ConfirmerType
<1> QED
  BY <1>1, <1>2, <1>4 DEF YieldShape

\* The same for the outcomes, if the columns agree and the order of a request
\* that runs of the job ask for is only decided.
LEMMA RowKeepsOutcome ==
  ASSUME YieldShape, OutcomeInv,
         NEW r, NEW status, NEW order, NEW stage, NEW credits, NEW left,
         RowMoves(r, status, order, stage, credits, left),
         RowTells(status, order, stage, credits, left),
         submission[r] = "over" /\ conversion[r] # "none" =>
           /\ stage = "over"
           /\ order = conversion[r] \/ (conversion[r] = "settling" /\ order # "none"),
         \A w \in YieldWorkers : confirmer'[w].pc # "idle" =>
           /\ confirmer'[w].request \in DOMAIN requests
           /\ \/ confirmer'[w] = confirmer[w]
              \/ RunTells(confirmer'[w].pc, conversion[confirmer'[w].request],
                          submission[confirmer'[w].request])
  PROVE  OutcomeInv'
<1>0. DOMAIN requests' = DOMAIN requests
  BY RowMoved
<1>1. ASSUME NEW q \in DOMAIN requests
      PROVE  RowTells(requests'[q].status, conversion'[q], submission'[q], credited'[q], tries'[q])
  <2>1. CASE q = r
    BY <2>1, RowMoved
  <2>2. CASE q # r
    BY <2>2, RowMoved DEF OutcomeInv
  <2> QED
    BY <2>1, <2>2
<1>2. ASSUME NEW w \in YieldWorkers, confirmer'[w].pc # "idle"
      PROVE  RunTells(confirmer'[w].pc, conversion'[confirmer'[w].request],
                      submission'[confirmer'[w].request])
  <2> DEFINE q == confirmer'[w].request
             pc == confirmer'[w].pc
  <2>1. q \in DOMAIN requests /\ RunTells(pc, conversion[q], submission[q])
    BY <1>2 DEF OutcomeInv
  <2> HIDE DEF q, pc
  <2>2. CASE q = r
    <3>1. conversion'[q] = order /\ submission'[q] = stage
      BY <2>2, RowMoved
    <3>2. pc # "idle" => submission[r] = "over" /\ conversion[r] # "none"
      BY <2>1, <2>2 DEF RunTells
    <3> QED
      BY <2>1, <2>2, <3>1, <3>2 DEF RunTells, q, pc
  <2>3. CASE q # r
    <3>1. conversion'[q] = conversion[q] /\ submission'[q] = submission[q]
      BY <2>1, <2>3, RowMoved
    <3> QED
      BY <2>1, <3>1 DEF q, pc
  <2> QED
    BY <2>2, <2>3
<1> QED
  BY <1>0, <1>1, <1>2 DEF OutcomeInv

\* No request becomes COMPLETED or ceases to be, and none changes what it asks.
SameDone ==
  /\ DOMAIN requests \subseteq DOMAIN requests'
  /\ \A q \in DOMAIN requests :
       /\ requests'[q].position = requests[q].position
       /\ requests'[q].amount = requests[q].amount
       /\ requests'[q].status = "COMPLETED" <=> requests[q].status = "COMPLETED"
  /\ \A q \in DOMAIN requests' \ DOMAIN requests : requests'[q].status # "COMPLETED"

LEMMA RowKeepsDone ==
  ASSUME YieldShape, NEW r, NEW status, NEW order, NEW stage, NEW credits, NEW left,
         RowMoves(r, status, order, stage, credits, left),
         status = "COMPLETED" <=> requests[r].status = "COMPLETED"
  PROVE  SameDone
<1>1. DOMAIN requests' = DOMAIN requests
  BY RowMoved
<1>2. ASSUME NEW q \in DOMAIN requests
      PROVE  /\ requests'[q].position = requests[q].position
             /\ requests'[q].amount = requests[q].amount
             /\ requests'[q].status = "COMPLETED" <=> requests[q].status = "COMPLETED"
  <2>1. requests'[q].position = requests[q].position /\ requests'[q].amount = requests[q].amount
    BY RowMoved
  <2>2. requests'[r].status = status /\ (q # r => requests'[q] = requests[q])
    BY RowMoved
  <2> QED
    BY <2>1, <2>2
<1> QED
  BY <1>1, <1>2 DEF SameDone

\* What a step leaves alone it writes back.
LEMMA RowStays ==
  ASSUME YieldShape, NEW r \in DOMAIN requests
  PROVE  /\ requests[r] \in RequestRow /\ requests[r].status \in Progress
         /\ conversion[r] \in Orders /\ submission[r] \in Stages
         /\ credited[r] \in Nat /\ tries[r] \in Nat
         /\ requests = [requests EXCEPT ![r].status = requests[r].status]
         /\ conversion = [conversion EXCEPT ![r] = conversion[r]]
         /\ submission = [submission EXCEPT ![r] = submission[r]]
         /\ credited = [credited EXCEPT ![r] = credited[r]]
         /\ tries = [tries EXCEPT ![r] = tries[r]]
<1>1. requests[r] \in RequestRow /\ requests[r].status \in Progress
  <2>1. requests[r] \in RequestRow
    BY YieldTypes
  <2> QED
    BY <2>1 DEF RequestRow
<1>2. conversion[r] \in Orders /\ submission[r] \in Stages /\ credited[r] \in Nat /\ tries[r] \in Nat
  <2>1. r \in DOMAIN conversion /\ r \in DOMAIN submission /\ r \in DOMAIN credited
        /\ r \in DOMAIN tries
    BY YieldTypes
  <2>2. \A T : \A s \in Seq(T) : \A i \in DOMAIN s : s[i] \in T
    OBVIOUS
  <2> QED
    BY <2>1, <2>2, YieldTypes
<1>3. requests = [requests EXCEPT ![r].status = requests[r].status]
  <2>1. requests[r] = [requests[r] EXCEPT !.status = requests[r].status]
    BY <1>1 DEF RequestRow
  <2>2. requests = [requests EXCEPT ![r] = requests[r]]
    BY YieldTypes
  <2> QED
    BY <2>1, <2>2
<1>4. conversion = [conversion EXCEPT ![r] = conversion[r]]
  BY YieldTypes
<1>5. submission = [submission EXCEPT ![r] = submission[r]]
  BY YieldTypes
<1>6. credited = [credited EXCEPT ![r] = credited[r]] /\ tries = [tries EXCEPT ![r] = tries[r]]
  BY YieldTypes
<1> QED
  BY <1>1, <1>2, <1>3, <1>4, <1>5, <1>6

\* The submission of a request, and Circle's decision.
LEMMA RequestKeeps ==
  ASSUME YieldShape, OutcomeInv, NEW r \in DOMAIN requests, RequestStep(r)
  PROVE  YieldShape' /\ OutcomeInv' /\ SameDone /\ UNCHANGED <<positions, confirmer>>
<1> DEFINE status == requests[r].status
           order == conversion[r]
           stage == submission[r]
           credits == credited[r]
           left == tries[r]
<1>1. /\ positions \in Seq(PositionRow) /\ confirmer \in [YieldWorkers -> ConfirmerType]
      /\ \A w \in YieldWorkers : confirmer[w].pc # "idle" => confirmer[w].request \in DOMAIN requests
      /\ losses \in Nat /\ losses + 1 \in Nat
  <2>1. losses \in Nat
    BY DEF YieldShape, YieldTypeOK
  <2> QED
    BY <2>1, YieldTypes DEF YieldShape
<1>2. RowTells(status, order, stage, credits, left)
  BY DEF OutcomeInv
<1>3. ASSUME NEW st, NEW o, NEW sg, NEW l, RowMoves(r, st, o, sg, credits, l),
             RowTells(st, o, sg, credits, l),
             stage = "over" /\ order # "none" =>
               sg = "over" /\ (o = order \/ (order = "settling" /\ o # "none")),
             st = "COMPLETED" <=> status = "COMPLETED",
             UNCHANGED <<positions, click, deployer, confirmer>>, losses' \in Nat
      PROVE  YieldShape' /\ OutcomeInv' /\ SameDone /\ UNCHANGED <<positions, confirmer>>
  BY <1>1, <1>3, RowKeepsShape, RowKeepsOutcome, RowKeepsDone
<1>4. CASE SubmitRequest(r)
  <2>1. RowMoves(r, status, "settling", "record", credits, left)
    BY <1>4, RowStays DEF SubmitRequest, SubmitTo, RowMoves, Orders, Stages
  <2>2. stage = "convert"
    BY <1>4 DEF SubmitRequest
  <2>3. RowTells(status, "settling", "record", credits, left)
    BY <1>2, <2>2 DEF RowTells
  <2> QED
    BY <1>1, <1>3, <1>4, <2>1, <2>2, <2>3 DEF SubmitRequest
<1>5. CASE RecordSubmission(r)
  <2>1. RowMoves(r, "PROCESSING", order, "enqueue", credits, left)
    BY <1>5, RowStays DEF RecordSubmission, SubmitTo, RowMoves, Progress, Stages
  <2>2. stage = "record"
    BY <1>5 DEF RecordSubmission
  <2>3. RowTells("PROCESSING", order, "enqueue", credits, left) /\ status # "COMPLETED"
    BY <1>2, <2>2 DEF RowTells
  <2> QED
    BY <1>1, <1>3, <1>5, <2>1, <2>2, <2>3 DEF RecordSubmission
<1>6. CASE QueueConfirmation(r)
  <2>1. RowMoves(r, status, order, "over", credits, Attempts)
    BY <1>6, RowStays, YieldAssumption DEF QueueConfirmation, SubmitTo, RowMoves, Stages
  <2>2. stage = "enqueue"
    BY <1>6 DEF QueueConfirmation
  <2>3. RowTells(status, order, "over", credits, Attempts)
    BY <1>2, <2>2 DEF RowTells
  <2> QED
    BY <1>1, <1>3, <1>6, <2>1, <2>2, <2>3 DEF QueueConfirmation
<1>7. CASE SubmissionLost(r)
  <2>1. stage # "over" /\ losses' = losses + 1
    BY <1>7 DEF SubmissionLost
  <2>2. PICK o \in {order, "settling"} :
          /\ conversion' = [conversion EXCEPT ![r] = o]
          /\ o # order => stage = "convert"
    BY <1>7, RowStays DEF SubmissionLost
  <2>3. RowMoves(r, status, o, "over", credits, left)
    BY <1>7, <2>2, RowStays DEF SubmissionLost, SubmitTo, RowMoves, Orders, Stages
  <2>4. RowTells(status, o, "over", credits, left)
    BY <1>2, <2>1, <2>2 DEF RowTells
  <2> QED
    BY <1>1, <1>3, <1>7, <2>1, <2>3, <2>4 DEF SubmissionLost
<1>8. ASSUME NEW o \in {"complete", "failed"}, Settle(r, o)
      PROVE  YieldShape' /\ OutcomeInv' /\ SameDone /\ UNCHANGED <<positions, confirmer>>
  <2>1. RowMoves(r, status, o, stage, credits, left)
    BY <1>8, RowStays DEF Settle, RowMoves, Orders
  <2>2. order = "settling"
    BY <1>8 DEF Settle
  <2>3. RowTells(status, o, stage, credits, left)
    BY <1>2, <2>2 DEF RowTells
  <2> QED
    BY <1>1, <1>3, <1>8, <2>1, <2>2, <2>3 DEF Settle
<1> QED
  BY <1>4, <1>5, <1>6, <1>7, <1>8 DEF RequestStep

-----------------------------------------------------------------------------
\* The amounts of a set of rows, as a sum.
LEMMA RowSum ==
  ASSUME NEW rows, NEW f, NEW R, IsFiniteSet(R), \A r \in R : f[r] = rows[r].amount
  PROVE  MapThenSumSet(LAMBDA r : rows[r].amount, R) = SumOver(f, R)
<1> DEFINE Step(g, T) == IF T = {} THEN 0 ELSE rows[Pick(T)].amount + g[T \ {Pick(T)}]
           Sums(g) == g = [T \in SUBSET R |-> Step(g, T)]
           h == CHOOSE g : Sums(g)
<1>1. ASSUME NEW g PROVE Sums(g) <=> SumsOf(f, R, g)
  <2>1. ASSUME NEW T \in SUBSET R PROVE Step(g, T) = SumStep(f, g, T)
    BY PickIn DEF SumStep
  <2>2. [T \in SUBSET R |-> Step(g, T)] = [T \in SUBSET R |-> SumStep(f, g, T)]
    BY <2>1, Zenon
  <2> QED
    BY <2>2 DEF SumsOf
<1>2. MapThenSumSet(LAMBDA r : rows[r].amount, R) = h[R]
  BY DEF MapThenSumSet, MapThenFoldSet, Pick
<1>3. \E g : Sums(g)
  BY <1>1, SumsOfExist
<1> HIDE DEF Sums
<1>4. Sums(h)
  BY <1>3
<1>5. SumsOf(f, R, h)
  BY <1>1, <1>4
<1>6. PICK k : SumsOf(f, R, k) /\ SumOver(f, R) = k[R]
  BY SumOverIsSum
<1> HIDE DEF h
<1>7. h[R] = k[R]
  <2>1. \A T \in SUBSET R : h[T] = k[T]
    BY <1>5, <1>6, SumsOfAgree
  <2> QED
    BY <2>1
<1> QED
  BY <1>2, <1>6, <1>7

Weights == [r \in DOMAIN requests |-> requests[r].amount]

\* A set of requests is finite, and their amounts add up to a natural.
LEMMA AmountsNat ==
  ASSUME YieldShape, NEW R, R \subseteq DOMAIN requests
  PROVE  /\ IsFiniteSet(R) /\ SumOver(Weights, R) \in Nat /\ Amounts(R) = SumOver(Weights, R)
         /\ \A r \in DOMAIN requests : Weights[r] = requests[r].amount /\ Weights[r] \in Nat
<1>1. IsFiniteSet(R)
  <2>1. DOMAIN requests = 1..Len(requests) /\ Len(requests) \in Int /\ 1 \in Int
    BY YieldTypes
  <2>2. IsFiniteSet(1..Len(requests))
    BY <2>1, FS_Interval
  <2> QED
    BY <2>1, <2>2, FS_Subset
<1>2. \A r \in DOMAIN requests : Weights[r] = requests[r].amount /\ Weights[r] \in Nat
  <2>1. \A r \in DOMAIN requests : requests[r] \in RequestRow
    BY YieldTypes
  <2> QED
    BY <2>1 DEF Weights, RequestRow
<1>3. SumOver(Weights, R) \in Nat
  BY <1>1, <1>2, SumNat
<1>4. Amounts(R) = SumOver(Weights, R)
  BY <1>1, <1>2, RowSum DEF Amounts
<1> QED
  BY <1>1, <1>2, <1>3, <1>4

LEMMA HeldNat == ASSUME YieldShape, NEW p PROVE Held(p) \in Nat
<1>1. {r \in RequestsOf(p) : requests[r].status \in Live} \subseteq DOMAIN requests
  BY DEF RequestsOf
<1> QED
  BY <1>1, AmountsNat DEF Held

LEMMA AvailableType ==
  ASSUME YieldShape, NEW seen \in Seq(Nat)
  PROVE  Available(seen) \in Seq(Nat) /\ DOMAIN Available(seen) = DOMAIN seen
<1>1. \A p \in DOMAIN seen : Max({0, seen[p] - Held(p)}) \in Nat
  <2> TAKE p \in DOMAIN seen
  <2>1. seen[p] - Held(p) \in Int
    BY HeldNat
  <2> QED
    BY <2>1, MaxOfTwo
<1>2. DOMAIN seen = 1..Len(seen) /\ Len(seen) \in Nat
  OBVIOUS
<1> QED
  BY <1>1, <1>2 DEF Available

LEMMA FifoType ==
  ASSUME NEW available \in Seq(Nat), NEW n \in Int
  PROVE  Fifo(available, n) \in Seq(Nat) /\ DOMAIN Fifo(available, n) = DOMAIN available
<1> DEFINE before(p) == MapThenSumSet(LAMBDA q : available[q], 1..(p - 1))
<1>1. DOMAIN available = 1..Len(available) /\ Len(available) \in Nat
  OBVIOUS
<1>2. \A p \in DOMAIN available : Min({available[p], Max({0, n - before(p)})}) \in Nat
  <2> TAKE p \in DOMAIN available
  <2>a. p - 1 \in Int /\ 1 \in Int /\ \A q \in 1..(p - 1) : available[q] \in Nat
    BY <1>1
  <2>1. IsFiniteSet(1..(p - 1))
    BY <2>a, FS_Interval
  <2>2. SumOver(available, 1..(p - 1)) \in Nat
    BY <2>a, <2>1, SumNat
  <2>3. before(p) \in Nat
    BY <2>2 DEF SumOver
  <2> HIDE DEF before
  <2>4. n - before(p) \in Int /\ available[p] \in Nat
    BY <2>3
  <2> QED
    BY <2>4, MaxOfTwo, MinOfTwo
<1>3. Fifo(available, n) = [p \in DOMAIN available |-> Min({available[p], Max({0, n - before(p)})})]
  BY DEF Fifo
<1> HIDE DEF before
<1> QED
  BY <1>1, <1>2, <1>3

-----------------------------------------------------------------------------
\* A click moves on and nothing else changes.
LEMMA ClickMoves ==
  ASSUME YieldShape, OutcomeInv, NEW c \in Clicks, NEW x \in ClickType,
         click' = [click EXCEPT ![c] = x],
         DOMAIN x.seen \cup DOMAIN x.take \subseteq DOMAIN positions,
         UNCHANGED <<positions, requests, conversion, submission, credited, tries,
                     deployer, confirmer, losses>>
  PROVE  YieldShape' /\ OutcomeInv' /\ SameDone
<1>1. click \in [Clicks -> ClickType]
  BY DEF YieldShape
<1>2. click' \in [Clicks -> ClickType] /\ click'[c] = x
      /\ \A d \in Clicks : d # c => click'[d] = click[d]
  BY <1>1
<1>3. x.pc \in {"idle", "sum", "create"} /\ \A d \in Clicks : click[d].pc \in {"idle", "sum", "create"}
  BY <1>1 DEF ClickType
<1>4. YieldTypeOK'
  BY <1>2, <1>3 DEF YieldShape, YieldTypeOK
<1>5. \A d \in Clicks : DOMAIN click'[d].seen \cup DOMAIN click'[d].take \subseteq DOMAIN positions
  BY <1>2 DEF YieldShape
<1>6. YieldShape'
  BY <1>2, <1>4, <1>5 DEF YieldShape
<1>7. OutcomeInv' /\ SameDone
  BY DEF OutcomeInv, SameDone
<1> QED
  BY <1>6, <1>7

\* A request is added.
LEMMA RequestAdded ==
  ASSUME YieldShape, OutcomeInv, NEW row \in RequestRow,
         row.position \in DOMAIN positions, row.status = "PENDING",
         requests' = Append(requests, row), conversion' = Append(conversion, "none"),
         submission' = Append(submission, "convert"), credited' = Append(credited, 0),
         tries' = Append(tries, 0),
         click' \in [Clicks -> ClickType],
         \A d \in Clicks : DOMAIN click'[d].seen \cup DOMAIN click'[d].take \subseteq DOMAIN positions,
         UNCHANGED <<positions, deployer, confirmer, losses>>
  PROVE  YieldShape' /\ OutcomeInv' /\ SameDone
<1> DEFINE n == Len(requests) + 1
<1>1. /\ requests' \in Seq(RequestRow) /\ Len(requests') = n /\ requests'[n] = row
      /\ DOMAIN requests' = DOMAIN requests \cup {n} /\ n \notin DOMAIN requests
      /\ \A q \in DOMAIN requests : requests'[q] = requests[q]
  BY YieldTypes, SeqMore
<1>2. /\ conversion' \in Seq(Orders) /\ Len(conversion') = n /\ conversion'[n] = "none"
      /\ \A q \in DOMAIN requests : conversion'[q] = conversion[q]
  <2>1. "none" \in Orders
    BY DEF Orders
  <2> QED
    BY <2>1, YieldTypes, SeqMore
<1>3. /\ submission' \in Seq(Stages) /\ Len(submission') = n /\ submission'[n] = "convert"
      /\ \A q \in DOMAIN requests : submission'[q] = submission[q]
  <2>1. "convert" \in Stages
    BY DEF Stages
  <2> QED
    BY <2>1, YieldTypes, SeqMore
<1>4. /\ credited' \in Seq(Nat) /\ Len(credited') = n /\ credited'[n] = 0
      /\ \A q \in DOMAIN requests : credited'[q] = credited[q]
  BY YieldTypes, SeqMore
<1>5. /\ tries' \in Seq(Nat) /\ Len(tries') = n /\ tries'[n] = 0
      /\ \A q \in DOMAIN requests : tries'[q] = tries[q]
  BY YieldTypes, SeqMore
<1> HIDE DEF n
<1>6. YieldShape'
  <2>1. \A q \in DOMAIN requests' : requests'[q].position \in DOMAIN positions'
    BY <1>1, YieldTypes
  <2>2. \A d \in Clicks : click'[d].pc \in {"idle", "sum", "create"}
    BY DEF ClickType
  <2>3. YieldTypeOK'
    BY <1>1, <1>2, <1>3, <1>4, <1>5, <2>1, <2>2
       DEF YieldShape, YieldTypeOK, RequestRow, Progress, Orders, Stages
  <2> QED
    BY <1>1, <2>3 DEF YieldShape
<1>7. OutcomeInv'
  <2>1. RowTells("PENDING", "none", "convert", 0, 0)
    BY DEF RowTells
  <2>2. \A q \in DOMAIN requests' :
          RowTells(requests'[q].status, conversion'[q], submission'[q], credited'[q], tries'[q])
    BY <1>1, <1>2, <1>3, <1>4, <1>5, <2>1 DEF OutcomeInv
  <2>3. \A w \in YieldWorkers : confirmer[w].pc # "idle" => confirmer[w].request \in DOMAIN requests
    BY DEF YieldShape
  <2> QED
    BY <1>2, <1>3, <2>2, <2>3 DEF OutcomeInv
<1>8. SameDone
  BY <1>1 DEF SameDone
<1> QED
  BY <1>6, <1>7, <1>8

LEMMA ClickKeeps ==
  ASSUME YieldShape, OutcomeInv, NEW c \in Clicks, ClickStep(c)
  PROVE  YieldShape' /\ OutcomeInv' /\ SameDone /\ UNCHANGED <<positions, confirmer>>
<1>0. /\ click \in [Clicks -> ClickType]
      /\ click[c].seen \in Seq(Nat) /\ click[c].take \in Seq(Nat)
      /\ DOMAIN click[c].seen \subseteq DOMAIN positions
      /\ DOMAIN click[c].take \subseteq DOMAIN positions
  BY DEF YieldShape, ClickType
<1>1. NoClick \in ClickType /\ DOMAIN NoClick.seen \cup DOMAIN NoClick.take \subseteq DOMAIN positions
  BY DEF NoClick, ClickType
<1>2. CASE ReadPositions(c)
  <2> DEFINE seen == [p \in DOMAIN positions |->
                        IF positions[p].status = "ACTIVE" THEN positions[p].usyc ELSE 0]
             x == [pc |-> "sum", take |-> << >>, seen |-> seen]
  <2>1. \A p \in DOMAIN positions : positions[p].usyc \in Nat
    <3>1. \A p \in DOMAIN positions : positions[p] \in PositionRow
      BY YieldTypes
    <3> QED
      BY <3>1 DEF PositionRow
  <2>2. seen \in Seq(Nat) /\ DOMAIN seen = DOMAIN positions
    BY <2>1, YieldTypes
  <2>5. click' = [click EXCEPT ![c] = x]
    BY <1>2 DEF ReadPositions
  <2> HIDE DEF seen
  <2>3. x \in ClickType
    BY <2>2 DEF ClickType
  <2>4. DOMAIN x.seen \cup DOMAIN x.take \subseteq DOMAIN positions
    BY <2>2
  <2> HIDE DEF x
  <2> QED
    BY <1>2, <2>3, <2>4, <2>5, ClickMoves DEF ReadPositions
<1>3. CASE ReadHeld(c)
  <2> DEFINE available == Available(click[c].seen)
             total == MapThenSumSet(LAMBDA p : available[p], DOMAIN available)
  <2>1. available \in Seq(Nat) /\ DOMAIN available \subseteq DOMAIN positions
    BY <1>0, AvailableType
  <2>u. UNCHANGED <<positions, requests, conversion, submission, credited, tries,
                    deployer, confirmer, losses>>
    BY <1>3 DEF ReadHeld
  <2>2. \/ \E n \in 1..total : click' = [click EXCEPT ![c] =
                [pc |-> "create", seen |-> << >>, take |-> Fifo(available, n)]]
        \/ click' = [click EXCEPT ![c] = NoClick]
    BY <1>3 DEF ReadHeld
  <2> HIDE DEF available, total
  <2>3. ASSUME NEW n \in 1..total,
               click' = [click EXCEPT ![c] =
                 [pc |-> "create", seen |-> << >>, take |-> Fifo(available, n)]]
        PROVE  YieldShape' /\ OutcomeInv' /\ SameDone
    <3> DEFINE take == Fifo(available, n)
               x == [pc |-> "create", seen |-> << >>, take |-> take]
    <3>1. take \in Seq(Nat) /\ DOMAIN take \subseteq DOMAIN positions
      BY <2>1, FifoType
    <3>2. x \in ClickType /\ DOMAIN x.seen \cup DOMAIN x.take \subseteq DOMAIN positions
      <4> HIDE DEF take
      <4> QED
        BY <3>1 DEF ClickType
    <3>3. click' = [click EXCEPT ![c] = x]
      BY <2>3
    <3> HIDE DEF x
    <3> QED
      BY <2>u, <3>2, <3>3, ClickMoves
  <2> QED
    BY <1>1, <2>u, <2>2, <2>3, ClickMoves
<1>4. CASE CreateRequest(c)
  <2> DEFINE take == click[c].take
             touched == {p \in DOMAIN take : take[p] > 0}
             p == Min(touched)
  <2>1. CASE touched = {}
    BY <1>1, <1>4, <2>1, ClickMoves DEF CreateRequest
  <2>2. CASE touched # {}
    <3>1. p \in touched
      <4>1. touched \subseteq Nat
        BY <1>0
      <4> HIDE DEF touched
      <4>2. \E m \in touched : \A q \in touched : m <= q
        BY <2>2, <4>1, LeastNatural
      <4> QED
        BY <4>2 DEF Min
    <3> DEFINE row == [position |-> p, amount |-> take[p], status |-> "PENDING"]
               x == [click[c] EXCEPT !.take = [take EXCEPT ![p] = 0]]
    <3>2. /\ requests' = Append(requests, row) /\ conversion' = Append(conversion, "none")
          /\ submission' = Append(submission, "convert") /\ credited' = Append(credited, 0)
          /\ tries' = Append(tries, 0)
          /\ click' = [click EXCEPT ![c].take[p] = 0]
          /\ UNCHANGED <<positions, deployer, confirmer, losses>>
      BY <1>4, <2>2 DEF CreateRequest
    <3> HIDE DEF p
    <3>3. p \in DOMAIN take /\ p \in DOMAIN positions /\ take[p] \in Nat /\ p \in Nat
      BY <1>0, <3>1, YieldTypes
    <3>4. row \in RequestRow /\ row.position = p /\ row.status = "PENDING"
      BY <3>3 DEF RequestRow, Progress
    <3>5. [take EXCEPT ![p] = 0] \in Seq(Nat) /\ DOMAIN [take EXCEPT ![p] = 0] = DOMAIN take
      BY <1>0, <3>3, SeqPut
    <3>6. click[c] \in ClickType
      BY <1>0
    <3>7. x \in ClickType /\ x.seen = click[c].seen /\ x.take = [take EXCEPT ![p] = 0]
      <4> DEFINE t == [take EXCEPT ![p] = 0]
      <4> HIDE DEF t
      <4>1. t \in Seq(Nat)
        BY <3>5 DEF t
      <4>2. [click[c] EXCEPT !.take = t] \in ClickType /\ [click[c] EXCEPT !.take = t].take = t
            /\ [click[c] EXCEPT !.take = t].seen = click[c].seen
        BY <3>6, <4>1 DEF ClickType
      <4> QED
        BY <4>2 DEF t
    <3>8. click' = [click EXCEPT ![c] = x]
      BY <1>0, <3>2
    <3>9. DOMAIN x.seen \cup DOMAIN x.take \subseteq DOMAIN positions
      BY <1>0, <3>5, <3>7
    <3> HIDE DEF x, row
    <3>10. /\ click' \in [Clicks -> ClickType]
           /\ \A d \in Clicks : DOMAIN click'[d].seen \cup DOMAIN click'[d].take \subseteq DOMAIN positions
      BY <1>0, <3>7, <3>8, <3>9 DEF YieldShape
    <3> QED
      BY <3>2, <3>3, <3>4, <3>10, RequestAdded
  <2> QED
    BY <2>1, <2>2
<1>5. UNCHANGED <<positions, confirmer>>
  BY DEF ClickStep, ReadPositions, ReadHeld, CreateRequest
<1> QED
  BY <1>2, <1>3, <1>4, <1>5 DEF ClickStep

\* A deployment: at most one position is added, with all that it deploys.
LEMMA DeployKeeps ==
  ASSUME YieldShape, OutcomeInv, NEW d \in Deployers, DeployStep(d)
  PROVE  /\ YieldShape' /\ OutcomeInv' /\ SameDone /\ UNCHANGED <<requests, confirmer>>
         /\ DOMAIN positions \subseteq DOMAIN positions'
         /\ \A p \in DOMAIN positions : positions'[p] = positions[p]
         /\ \A p \in DOMAIN positions' \ DOMAIN positions : positions'[p].usyc = DeployAmount
<1>u. UNCHANGED <<requests, conversion, submission, credited, tries, click, confirmer>>
  BY DEF DeployStep, Debit, Convert, CreatePosition, Reverse, DeployerDies
<1>0. deployer \in [Deployers -> {"idle", "convert", "create", "reverse"}] /\ losses \in Nat
  BY DEF YieldShape, YieldTypeOK
<1>1. deployer' \in [Deployers -> {"idle", "convert", "create", "reverse"}] /\ losses' \in Nat
  BY <1>0 DEF DeployStep, Debit, Convert, CreatePosition, Reverse, DeployerDies
<1> DEFINE row == [usyc |-> DeployAmount, status |-> "ACTIVE"]
<1>2. \/ positions' = positions
      \/ positions' = Append(positions, row)
  BY DEF DeployStep, Debit, Convert, CreatePosition, Reverse, DeployerDies
<1>3. row \in PositionRow /\ row.usyc = DeployAmount
  BY YieldAssumption DEF PositionRow
<1> HIDE DEF row
<1>4. /\ positions' \in Seq(PositionRow)
      /\ DOMAIN positions \subseteq DOMAIN positions'
      /\ \A p \in DOMAIN positions : positions'[p] = positions[p]
      /\ \A p \in DOMAIN positions' \ DOMAIN positions : positions'[p].usyc = DeployAmount
  <2>1. CASE positions' = positions
    BY <2>1, YieldTypes
  <2>2. CASE positions' = Append(positions, row)
    BY <1>3, <2>2, YieldTypes, SeqMore
  <2> QED
    BY <1>2, <2>1, <2>2
<1>5. YieldShape'
  <2>1. YieldTypeOK'
    BY <1>u, <1>1, <1>4 DEF YieldShape, YieldTypeOK, PositionRow
  <2> QED
    BY <1>u, <1>4, <2>1 DEF YieldShape
<1>6. OutcomeInv' /\ SameDone
  BY <1>u DEF OutcomeInv, SameDone
<1> QED
  BY <1>u, <1>4, <1>5, <1>6

-----------------------------------------------------------------------------
(* Runs of the job. *)

\* A run goes on as q, with the attempts left of its request's job written.
LEMMA RunMoves ==
  ASSUME YieldShape, OutcomeInv, NEW w \in YieldWorkers, NEW q \in ConfirmerType,
         NEW r \in DOMAIN requests, NEW left \in Nat,
         confirmer' = [confirmer EXCEPT ![w] = q],
         tries' = [tries EXCEPT ![r] = left], left > 0 => tries[r] > 0,
         q.pc # "idle" =>
           /\ q.request \in DOMAIN requests
           /\ RunTells(q.pc, conversion[q.request], submission[q.request]),
         losses' \in Nat,
         UNCHANGED <<positions, requests, conversion, submission, credited, click, deployer>>
  PROVE  YieldShape' /\ OutcomeInv' /\ SameDone
<1>1. RowMoves(r, requests[r].status, conversion[r], submission[r], credited[r], left)
  BY RowStays DEF RowMoves
<1>2. RowTells(requests[r].status, conversion[r], submission[r], credited[r], left)
  <2>1. RowTells(requests[r].status, conversion[r], submission[r], credited[r], tries[r])
    BY DEF OutcomeInv
  <2> QED
    BY <2>1 DEF RowTells
<1>3. confirmer' \in [YieldWorkers -> ConfirmerType]
  BY YieldTypes
<1>4. \A v \in YieldWorkers : confirmer'[v].pc # "idle" =>
        /\ confirmer'[v].request \in DOMAIN requests
        /\ \/ confirmer'[v] = confirmer[v]
           \/ RunTells(confirmer'[v].pc, conversion[confirmer'[v].request],
                       submission[confirmer'[v].request])
  <2> TAKE v \in YieldWorkers
  <2>1. confirmer'[v] = IF v = w THEN q ELSE confirmer[v]
    BY YieldTypes
  <2> QED
    BY <2>1 DEF YieldShape
<1>5. positions' \in Seq(PositionRow) /\ Len(positions') = Len(positions)
  BY YieldTypes
<1> QED
  BY <1>1, <1>2, <1>3, <1>4, <1>5, RowKeepsShape, RowKeepsOutcome, RowKeepsDone

\* A run of the job that is about to commit remembers the position as it was
\* when its request was not COMPLETED.
Remembers(w) ==
  confirmer'[w].pc = "commit" =>
    \/ confirmer'[w] = confirmer[w]
    \/ LET r == confirmer'[w].request
       IN  /\ r \in DOMAIN requests /\ requests[r].status # "COMPLETED"
           /\ confirmer'[w].usyc = positions[requests[r].position].usyc

LEMMA RunKeeps ==
  ASSUME YieldShape, OutcomeInv, NEW w \in YieldWorkers,
         \/ \E r \in DOMAIN requests : StartConfirm(w, r)
         \/ Poll(w) \/ BeginFinalize(w) \/ ConfirmFails(w)
  PROVE  /\ YieldShape' /\ OutcomeInv' /\ SameDone /\ UNCHANGED positions
         /\ \A v \in YieldWorkers : Remembers(v)
<1> DEFINE own == confirmer[w].request
<1>0. /\ confirmer \in [YieldWorkers -> ConfirmerType] /\ confirmer[w] \in ConfirmerType
      /\ losses \in Nat /\ losses + 1 \in Nat
      /\ confirmer[w].pc # "idle" =>
           own \in DOMAIN requests /\ RunTells(confirmer[w].pc, conversion[own], submission[own])
  <2>1. losses \in Nat
    BY DEF YieldShape, YieldTypeOK
  <2>2. confirmer[w].pc # "idle" => own \in DOMAIN requests
    BY DEF YieldShape
  <2>3. confirmer[w].pc # "idle" => RunTells(confirmer[w].pc, conversion[own], submission[own])
    BY DEF OutcomeInv
  <2> QED
    BY <2>1, <2>2, <2>3, YieldTypes
<1>1. NoConfirmer \in ConfirmerType /\ NoConfirmer.pc = "idle"
  BY DEF NoConfirmer, ConfirmerType
<1>2. ASSUME NEW q \in ConfirmerType, confirmer' = [confirmer EXCEPT ![w] = q],
             q.pc = "commit" =>
               /\ q.request \in DOMAIN requests /\ requests[q.request].status # "COMPLETED"
               /\ q.usyc = positions[requests[q.request].position].usyc
      PROVE  \A v \in YieldWorkers : Remembers(v)
  <2> TAKE v \in YieldWorkers
  <2>1. confirmer'[v] = IF v = w THEN q ELSE confirmer[v]
    BY <1>0, <1>2
  <2> QED
    BY <1>2, <2>1 DEF Remembers
<1>3. ASSUME NEW r \in DOMAIN requests, StartConfirm(w, r)
      PROVE  /\ YieldShape' /\ OutcomeInv' /\ SameDone /\ UNCHANGED positions
             /\ \A v \in YieldWorkers : Remembers(v)
  <2> DEFINE q == [NoConfirmer EXCEPT !.pc = "poll", !.request = r]
  <2>1. q \in ConfirmerType /\ q.pc = "poll" /\ q.request = r
    <3>1. r \in Nat
      BY YieldTypes
    <3> QED
      BY <3>1 DEF NoConfirmer, ConfirmerType
  <2>2. tries[r] > 0 /\ tries[r] \in Nat /\ tries = [tries EXCEPT ![r] = tries[r]]
    BY <1>3, RowStays DEF StartConfirm
  <2>u. UNCHANGED <<positions, requests, conversion, submission, credited, click, deployer, losses>>
    BY <1>3 DEF StartConfirm
  <2> HIDE DEF q
  <2>3. CASE requests[r].status \in {"COMPLETED", "FAILED"}
    <3>1. tries' = [tries EXCEPT ![r] = 0] /\ confirmer' = confirmer
      BY <1>3, <2>3 DEF StartConfirm
    <3>2. confirmer' = [confirmer EXCEPT ![w] = confirmer[w]]
      BY <1>0, <3>1
    <3>3. \A v \in YieldWorkers : Remembers(v)
      BY <3>1 DEF Remembers
    <3>4. /\ 0 \in Nat /\ (0 > 0 => tries[r] > 0) /\ losses' \in Nat /\ confirmer[w] \in ConfirmerType
          /\ confirmer[w].pc # "idle" =>
               /\ confirmer[w].request \in DOMAIN requests
               /\ RunTells(confirmer[w].pc, conversion[confirmer[w].request],
                           submission[confirmer[w].request])
      BY <1>0, <2>u
    <3> QED
      BY <2>u, <3>1, <3>2, <3>3, <3>4, RunMoves
  <2>4. CASE requests[r].status \notin {"COMPLETED", "FAILED"}
    <3>1. tries' = tries /\ confirmer' = [confirmer EXCEPT ![w] = q]
      BY <1>3, <2>4 DEF StartConfirm, q
    <3>2. RunTells(q.pc, conversion[r], submission[r])
      BY <2>1, <2>2 DEF OutcomeInv, RowTells, RunTells
    <3>3. tries' = [tries EXCEPT ![r] = tries[r]]
      BY <2>2, <3>1
    <3>4. \A v \in YieldWorkers : Remembers(v)
      BY <1>2, <2>1, <3>1
    <3> QED
      BY <1>0, <2>u, <2>1, <2>2, <3>1, <3>2, <3>3, <3>4, RunMoves
  <2> QED
    BY <2>3, <2>4
<1>4. ASSUME TryAgain(w), own \in DOMAIN requests, confirmer' = [confirmer EXCEPT ![w] = NoConfirmer],
             losses' \in Nat,
             UNCHANGED <<positions, requests, conversion, submission, credited, click, deployer>>
      PROVE  /\ YieldShape' /\ OutcomeInv' /\ SameDone /\ UNCHANGED positions
             /\ \A v \in YieldWorkers : Remembers(v)
  <2> DEFINE left == IF tries[own] > 0 THEN tries[own] - 1 ELSE 0
  <2>1. tries[own] \in Nat
    BY <1>4, RowStays
  <2>2. left \in Nat /\ (left > 0 => tries[own] > 0)
    BY <2>1
  <2>3. tries' = [tries EXCEPT ![own] = left]
    BY <1>4 DEF TryAgain
  <2> HIDE DEF left, own
  <2>4. \A v \in YieldWorkers : Remembers(v)
    BY <1>1, <1>2, <1>4
  <2> QED
    BY <1>1, <1>4, <2>2, <2>3, <2>4, RunMoves
<1>5. CASE Poll(w)
  <2>0. confirmer[w].pc = "poll" /\ own \in DOMAIN requests
        /\ RunTells("poll", conversion[own], submission[own])
        /\ UNCHANGED <<positions, requests, conversion, submission, credited, click, deployer, losses>>
    BY <1>0, <1>5 DEF Poll
  <2>1. CASE conversion[own] = "settling"
    BY <1>0, <1>4, <1>5, <2>0, <2>1 DEF Poll
  <2>2. CASE conversion[own] # "settling"
    <3> DEFINE pc == IF conversion[own] = "complete" THEN "begin" ELSE "fail"
               q == [confirmer[w] EXCEPT !.pc = pc]
    <3>1. tries' = tries /\ confirmer' = [confirmer EXCEPT ![w] = q]
      BY <1>0, <1>5, <2>2 DEF Poll
    <3>2. q \in ConfirmerType /\ q.pc = pc /\ q.request = own /\ pc \in {"begin", "fail"}
      BY <1>0 DEF ConfirmerType
    <3>3. conversion[own] \in Orders
      BY <2>0, RowStays
    <3>4. RunTells(pc, conversion[own], submission[own])
      BY <2>0, <2>2, <3>3 DEF RunTells, Orders
    <3>5. tries' = [tries EXCEPT ![own] = tries[own]] /\ tries[own] \in Nat
      BY <2>0, <3>1, RowStays
    <3> HIDE DEF q, pc, own
    <3>6. \A v \in YieldWorkers : Remembers(v)
      BY <1>2, <3>1, <3>2
    <3> QED
      BY <1>0, <2>0, <3>1, <3>2, <3>4, <3>5, <3>6, RunMoves
  <2> QED
    BY <2>1, <2>2
<1>6. CASE BeginFinalize(w)
  <2>0. confirmer[w].pc = "begin" /\ own \in DOMAIN requests
        /\ RunTells("begin", conversion[own], submission[own])
        /\ UNCHANGED <<positions, requests, conversion, submission, credited, click, deployer, losses>>
    BY <1>0, <1>6 DEF BeginFinalize
  <2>1. CASE AlreadyHandled(own)
    <3>1. confirmer' = [confirmer EXCEPT ![w] = NoConfirmer] /\ tries' = [tries EXCEPT ![own] = 0]
      BY <1>6, <2>1 DEF BeginFinalize
    <3> HIDE DEF own
    <3>2. \A v \in YieldWorkers : Remembers(v)
      BY <1>1, <1>2, <3>1
    <3>3. 0 \in Nat /\ (0 > 0 => tries[own] > 0) /\ losses' \in Nat
      BY <1>0, <2>0
    <3> QED
      BY <1>1, <2>0, <3>1, <3>2, <3>3, RunMoves
  <2>2. CASE ~AlreadyHandled(own)
    <3> DEFINE usyc == positions[requests[own].position].usyc
               q == [confirmer[w] EXCEPT !.pc = "commit", !.usyc = usyc]
    <3>1. tries' = tries /\ confirmer' = [confirmer EXCEPT ![w] = q]
      BY <1>0, <1>6, <2>2 DEF BeginFinalize
    <3>2. usyc \in Nat
      <4>1. requests[own].position \in DOMAIN positions
        BY <2>0, YieldTypes
      <4>2. positions[requests[own].position] \in PositionRow
        BY <4>1, YieldTypes
      <4> QED
        BY <4>2 DEF PositionRow
    <3>3. q \in ConfirmerType /\ q.pc = "commit" /\ q.request = own /\ q.usyc = usyc
      <4> HIDE DEF usyc
      <4> QED
        BY <1>0, <3>2 DEF ConfirmerType
    <3>4. RunTells("commit", conversion[own], submission[own])
      BY <2>0 DEF RunTells
    <3>5. tries' = [tries EXCEPT ![own] = tries[own]] /\ tries[own] \in Nat
      BY <2>0, <3>1, RowStays
    <3>6. requests[own].status # "COMPLETED"
      BY <2>2 DEF AlreadyHandled
    <3>7. q.usyc = positions[requests[q.request].position].usyc
      BY <3>3
    <3> HIDE DEF q, own
    <3>8. \A v \in YieldWorkers : Remembers(v)
      BY <1>2, <2>0, <3>1, <3>3, <3>6, <3>7
    <3>9. /\ q.request \in DOMAIN requests /\ losses' \in Nat
          /\ RunTells(q.pc, conversion[q.request], submission[q.request])
      BY <1>0, <2>0, <3>3, <3>4
    <3> QED
      BY <2>0, <3>1, <3>3, <3>5, <3>8, <3>9, RunMoves
  <2> QED
    BY <2>1, <2>2
<1>7. CASE ConfirmFails(w)
  <2>1. own \in DOMAIN requests /\ losses' \in Nat
    BY <1>0, <1>7 DEF ConfirmFails
  <2> QED
    BY <1>4, <1>7, <2>1 DEF ConfirmFails
<1> QED
  BY <1>3, <1>5, <1>6, <1>7

LEMMA MarkKeeps ==
  ASSUME YieldShape, OutcomeInv, NEW w \in YieldWorkers, MarkFailed(w)
  PROVE  /\ YieldShape' /\ OutcomeInv' /\ SameDone /\ UNCHANGED positions
         /\ \A v \in YieldWorkers : Remembers(v)
<1> DEFINE r == confirmer[w].request
<1>1. /\ confirmer[w].pc = "fail"
      /\ requests' = [requests EXCEPT ![r].status = "FAILED"]
      /\ tries' = [tries EXCEPT ![r] = 0]
      /\ confirmer' = [confirmer EXCEPT ![w] = NoConfirmer]
      /\ UNCHANGED <<positions, conversion, submission, credited, click, deployer, losses>>
  BY DEF MarkFailed
<1>2. r \in DOMAIN requests /\ submission[r] = "over" /\ conversion[r] = "failed"
  BY <1>1 DEF YieldShape, OutcomeInv, RunTells
<1>3. RowTells(requests[r].status, conversion[r], submission[r], credited[r], tries[r])
  BY <1>2 DEF OutcomeInv
<1> HIDE DEF r
<1>4. RowMoves(r, "FAILED", conversion[r], submission[r], credited[r], 0)
  BY <1>1, <1>2, RowStays DEF RowMoves, Progress
<1>5. RowTells("FAILED", conversion[r], submission[r], credited[r], 0)
      /\ requests[r].status # "COMPLETED"
  BY <1>2, <1>3 DEF RowTells
<1>6. /\ positions' \in Seq(PositionRow) /\ Len(positions') = Len(positions)
      /\ confirmer' \in [YieldWorkers -> ConfirmerType] /\ losses' \in Nat
  <2>1. losses \in Nat
    BY DEF YieldShape, YieldTypeOK
  <2>2. NoConfirmer \in ConfirmerType
    BY DEF NoConfirmer, ConfirmerType
  <2> QED
    BY <1>1, <2>1, <2>2, YieldTypes
<1>7. \A v \in YieldWorkers : confirmer'[v].pc # "idle" =>
        confirmer'[v] = confirmer[v] /\ confirmer'[v].request \in DOMAIN requests
  <2> TAKE v \in YieldWorkers
  <2>1. confirmer'[v] = IF v = w THEN NoConfirmer ELSE confirmer[v]
    BY <1>1, YieldTypes
  <2> QED
    BY <2>1 DEF YieldShape, NoConfirmer
<1>8. \A v \in YieldWorkers : Remembers(v)
  BY <1>7 DEF Remembers
<1>9. YieldShape'
  BY <1>1, <1>4, <1>6, <1>7, RowKeepsShape
<1>10. OutcomeInv'
  BY <1>2, <1>4, <1>5, <1>7, RowKeepsOutcome
<1>11. SameDone
  BY <1>4, <1>5, RowKeepsDone
<1> QED
  BY <1>1, <1>8, <1>9, <1>10, <1>11

\* A commit: its request is COMPLETED, and the position written back from what
\* the run remembers.
LEMMA CommitMoves ==
  ASSUME YieldShape, OutcomeInv, NEW w \in YieldWorkers, CommitFinalize(w)
  PROVE  LET r == confirmer[w].request
             p == requests[r].position
         IN  /\ YieldShape' /\ OutcomeInv'
             /\ r \in DOMAIN requests /\ p \in DOMAIN positions /\ confirmer[w].pc = "commit"
             /\ DOMAIN requests' = DOMAIN requests /\ DOMAIN positions' = DOMAIN positions
             /\ \A q \in DOMAIN requests :
                  /\ requests'[q].position = requests[q].position
                  /\ requests'[q].amount = requests[q].amount
                  /\ requests'[q].status = IF q = r THEN "COMPLETED" ELSE requests[q].status
             /\ \A o \in DOMAIN positions : o # p => positions'[o] = positions[o]
             /\ positions'[p].usyc = Max({0, confirmer[w].usyc - requests[r].amount})
             /\ \A v \in YieldWorkers : confirmer'[v].pc = "commit" => confirmer'[v] = confirmer[v]
<1> DEFINE r == confirmer[w].request
           p == requests[r].position
           left == Max({0, confirmer[w].usyc - requests[r].amount})
           row == [usyc |-> left, status |-> IF left = 0 THEN "REDEEMED" ELSE "ACTIVE"]
<1>1. /\ confirmer[w].pc = "commit"
      /\ requests' = [requests EXCEPT ![r].status = "COMPLETED"]
      /\ credited' = [credited EXCEPT ![r] = 1]
      /\ tries' = [tries EXCEPT ![r] = 0]
      /\ confirmer' = [confirmer EXCEPT ![w] = NoConfirmer]
      /\ UNCHANGED <<conversion, submission, click, deployer, losses>>
  BY DEF CommitFinalize, Recorded
<1>p. positions' = [positions EXCEPT ![p] = row]
  BY DEF CommitFinalize
<1>2. r \in DOMAIN requests /\ submission[r] = "over" /\ conversion[r] = "complete"
  BY <1>1 DEF YieldShape, OutcomeInv, RunTells
<1>3. RowTells(requests[r].status, conversion[r], submission[r], credited[r], tries[r])
  BY <1>2 DEF OutcomeInv
<1>a. confirmer[w].usyc - requests[r].amount \in Int
  <2>1. requests[r] \in RequestRow /\ confirmer[w] \in ConfirmerType
    BY <1>2, YieldTypes
  <2> HIDE DEF r
  <2> QED
    BY <2>1 DEF RequestRow, ConfirmerType
<1>b. p \in DOMAIN positions
  BY <1>2, YieldTypes
<1>c. row \in PositionRow /\ row.usyc = left
  BY <1>a, MaxOfTwo DEF PositionRow
<1> HIDE DEF r, row, left, p
<1>4. RowMoves(r, "COMPLETED", conversion[r], submission[r], 1, 0)
  BY <1>1, <1>2, RowStays DEF RowMoves, Progress
<1>5. RowTells("COMPLETED", conversion[r], submission[r], 1, 0)
  BY <1>2, <1>3 DEF RowTells
<1>6. /\ positions' \in Seq(PositionRow) /\ Len(positions') = Len(positions)
      /\ DOMAIN positions' = DOMAIN positions /\ positions'[p].usyc = left
      /\ \A o \in DOMAIN positions : o # p => positions'[o] = positions[o]
  BY <1>p, <1>b, <1>c, YieldTypes, SeqPut
<1>7. confirmer' \in [YieldWorkers -> ConfirmerType] /\ losses' \in Nat
  <2>1. losses \in Nat
    BY DEF YieldShape, YieldTypeOK
  <2>2. NoConfirmer \in ConfirmerType
    BY DEF NoConfirmer, ConfirmerType
  <2> QED
    BY <1>1, <2>1, <2>2, YieldTypes
<1>8. \A v \in YieldWorkers : confirmer'[v].pc # "idle" =>
        confirmer'[v] = confirmer[v] /\ confirmer'[v].request \in DOMAIN requests
  <2> TAKE v \in YieldWorkers
  <2>1. confirmer'[v] = IF v = w THEN NoConfirmer ELSE confirmer[v]
    BY <1>1, YieldTypes
  <2> QED
    BY <2>1 DEF YieldShape, NoConfirmer
<1>9. YieldShape'
  BY <1>1, <1>4, <1>6, <1>7, <1>8, RowKeepsShape
<1>10. OutcomeInv'
  BY <1>2, <1>4, <1>5, <1>8, RowKeepsOutcome
<1>11. /\ DOMAIN requests' = DOMAIN requests
       /\ \A q \in DOMAIN requests :
            /\ requests'[q].position = requests[q].position
            /\ requests'[q].amount = requests[q].amount
            /\ requests'[q].status = IF q = r THEN "COMPLETED" ELSE requests[q].status
  <2>1. DOMAIN requests' = DOMAIN requests /\ requests'[r].status = "COMPLETED"
    BY <1>4, RowMoved
  <2>2. \A q \in DOMAIN requests : requests'[q].position = requests[q].position
                                   /\ requests'[q].amount = requests[q].amount
    BY <1>4, RowMoved
  <2>3. \A q \in DOMAIN requests : q # r => requests'[q] = requests[q]
    BY <1>4, RowMoved
  <2> QED
    BY <2>1, <2>2, <2>3
<1>12. \A v \in YieldWorkers : confirmer'[v].pc = "commit" => confirmer'[v] = confirmer[v]
  BY <1>8
<1> QED
  BY <1>1, <1>2, <1>6, <1>9, <1>10, <1>11, <1>12, <1>b DEF p, left, r

-----------------------------------------------------------------------------
(* What is left on a position. *)

\* The completed requests for position p.
DoneIn(rows, p) == {r \in DOMAIN rows : rows[r].position = p /\ rows[r].status = "COMPLETED"}

\* The rest of a position and what its completed requests took make up the
\* deployment; and so they still will when a run commits what it remembers,
\* its own request apart.
RestInv ==
  /\ \A p \in DOMAIN positions : positions[p].usyc + SumOver(Weights, DoneIn(requests, p)) >= DeployAmount
  /\ \A w \in YieldWorkers : confirmer[w].pc = "commit" =>
       LET r == confirmer[w].request
       IN  confirmer[w].usyc + SumOver(Weights, DoneIn(requests, requests[r].position) \ {r}) >= DeployAmount

LEMMA DoneNat ==
  ASSUME YieldShape, NEW p, NEW S
  PROVE  /\ DoneIn(requests, p) \subseteq DOMAIN requests
         /\ IsFiniteSet(DoneIn(requests, p) \ S) /\ SumOver(Weights, DoneIn(requests, p) \ S) \in Nat
         /\ SumOver(Weights, DoneIn(requests, p)) \in Nat
<1>1. DoneIn(requests, p) \subseteq DOMAIN requests /\ DoneIn(requests, p) \ S \subseteq DOMAIN requests
  BY DEF DoneIn
<1> QED
  BY <1>1, AmountsNat

\* What requests ask for does not change.
LEMMA WeightsStay ==
  ASSUME YieldShape, DOMAIN requests \subseteq DOMAIN requests',
         \A q \in DOMAIN requests : requests'[q].amount = requests[q].amount,
         NEW R, R \subseteq DOMAIN requests
  PROVE  SumOver(Weights', R) = SumOver(Weights, R)
<1>1. IsFiniteSet(R)
  BY AmountsNat
<1>2. \A r \in R : Weights[r] = Weights'[r]
  BY DEF Weights
<1> QED
  BY <1>1, <1>2, SumAgree

\* A step that completes no request, and takes nothing off a position.
LEMMA RestStays ==
  ASSUME YieldShape, RestInv, SameDone, \A w \in YieldWorkers : Remembers(w),
         DOMAIN positions \subseteq DOMAIN positions',
         \A p \in DOMAIN positions : positions'[p] = positions[p],
         \A p \in DOMAIN positions' \ DOMAIN positions : positions'[p].usyc = DeployAmount
  PROVE  RestInv'
<1>1. ASSUME NEW p PROVE DoneIn(requests', p) = DoneIn(requests, p)
  BY DEF DoneIn, SameDone
<1>2. ASSUME NEW p, NEW S PROVE SumOver(Weights', DoneIn(requests, p) \ S) = SumOver(Weights, DoneIn(requests, p) \ S)
  <2>1. DoneIn(requests, p) \ S \subseteq DOMAIN requests
    BY DoneNat
  <2> QED
    BY <2>1, WeightsStay DEF SameDone
<1>3. ASSUME NEW p \in DOMAIN positions'
      PROVE  positions'[p].usyc + SumOver(Weights', DoneIn(requests', p)) >= DeployAmount
  <2>1. SumOver(Weights', DoneIn(requests', p)) = SumOver(Weights, DoneIn(requests, p))
    <3>1. DoneIn(requests, p) \ {} = DoneIn(requests, p)
      OBVIOUS
    <3> QED
      BY <1>1, <1>2, <3>1
  <2>2. CASE p \in DOMAIN positions
    BY <2>1, <2>2 DEF RestInv
  <2>3. CASE p \notin DOMAIN positions
    <3>1. positions'[p].usyc = DeployAmount
      BY <2>3
    <3>2. SumOver(Weights, DoneIn(requests, p)) \in Nat /\ DeployAmount \in Nat
      BY DoneNat, YieldAssumption
    <3> QED
      BY <2>1, <3>1, <3>2
  <2> QED
    BY <2>2, <2>3
<1>4. ASSUME NEW w \in YieldWorkers, confirmer'[w].pc = "commit"
      PROVE  LET r == confirmer'[w].request
             IN  confirmer'[w].usyc + SumOver(Weights', DoneIn(requests', requests'[r].position) \ {r})
                   >= DeployAmount
  <2> DEFINE r == confirmer'[w].request
             p == requests[r].position
  <2>1. r \in DOMAIN requests
    BY <1>4 DEF Remembers, YieldShape
  <2>2. requests'[r].position = p
    BY <2>1 DEF SameDone
  <2>3. SumOver(Weights', DoneIn(requests', p) \ {r}) = SumOver(Weights, DoneIn(requests, p) \ {r})
    BY <1>1, <1>2
  <2>4. CASE confirmer'[w] = confirmer[w]
    <3>1. confirmer[w].usyc + SumOver(Weights, DoneIn(requests, p) \ {r}) >= DeployAmount
      BY <1>4, <2>4 DEF RestInv
    <3> HIDE DEF p
    <3> QED
      BY <2>2, <2>3, <2>4, <3>1
  <2>5. CASE requests[r].status # "COMPLETED" /\ confirmer'[w].usyc = positions[p].usyc
    <3>1. DoneIn(requests, p) \ {r} = DoneIn(requests, p)
      BY <2>5 DEF DoneIn
    <3>2. positions[p].usyc + SumOver(Weights, DoneIn(requests, p)) >= DeployAmount
      BY <2>1, YieldTypes DEF RestInv
    <3> HIDE DEF p
    <3> QED
      BY <2>2, <2>3, <2>5, <3>1, <3>2
  <2> QED
    BY <1>4, <2>4, <2>5 DEF Remembers
<1> QED
  BY <1>3, <1>4 DEF RestInv

\* A commit takes off a position no more than its request, which counts once.
LEMMA RestCommits ==
  ASSUME YieldShape, OutcomeInv, RestInv, NEW w \in YieldWorkers, CommitFinalize(w)
  PROVE  RestInv'
<1> DEFINE r == confirmer[w].request
           p == requests[r].position
           amount == requests[r].amount
<1>1. /\ r \in DOMAIN requests /\ p \in DOMAIN positions /\ confirmer[w].pc = "commit"
      /\ DOMAIN requests' = DOMAIN requests /\ DOMAIN positions' = DOMAIN positions
      /\ \A o \in DOMAIN positions : o # p => positions'[o] = positions[o]
      /\ positions'[p].usyc = Max({0, confirmer[w].usyc - amount})
      /\ \A v \in YieldWorkers : confirmer'[v].pc = "commit" => confirmer'[v] = confirmer[v]
  BY CommitMoves
<1>2. \A q \in DOMAIN requests :
        /\ requests'[q].position = requests[q].position
        /\ requests'[q].amount = requests[q].amount
        /\ requests'[q].status = IF q = r THEN "COMPLETED" ELSE requests[q].status
  BY CommitMoves
<1>3. confirmer[w].usyc + SumOver(Weights, DoneIn(requests, p) \ {r}) >= DeployAmount
  BY <1>1 DEF RestInv
<1>4. confirmer[w].usyc \in Nat /\ amount \in Nat /\ Weights[r] = amount
  <2>1. requests[r] \in RequestRow /\ confirmer[w] \in ConfirmerType
    BY <1>1, YieldTypes
  <2>2. Weights[r] = amount
    BY <1>1 DEF Weights
  <2> HIDE DEF r
  <2> QED
    BY <2>1, <2>2 DEF RequestRow, ConfirmerType
<1> HIDE DEF r, p, amount
<1>5. ASSUME NEW o PROVE DoneIn(requests', o) = IF o = p THEN DoneIn(requests, p) \cup {r} ELSE DoneIn(requests, o)
  BY <1>1, <1>2 DEF DoneIn, p
<1>6. ASSUME NEW R, R \subseteq DOMAIN requests
      PROVE  SumOver(Weights', R) = SumOver(Weights, R)
  BY <1>1, <1>2, <1>6, WeightsStay
\* The completed requests of the position, with this one among them.
<1>7. ASSUME NEW S, S \subseteq DOMAIN requests, r \notin S
      PROVE  SumOver(Weights, S \cup {r}) = amount + SumOver(Weights, S) /\ SumOver(Weights, S) \in Nat
  <2>1. IsFiniteSet(S) /\ SumOver(Weights, S) \in Nat /\ \A q \in DOMAIN requests : Weights[q] \in Nat
    BY <1>7, AmountsNat
  <2>2. \A q \in S \cup {r} : Weights[q] \in Int
    BY <1>1, <1>7, <2>1
  <2> QED
    BY <1>4, <1>7, <2>1, <2>2, SumAdd
<1>8. /\ \A o : DoneIn(requests, o) \subseteq DOMAIN requests
      /\ \A o, S : DoneIn(requests, o) \ S \subseteq DOMAIN requests
  BY DoneNat
<1>9. ASSUME NEW o \in DOMAIN positions'
      PROVE  positions'[o].usyc + SumOver(Weights', DoneIn(requests', o)) >= DeployAmount
  <2>1. CASE o # p
    <3>1. positions'[o] = positions[o] /\ o \in DOMAIN positions /\ DoneIn(requests', o) = DoneIn(requests, o)
      BY <1>1, <1>5, <1>9, <2>1
    <3>2. SumOver(Weights', DoneIn(requests, o)) = SumOver(Weights, DoneIn(requests, o))
      BY <1>6, <1>8
    <3> QED
      BY <3>1, <3>2 DEF RestInv
  <2>2. CASE o = p
    <3> DEFINE others == DoneIn(requests, p) \ {r}
    <3>1. DoneIn(requests', o) = others \cup {r} /\ others \subseteq DOMAIN requests /\ r \notin others
      BY <1>5, <1>8, <2>2
    <3> HIDE DEF others
    <3>2. SumOver(Weights', DoneIn(requests', o)) = amount + SumOver(Weights, others)
          /\ SumOver(Weights, others) \in Nat
      <4>1. others \cup {r} \subseteq DOMAIN requests
        BY <1>1, <3>1
      <4>2. SumOver(Weights', others \cup {r}) = SumOver(Weights, others \cup {r})
        BY <1>6, <4>1
      <4> QED
        BY <1>7, <3>1, <4>2
    <3>3. positions'[o].usyc = Max({0, confirmer[w].usyc - amount})
      BY <1>1, <2>2
    <3>4. Max({0, confirmer[w].usyc - amount}) >= confirmer[w].usyc - amount
          /\ Max({0, confirmer[w].usyc - amount}) \in Nat
      BY <1>4, MaxOfTwo
    <3>5. confirmer[w].usyc + SumOver(Weights, others) >= DeployAmount
      BY <1>3 DEF others
    <3> QED
      BY <1>4, <3>2, <3>3, <3>4, <3>5, YieldAssumption
  <2> QED
    BY <2>1, <2>2
<1>10. ASSUME NEW v \in YieldWorkers, confirmer'[v].pc = "commit"
       PROVE  LET q == confirmer'[v].request
              IN  confirmer'[v].usyc + SumOver(Weights', DoneIn(requests', requests'[q].position) \ {q})
                    >= DeployAmount
  <2> DEFINE q == confirmer'[v].request
             o == requests[q].position
  <2>1. confirmer'[v] = confirmer[v] /\ q \in DOMAIN requests
    BY <1>1, <1>10 DEF YieldShape
  <2>2. requests'[q].position = o
    BY <1>2, <2>1
  <2>3. confirmer[v].usyc + SumOver(Weights, DoneIn(requests, o) \ {q}) >= DeployAmount
    BY <1>10, <2>1 DEF RestInv
  <2>4. confirmer[v].usyc \in Nat
    <3>1. confirmer[v] \in ConfirmerType
      BY YieldTypes
    <3> QED
      BY <3>1 DEF ConfirmerType
  <2> HIDE DEF q, o
  <2>5. SumOver(Weights', DoneIn(requests', o) \ {q}) >= SumOver(Weights, DoneIn(requests, o) \ {q})
        /\ SumOver(Weights', DoneIn(requests', o) \ {q}) \in Nat /\ SumOver(Weights, DoneIn(requests, o) \ {q}) \in Nat
    <3>0. SumOver(Weights, DoneIn(requests, o) \ {q}) \in Nat
      BY DoneNat
    <3>1. CASE DoneIn(requests', o) \ {q} = DoneIn(requests, o) \ {q}
      <4>1. SumOver(Weights', DoneIn(requests, o) \ {q}) = SumOver(Weights, DoneIn(requests, o) \ {q})
        BY <1>6, <1>8
      <4> QED
        BY <3>0, <3>1, <4>1
    <3>2. CASE DoneIn(requests', o) \ {q} # DoneIn(requests, o) \ {q}
      <4> DEFINE S == DoneIn(requests, o) \ {q}
      <4>1. DoneIn(requests', o) \ {q} = S \cup {r} /\ r \notin S /\ S \subseteq DOMAIN requests
        BY <1>5, <1>8, <3>2
      <4> HIDE DEF S
      <4>2. S \cup {r} \subseteq DOMAIN requests
        BY <1>1, <4>1
      <4>3. SumOver(Weights', S \cup {r}) = SumOver(Weights, S \cup {r})
        BY <1>6, <4>2
      <4>4. SumOver(Weights, S \cup {r}) = amount + SumOver(Weights, S) /\ SumOver(Weights, S) \in Nat
        BY <1>7, <4>1
      <4>5. SumOver(Weights, S) = SumOver(Weights, DoneIn(requests, o) \ {q})
        BY DEF S
      <4>6. SumOver(Weights', DoneIn(requests', o) \ {q}) = amount + SumOver(Weights, S)
        BY <4>1, <4>3, <4>4
      <4> QED
        BY <1>4, <4>4, <4>5, <4>6
    <3> QED
      BY <3>1, <3>2
  <2>6. confirmer'[v].usyc + SumOver(Weights', DoneIn(requests', o) \ {q}) >= DeployAmount
    BY <2>1, <2>3, <2>4, <2>5, YieldAssumption
  <2> QED
    BY <2>2, <2>6 DEF q
<1> QED
  BY <1>9, <1>10 DEF RestInv

-----------------------------------------------------------------------------
YieldInv == YieldShape /\ OutcomeInv /\ RestInv

LEMMA YieldStart == YieldInit => YieldInv
<1> SUFFICES ASSUME YieldInit PROVE YieldInv
  OBVIOUS
<1>1. /\ positions = <<[usyc |-> DeployAmount, status |-> "ACTIVE"]>> /\ requests = << >>
      /\ conversion = << >> /\ submission = << >> /\ credited = << >> /\ tries = << >>
      /\ \A c \in Clicks : click[c] = NoClick
      /\ \A w \in YieldWorkers : confirmer[w].pc = "idle"
  BY DEF YieldInit, NoConfirmer
<1>2. NoClick \in ClickType /\ DOMAIN NoClick.seen = {} /\ DOMAIN NoClick.take = {}
  BY DEF NoClick, ClickType
<1>3. positions \in Seq(PositionRow) /\ DOMAIN positions = {1} /\ positions[1].usyc = DeployAmount
  BY <1>1, YieldAssumption DEF PositionRow
<1>4. YieldShape
  <2>1. confirmer \in [YieldWorkers -> ConfirmerType]
    BY DEF YieldInit, NoConfirmer, ConfirmerType
  <2>2. click \in [Clicks -> ClickType]
    BY <1>2 DEF YieldInit
  <2>3. \A c \in Clicks : click[c].pc \in {"idle", "sum", "create"}
    BY <2>2 DEF ClickType
  <2>4. YieldTypeOK
    BY <1>1, <1>3, <2>1, <2>3 DEF YieldInit, YieldTypeOK, PositionRow, ConfirmerType
  <2> QED
    BY <1>1, <1>2, <2>2, <2>4 DEF YieldShape
<1>5. OutcomeInv
  BY <1>1 DEF OutcomeInv
<1>6. RestInv
  <2>1. SumOver(Weights, DoneIn(requests, 1)) \in Nat
    BY <1>4, DoneNat
  <2> QED
    BY <1>1, <1>3, <2>1, YieldAssumption DEF RestInv
<1> QED
  BY <1>4, <1>5, <1>6 DEF YieldInv

LEMMA YieldKept == YieldInv /\ [YieldNext]_yieldVars => YieldInv'
<1> SUFFICES ASSUME YieldShape, OutcomeInv, RestInv, [YieldNext]_yieldVars
             PROVE  YieldShape' /\ OutcomeInv' /\ RestInv'
  BY DEF YieldInv
<1>1. ASSUME UNCHANGED <<positions, confirmer>>, SameDone PROVE RestInv'
  <2>1. \A w \in YieldWorkers : Remembers(w)
    BY <1>1 DEF Remembers
  <2> QED
    BY <1>1, <2>1, RestStays
<1>2. ASSUME UNCHANGED positions, SameDone, \A w \in YieldWorkers : Remembers(w) PROVE RestInv'
  BY <1>2, RestStays
<1>3. ASSUME NEW d \in Deployers, DeployStep(d) PROVE YieldShape' /\ OutcomeInv' /\ RestInv'
  <2>1. \A w \in YieldWorkers : Remembers(w)
    BY <1>3, DeployKeeps DEF Remembers
  <2> QED
    BY <1>3, <2>1, DeployKeeps, RestStays
<1>4. ASSUME NEW c \in Clicks, ClickStep(c) PROVE YieldShape' /\ OutcomeInv' /\ RestInv'
  BY <1>1, <1>4, ClickKeeps
<1>5. ASSUME NEW r \in DOMAIN requests, RequestStep(r)
      PROVE  YieldShape' /\ OutcomeInv' /\ RestInv'
  BY <1>1, <1>5, RequestKeeps
<1>6. ASSUME NEW w \in YieldWorkers, ConfirmStep(w) PROVE YieldShape' /\ OutcomeInv' /\ RestInv'
  <2>1. CASE MarkFailed(w)
    BY <1>2, <2>1, MarkKeeps
  <2>2. CASE CommitFinalize(w)
    BY <2>2, CommitMoves, RestCommits
  <2>3. CASE (\E r \in DOMAIN requests : StartConfirm(w, r))
             \/ Poll(w) \/ BeginFinalize(w) \/ ConfirmFails(w)
    BY <1>2, <2>3, RunKeeps
  <2> QED
    BY <1>6, <2>1, <2>2, <2>3 DEF ConfirmStep
<1>7. CASE UNCHANGED yieldVars
  <2>1. YieldShape' /\ OutcomeInv' /\ SameDone
    BY <1>7 DEF yieldVars, YieldShape, YieldTypeOK, OutcomeInv, SameDone
  <2> QED
    BY <1>1, <1>7, <2>1 DEF yieldVars
<1> QED
  BY <1>3, <1>4, <1>5, <1>6, <1>7 DEF YieldNext

\* A COMPLETED request is settled and was credited exactly once, any other was
\* not credited, and a FAILED one was not settled, however often the job runs.
THEOREM OutcomeIsCircles == YieldSpec => []OutcomeMatchesCircle
<1>1. YieldInv => OutcomeMatchesCircle
  BY DEF YieldInv, OutcomeInv, RowTells, OutcomeMatchesCircle
<1> QED
  BY YieldStart, YieldKept, <1>1, PTL DEF YieldSpec

\* No USYC is taken off a position without a completed request for it, although
\* runs of the job write it back from what they read.
THEOREM RestIsKept == YieldSpec => []PositionKeepsRest
<1>1. YieldInv => PositionKeepsRest
  <2> SUFFICES ASSUME YieldShape, RestInv, NEW p \in DOMAIN positions
               PROVE  positions[p].usyc
                        + Amounts({r \in RequestsOf(p) : requests[r].status = "COMPLETED"})
                          >= DeployAmount
    BY DEF YieldInv, PositionKeepsRest
  <2>1. {r \in RequestsOf(p) : requests[r].status = "COMPLETED"} = DoneIn(requests, p)
    BY DEF RequestsOf, DoneIn
  <2>2. DoneIn(requests, p) \subseteq DOMAIN requests
    BY DEF DoneIn
  <2>3. Amounts(DoneIn(requests, p)) = SumOver(Weights, DoneIn(requests, p))
    BY <2>2, AmountsNat
  <2> QED
    BY <2>1, <2>3 DEF RestInv
<1> QED
  BY YieldStart, YieldKept, <1>1, PTL DEF YieldSpec

\* Every variable of the yield service keeps its type.
THEOREM YieldTypeCorrect == YieldSpec => []YieldTypeOK
<1>1. YieldInv => YieldTypeOK
  BY DEF YieldInv, YieldShape
<1> QED
  BY YieldStart, YieldKept, <1>1, PTL DEF YieldSpec
=============================================================================
