-------------------------- MODULE SendPaymentProofs --------------------------
(***************************************************************************)
(* Proofs about SendPayment, for any payments and callers, any number of   *)
(* retries and transfers, and any interleaving with crashes and sweeps.    *)
(*                                                                         *)
(* The argument has layers.  ClaimInv: a row stays submitted for as long   *)
(* as a caller holds it, so the compare-and-swap excludes a second holder. *)
(* SendInv adds that a row is free only while its payment was never made,  *)
(* which needs every failure of the provider call to mean that nothing was *)
(* sent.  BookInv adds what the rows and the sweep say of the transfers,   *)
(* which needs transfers to be told apart by payee and amount.  LossyInv,  *)
(* over ClaimInv alone, is what remains of it when answers may be lost,    *)
(* and enough for what callers see of a payment (KeyedPayment).            *)
(***************************************************************************)
EXTENDS SendPayment, FiniteSetTheorems, TLAPS

ClaimInv ==
  /\ \A c \in Callers : Holding(c) => row[call[c].key].submitted
  /\ \A k \in Keys : row[k].status = "ABSENT" => ~row[k].submitted
  /\ OneSubmitter

SendInv ==
  /\ \A k \in Keys : ~row[k].submitted => ~Sent(k)
  /\ \A c \in Callers : call[c].pc \in {"submit", "unclaim"} => ~Sent(call[c].key)

RowType ==
  [status : Statuses, submitted : BOOLEAN, since : Nat, txHash : Nat,
   circleTransactionId : Int]

CallType ==
  [pc : CallPcs, key : Keys \cup {NoKey}, transfer : Nat,
   target : Keys \cup {NoKey}]

\* The provider has answered: the caller writes its outcome down.
Answered == {"confirm", "txHash", "circleTransactionId", "debit"}

\* A busy caller has a payment.
CallOK(r) ==
  /\ r \in CallType
  /\ r.pc # "idle" => r.key \in Keys

CallsOK == call \in [Callers -> CallType] /\ \A c \in Callers : CallOK(call[c])

RowsOK == row \in [Keys -> RowType]

BooksOK == balance \in Nat /\ debited \subseteq Keys \cup {NoKey}

SweepOK ==
  /\ sweep \in [pc : {"idle", "list", "claim", "debit"},
                key : Keys \cup {NoKey}, since : Nat, match : Nat]
  /\ sweep.pc # "idle" => sweep.key \in Keys

TypeInv ==
  /\ RowsOK /\ CallsOK /\ SweepOK /\ BooksOK
  /\ chain \in Seq(Keys)
  /\ calls \in 0..MaxCalls

-----------------------------------------------------------------------------
LEMMA TypeInit == Init => TypeInv
<1> SUFFICES ASSUME Init PROVE TypeInv
  OBVIOUS
<1>1. NoRow \in RowType /\ IdleCall \in CallType
  BY DEF NoRow, RowType, IdleCall, CallType, Statuses, CallPcs
<1>2. CallOK(IdleCall)
  BY <1>1 DEF CallOK, IdleCall, Answered
<1>3. RowsOK /\ CallsOK
  BY <1>1, <1>2 DEF Init, RowsOK, CallsOK
<1>4. SweepOK /\ BooksOK
  BY BoundsAssumption DEF Init, SweepOK, BooksOK, IdleSweep
<1> QED
  BY <1>3, <1>4, BoundsAssumption DEF Init, TypeInv

LEMMA RowUpdate ==
  ASSUME RowsOK, NEW k \in Keys, NEW r \in RowType, row' = [row EXCEPT ![k] = r]
  PROVE  RowsOK'
  BY DEF RowsOK

LEMMA CallUpdate ==
  ASSUME CallsOK, NEW c \in Callers, NEW r, CallOK(r),
         call' = [call EXCEPT ![c] = r]
  PROVE  CallsOK'
<1>1. call' \in [Callers -> CallType]
  BY DEF CallsOK, CallOK
<1>2. ASSUME NEW d \in Callers PROVE CallOK(call'[d])
  BY DEF CallsOK
<1> QED
  BY <1>1, <1>2 DEF CallsOK, CallOK

LEMMA GotoOK ==
  ASSUME CallsOK, NEW c \in Callers, NEW p \in CallPcs, call[c].pc # "idle",
         Goto(c, p)
  PROVE  CallsOK'
<1> DEFINE r == [call[c] EXCEPT !.pc = p]
<1>1. CallOK(call[c])
  BY DEF CallsOK
<1>2. r \in CallType /\ r.pc = p /\ r.key = call[c].key /\ r.target = call[c].target
  BY <1>1 DEF CallOK, CallType
<1>3. CallOK(r)
  BY <1>1, <1>2 DEF CallOK
<1>4. call' = [call EXCEPT ![c] = r]
  BY DEF Goto
<1> HIDE DEF r
<1> QED
  BY <1>3, <1>4, CallUpdate

LEMMA FinishOK ==
  ASSUME CallsOK, NEW c \in Callers, Finish(c)
  PROVE  CallsOK'
<1>1. CallOK(IdleCall)
  BY DEF CallOK, CallType, IdleCall, CallPcs, Answered
<1> QED
  BY <1>1, CallUpdate DEF Finish

\* The status, and with it the claim, of one row is written.
LEMMA StatusOK ==
  ASSUME RowsOK, NEW k \in Keys, NEW s \in Statuses,
         row' = [row EXCEPT ![k].status = s]
  PROVE  RowsOK'
<1> DEFINE r == [row[k] EXCEPT !.status = s]
<1>1. r \in RowType /\ row' = [row EXCEPT ![k] = r]
  BY DEF RowsOK, RowType
<1> HIDE DEF r
<1> QED
  BY <1>1, RowUpdate

LEMMA BooksUpdate ==
  ASSUME BooksOK, NEW k \in Keys \cup {NoKey}, NEW a \in Nat, RecordDebit(k, a)
  PROVE  BooksOK'
  BY DEF BooksOK, RecordDebit

\* A busy caller's payment is a payment.
LEMMA BusyKey ==
  ASSUME CallsOK, NEW c \in Callers, call[c].pc # "idle"
  PROVE  call[c].key \in Keys /\ call[c] \in CallType
  BY DEF CallsOK, CallOK

-----------------------------------------------------------------------------
\* One lemma per part of the state, over the steps that write it.
LEMMA WriteFieldOK ==
  ASSUME TypeInv, NEW c \in Callers, NEW f, NEW next,
         \/ f = "txHash" /\ next = "circleTransactionId"
         \/ f = "circleTransactionId" /\ next = "debit",
         WriteField(c, f, next)
  PROVE  TypeInv'
<1> DEFINE k == call[c].key
           v == call[c].transfer
<1>1. call[c].pc = f /\ k \in Keys /\ v \in Nat /\ call[c] \in CallType
  BY BusyKey DEF TypeInv, WriteField, CallType
<1>2. CASE Holders(k, f, v) = {}
  <2> DEFINE r == [row[k] EXCEPT ![f] = v]
  <2>a. row[k] \in RowType
    BY <1>1 DEF TypeInv, RowsOK
  <2>b. r \in RowType
    <3>1. CASE f = "txHash"
      BY <1>1, <2>a, <3>1 DEF RowType
    <3>2. CASE f = "circleTransactionId"
      BY <1>1, <2>a, <3>2 DEF RowType
    <3> QED
      BY <3>1, <3>2
  <2>1. r \in RowType /\ row' = [row EXCEPT ![k] = r]
    BY <1>1, <1>2, <2>b DEF WriteField
  <2>2. Goto(c, next) /\ next \in CallPcs
    BY <1>1, <1>2 DEF WriteField, CallPcs
  <2> HIDE DEF r
  <2>3. RowsOK'
    BY <1>1, <2>1, RowUpdate DEF TypeInv
  <2>4. CallsOK'
    BY <1>1, <2>2, GotoOK DEF TypeInv
  <2> QED
    BY <2>3, <2>4 DEF WriteField, TypeInv, SweepOK, BooksOK
<1>3. CASE Holders(k, f, v) # {}
  <2>1. PICK h \in Keys \cup {NoKey} : Adopt(c, h)
    BY <1>1, <1>3 DEF WriteField, Holders
  <2>2. RowsOK'
    BY <2>1, StatusOK DEF Adopt, TypeInv, Statuses, RowsOK
  <2> DEFINE r == [call[c] EXCEPT !.pc = "debit", !.target = h]
  <2>3. CallOK(r) /\ call' = [call EXCEPT ![c] = r]
    BY <1>1, <2>1 DEF CallOK, CallType, CallPcs, Adopt, Answered
  <2> HIDE DEF r
  <2>4. CallsOK'
    BY <2>3, CallUpdate DEF TypeInv
  <2> QED
    BY <2>2, <2>4 DEF WriteField, TypeInv, SweepOK, BooksOK
<1> QED
  BY <1>2, <1>3

LEMMA TransferRecord ==
  ASSUME NEW x \in CallType, NEW p \in CallPcs, NEW n \in Nat
  PROVE  [x EXCEPT !.pc = p, !.transfer = n] \in CallType
  BY DEF CallType

LEMMA MatchRecord ==
  ASSUME NEW x \in RowType, NEW n \in Nat, NEW m \in Int
  PROVE  [x EXCEPT !.status = "CONFIRMED", !.txHash = n,
                   !.circleTransactionId = m] \in RowType
  BY DEF RowType, Statuses

\* A step that only moves one caller on.
LEMMA MoveOK ==
  ASSUME TypeInv, NEW c \in Callers, NEW p \in CallPcs \ Answered,
         call[c].pc # "idle", Goto(c, p) \/ Finish(c),
         UNCHANGED <<row, chain, balance, debited, sweep, calls>>
  PROVE  TypeInv'
<1>1. CallsOK'
  BY GotoOK, FinishOK DEF TypeInv
<1> QED
  BY <1>1 DEF TypeInv, RowsOK, SweepOK, BooksOK

\* Each step keeps the types and names a payment wherever one is needed.
LEMMA TypeStep == TypeInv /\ [Next]_vars => TypeInv'
<1> SUFFICES ASSUME TypeInv, [Next]_vars PROVE TypeInv'
  OBVIOUS
<1>1. ASSUME NEW c \in Callers, NEW k \in Keys, Begin(c, k) PROVE TypeInv'
  <2> DEFINE r == [IdleCall EXCEPT !.pc = "find", !.key = k]
  <2>1. CallOK(r) /\ call' = [call EXCEPT ![c] = r]
    BY <1>1 DEF Begin, CallOK, CallType, IdleCall, CallPcs, Answered
  <2> HIDE DEF r
  <2>2. CallsOK'
    BY <2>1, CallUpdate DEF TypeInv
  <2> QED
    BY <1>1, <2>2, BoundsAssumption DEF Begin, TypeInv, RowsOK, SweepOK, BooksOK
<1>2. ASSUME NEW c \in Callers, Find(c) PROVE TypeInv'
  BY <1>2, MoveOK DEF Find, CallPcs, Answered
<1>3. ASSUME NEW c \in Callers, Create(c) PROVE TypeInv'
  <2>a. NewRow \in RowType
    <3>1. NoRow \in RowType
      BY DEF NoRow, RowType, Statuses
    <3> QED
      BY <3>1 DEF NewRow, RowType, Statuses
  <2>b. call[c].pc # "idle"
    BY <1>3 DEF Create
  <2>1. NewRow \in RowType /\ call[c].key \in Keys
    BY <2>a, <2>b, BusyKey DEF TypeInv
  <2>2. RowsOK'
    BY <1>3, <2>1, RowUpdate DEF Create, TypeInv, RowsOK
  <2>3. CallsOK'
    BY <1>3, GotoOK DEF Create, TypeInv, CallPcs, Answered
  <2> QED
    BY <1>3, <2>2, <2>3 DEF Create, TypeInv, SweepOK, BooksOK
<1>4. ASSUME NEW c \in Callers, Claim(c) PROVE TypeInv'
  <2>1. CASE Claimable(call[c].key)
    <3> DEFINE k == call[c].key
               r == [row[k] EXCEPT !.status = "PENDING", !.submitted = TRUE,
                                   !.since = Len(chain)]
    <3>1. k \in Keys /\ Len(chain) \in Nat
      BY <1>4, BusyKey DEF Claim, TypeInv
    <3>2. row[k] \in RowType
      BY <3>1 DEF TypeInv, RowsOK
    <3>3. r \in RowType /\ row' = [row EXCEPT ![k] = r]
      BY <1>4, <2>1, <3>1, <3>2 DEF Claim, RowType, Statuses
    <3> HIDE DEF r
    <3>4. RowsOK'
      BY <3>1, <3>3, RowUpdate DEF TypeInv
    <3>5. CallsOK'
      BY <1>4, <2>1, GotoOK DEF Claim, TypeInv, CallPcs, Answered
    <3> QED
      BY <1>4, <3>4, <3>5 DEF Claim, TypeInv, SweepOK, BooksOK
  <2>2. CASE ~Claimable(call[c].key)
    BY <1>4, <2>2, MoveOK DEF Claim, CallPcs, Answered
  <2> QED
    BY <2>1, <2>2
<1>5. ASSUME NEW c \in Callers, Accept(c) PROVE TypeInv'
  <2> DEFINE r == [call[c] EXCEPT !.pc = "answer", !.transfer = Len(chain) + 1]
  <2>1. call[c].key \in Keys /\ call[c] \in CallType /\ Len(chain) \in Nat
    BY <1>5, BusyKey DEF Accept, TypeInv
  <2>a. CallOK(r)
    <3>1. r.pc = "answer" /\ r.key = call[c].key
      BY <2>1 DEF CallType
    <3>a. "answer" \in CallPcs /\ Len(chain) + 1 \in Nat
      BY <2>1 DEF CallPcs
    <3>2. r \in CallType
      BY <2>1, <3>a, TransferRecord
    <3> QED
      BY <2>1, <3>1, <3>2 DEF CallOK, Answered
  <2>2. CallOK(r) /\ call' = [call EXCEPT ![c] = r]
    BY <1>5, <2>a, Zenon DEF Accept
  <2> HIDE DEF r
  <2>3. CallsOK'
    BY <2>2, CallUpdate DEF TypeInv
  <2> QED
    BY <1>5, <2>1, <2>3 DEF Accept, TypeInv, RowsOK, SweepOK, BooksOK
<1>6. ASSUME NEW c \in Callers, Refuse(c) \/ LoseAnswer(c) \/ Crash(c) PROVE TypeInv'
  BY <1>6, MoveOK DEF Refuse, LoseAnswer, Crash, CallPcs, Answered
<1>7. ASSUME NEW c \in Callers, Unclaim(c) PROVE TypeInv'
  <2> DEFINE k == call[c].key
             r == [row[k] EXCEPT !.status = "FAILED", !.submitted = FALSE]
  <2>1. k \in Keys
    BY <1>7, BusyKey DEF Unclaim, TypeInv
  <2>2. row[k] \in RowType
    BY <2>1 DEF TypeInv, RowsOK
  <2>3. r \in RowType /\ row' = [row EXCEPT ![k] = r]
    BY <1>7, <2>2 DEF Unclaim, RowType, Statuses
  <2> HIDE DEF r
  <2>4. RowsOK' /\ CallsOK'
    BY <1>7, <2>1, <2>3, RowUpdate, FinishOK DEF Unclaim, TypeInv
  <2> QED
    BY <1>7, <2>4 DEF Unclaim, TypeInv, SweepOK, BooksOK
<1>8. ASSUME NEW c \in Callers, Answer(c) PROVE TypeInv'
  <2> DEFINE r == [call[c] EXCEPT !.pc = "confirm", !.target = call[c].key]
  <2>1. call[c].key \in Keys /\ call[c] \in CallType
    BY <1>8, BusyKey DEF Answer, TypeInv
  <2>2. CallOK(r) /\ call' = [call EXCEPT ![c] = r]
    BY <1>8, <2>1 DEF Answer, CallOK, CallType, CallPcs, Answered
  <2> HIDE DEF r
  <2>3. CallsOK'
    BY <2>2, CallUpdate DEF TypeInv
  <2> QED
    BY <1>8, <2>3 DEF Answer, TypeInv, RowsOK, SweepOK, BooksOK
<1>9. ASSUME NEW c \in Callers, MarkConfirmed(c) PROVE TypeInv'
  <2>1. call[c].key \in Keys
    BY <1>9, BusyKey DEF MarkConfirmed, TypeInv
  <2>2. RowsOK'
    BY <1>9, <2>1, StatusOK DEF MarkConfirmed, TypeInv, Statuses
  <2>3. CallsOK'
    BY <1>9, <2>1, GotoOK DEF MarkConfirmed, TypeInv, CallPcs
  <2> QED
    BY <1>9, <2>2, <2>3 DEF MarkConfirmed, TypeInv, SweepOK, BooksOK
<1>10. ASSUME NEW c \in Callers, WriteField(c, "txHash", "circleTransactionId")
       PROVE TypeInv'
  BY <1>10, WriteFieldOK
<1>11. ASSUME NEW c \in Callers, WriteField(c, "circleTransactionId", "debit")
       PROVE TypeInv'
  BY <1>11, WriteFieldOK
<1>12. ASSUME NEW c \in Callers, Debit(c) PROVE TypeInv'
  <2>1. call[c].key \in Keys /\ call[c].target \in Keys \cup {NoKey}
    BY <1>12, BusyKey DEF Debit, TypeInv, CallType
  <2>2. BooksOK'
    BY <1>12, <2>1, BooksUpdate, AmountAssumption DEF Debit, TypeInv
  <2>3. CallsOK'
    BY <1>12, FinishOK DEF Debit, TypeInv
  <2> QED
    BY <1>12, <2>2, <2>3 DEF Debit, TypeInv, RowsOK, SweepOK
<1>13. ASSUME NEW k \in Keys, Pick(k) PROVE TypeInv'
  BY <1>13 DEF Pick, TypeInv, RowsOK, RowType, CallsOK, CallOK, SweepOK, BooksOK
<1>14. ASSUME List \/ SweepCrash PROVE TypeInv'
  <2>1. SweepOK'
    <3>1. CASE sweep' = IdleSweep
      BY <3>1 DEF IdleSweep, SweepOK
    <3>2. CASE sweep' # IdleSweep
      <4>1. PICK i \in Candidates(sweep.key, sweep.since) :
              sweep' = [sweep EXCEPT !.pc = "claim", !.match = i]
        BY <1>14, <3>2 DEF List, SweepCrash
      <4>a. i \in DOMAIN chain
        BY DEF Candidates
      <4>b. chain \in Seq(Keys)
        BY DEF TypeInv
      <4>c. i \in Nat
        BY <4>a, <4>b
      <4>2. i \in Nat /\ sweep.pc = "list"
        BY <1>14, <3>2, <4>c DEF List, SweepCrash
      <4>3. sweep.key \in Keys /\ sweep.since \in Nat
        BY <4>2 DEF TypeInv, SweepOK
      <4>4. /\ sweep' \in [pc : {"idle", "list", "claim", "debit"},
                           key : Keys \cup {NoKey}, since : Nat, match : Nat]
            /\ sweep'.key = sweep.key
        BY <4>1, <4>2, <4>3 DEF TypeInv, SweepOK
      <4> QED
        BY <4>3, <4>4 DEF SweepOK
    <3> QED
      BY <3>1, <3>2
  <2> QED
    BY <1>14, <2>1 DEF List, SweepCrash, TypeInv, RowsOK, CallsOK, CallOK, BooksOK
<1>15. ASSUME NEW known \in BOOLEAN, ConfirmFromMatch(known) PROVE TypeInv'
  <2> DEFINE k == sweep.key
             i == sweep.match
             r == [row[k] EXCEPT !.status = "CONFIRMED",
                     !.txHash = IF known THEN i ELSE row[k].txHash,
                     !.circleTransactionId = -i]
  <2>1. k \in Keys /\ i \in Nat
    BY <1>15 DEF ConfirmFromMatch, TypeInv, SweepOK
  <2>2. row[k] \in RowType
    BY <2>1 DEF TypeInv, RowsOK
  <2>3. r \in RowType
    <3>1. (IF known THEN i ELSE row[k].txHash) \in Nat
      BY <2>1, <2>2 DEF RowType
    <3>2. -i \in Int
      BY <2>1
    <3> QED
      BY <2>2, <3>1, <3>2, MatchRecord
  <2>4. row' = [row EXCEPT ![k] = r] \/ UNCHANGED row
    BY <1>15 DEF ConfirmFromMatch
  <2> HIDE DEF r
  <2>5. RowsOK'
    BY <2>1, <2>3, <2>4, RowUpdate DEF TypeInv, RowsOK
  <2>6. SweepOK'
    BY <1>15 DEF ConfirmFromMatch, IdleSweep, TypeInv, SweepOK
  <2> QED
    BY <1>15, <2>5, <2>6 DEF ConfirmFromMatch, TypeInv, CallsOK, CallOK, BooksOK
<1>16. ASSUME SweepDebit PROVE TypeInv'
  <2>1. sweep.key \in Keys
    BY <1>16 DEF SweepDebit, TypeInv, SweepOK
  <2>2. BooksOK'
    BY <1>16, <2>1, BooksUpdate, AmountAssumption DEF SweepDebit, TypeInv
  <2>3. SweepOK'
    BY <1>16 DEF SweepDebit, IdleSweep, TypeInv, SweepOK
  <2> QED
    BY <1>16, <2>2, <2>3 DEF SweepDebit, TypeInv, RowsOK, CallsOK, CallOK
<1>17. ASSUME UNCHANGED vars PROVE TypeInv'
  BY <1>17 DEF vars, TypeInv, RowsOK, CallsOK, CallOK, SweepOK, BooksOK
<1> QED
  BY <1>1, <1>2, <1>3, <1>4, <1>5, <1>6, <1>7, <1>8, <1>9, <1>10, <1>11,
     <1>12, <1>13, <1>14, <1>15, <1>16, <1>17
  DEF Next, Step, SweepStep

\* sendPayment and the sweep keep every variable in its type.
THEOREM TypeCorrect == Spec => []TypeOK
<1>1. Spec => []TypeInv
  BY TypeInit, TypeStep, PTL DEF Spec
<1>2. TypeInv => TypeOK
  BY DEF TypeInv, TypeOK, RowsOK, RowType, CallsOK, CallType, SweepOK, BooksOK
<1> QED
  BY <1>1, <1>2, PTL

-----------------------------------------------------------------------------
(* The compare-and-swap: what a step of one caller does to the claims. *)

HoldingPcs ==
  {"submit", "answer", "unclaim", "confirm", "txHash", "circleTransactionId",
   "debit"}

\* c takes the claim of its payment.
Claims(c) ==
  /\ call[c].key \in Keys
  /\ ~row[call[c].key].submitted
  /\ call'[c].pc = "submit" /\ call'[c].key = call[c].key
  /\ \A j \in Keys : row'[j].submitted <=> (j = call[c].key \/ row[j].submitted)
  /\ \A j \in Keys : row'[j].status = "ABSENT" =>
       row[j].status = "ABSENT" /\ j # call[c].key

\* c gives it back.
Unclaims(c) ==
  /\ call[c].key \in Keys
  /\ call[c].pc = "unclaim" /\ call'[c].pc = "idle"
  /\ \A j \in Keys : row'[j].submitted <=> (j # call[c].key /\ row[j].submitted)
  /\ \A j \in Keys : row'[j].status = "ABSENT" => row[j].status = "ABSENT"

\* c leaves all claims alone, and holds none it did not hold.
Keeps(c) ==
  /\ \A j \in Keys : row'[j].submitted <=> row[j].submitted
  /\ \A j \in Keys : row'[j].status = "ABSENT" => row[j].status = "ABSENT"
  /\ call'[c].pc \in HoldingPcs =>
       call[c].pc \in HoldingPcs /\ call'[c].key = call[c].key

Others(c) == \A d \in Callers : d # c => call'[d] = call[d]

LEMMA OthersKept ==
  ASSUME TypeInv, NEW c \in Callers,
         Step(c) \/ Crash(c) \/ (\E k \in Keys : Begin(c, k))
  PROVE  Others(c)
  BY DEF TypeInv, CallsOK, Others, Step, Crash, Begin, Find, Create, Claim,
         Accept, Refuse, LoseAnswer, Unclaim, Answer, MarkConfirmed, WriteField,
         Debit, Goto, Finish, Adopt

\* Writing a status other than ABSENT leaves the claims alone.
LEMMA StatusKeepsClaims ==
  ASSUME RowsOK, NEW k \in Keys, NEW s \in Statuses \ {"ABSENT"},
         row' = [row EXCEPT ![k].status = s]
  PROVE  /\ \A j \in Keys : row'[j].submitted = row[j].submitted
         /\ \A j \in Keys : row'[j].status = "ABSENT" => row[j].status = "ABSENT"
  BY DEF RowsOK, RowType

LEMMA WriteFieldKeeps ==
  ASSUME TypeInv, NEW c \in Callers, NEW f, NEW next,
         \/ f = "txHash" /\ next = "circleTransactionId"
         \/ f = "circleTransactionId" /\ next = "debit",
         WriteField(c, f, next)
  PROVE  Keeps(c)
<1> DEFINE k == call[c].key
           v == call[c].transfer
<1>1. call[c].pc = f /\ k \in Keys /\ call[c] \in CallType
  BY BusyKey DEF TypeInv, WriteField
<1>2. CASE Holders(k, f, v) = {}
  <2>1. row' = [row EXCEPT ![k][f] = v] /\ Goto(c, next)
    BY <1>2 DEF WriteField
  <2>2. \A j \in Keys : row'[j].submitted = row[j].submitted
                     /\ row'[j].status = row[j].status
    BY <1>1, <2>1 DEF TypeInv, RowsOK, RowType
  <2>3. call'[c].key = call[c].key
    BY <1>1, <2>1 DEF Goto, TypeInv, CallsOK, CallType
  <2> QED
    BY <1>1, <2>2, <2>3 DEF Keeps, HoldingPcs
<1>3. CASE Holders(k, f, v) # {}
  <2>1. PICK h \in Keys \cup {NoKey} : Adopt(c, h)
    BY <1>1, <1>3 DEF WriteField, Holders
  <2>2. call'[c].key = call[c].key
    BY <1>1, <2>1 DEF Adopt, TypeInv, CallsOK, CallType
  <2>3. CASE h = NoKey
    BY <1>1, <2>1, <2>2, <2>3 DEF Adopt, Keeps, HoldingPcs
  <2>4. CASE h # NoKey
    <3>1. h \in Keys /\ row' = [row EXCEPT ![h].status = "CONFIRMED"]
      BY <2>1, <2>4 DEF Adopt
    <3> QED
      BY <1>1, <2>2, <3>1, StatusKeepsClaims DEF Keeps, HoldingPcs, TypeInv, Statuses
  <2> QED
    BY <2>3, <2>4
<1> QED
  BY <1>2, <1>3

LEMMA ClaimEffect ==
  ASSUME TypeInv, ClaimInv, NEW c \in Callers,
         Step(c) \/ Crash(c) \/ (\E k \in Keys : Begin(c, k))
  PROVE  Claims(c) \/ Unclaims(c) \/ Keeps(c)
<1>a. call \in [Callers -> CallType] /\ row \in [Keys -> RowType]
  BY DEF TypeInv, CallsOK, RowsOK
<1>b. call[c].pc # "idle" => call[c].key \in Keys
  BY BusyKey DEF TypeInv
<1>1. CASE \E k \in Keys : Begin(c, k)
  BY <1>1, <1>a DEF Begin, IdleCall, Keeps, HoldingPcs
<1>2. CASE Find(c)
  BY <1>2, <1>a DEF Find, Goto, Finish, IdleCall, Keeps, HoldingPcs, CallType
<1>3. CASE Create(c)
  <2> DEFINE k == call[c].key
  <2>1. k \in Keys
    BY <1>3, <1>b DEF Create
  <2>2. call'[c].pc \notin HoldingPcs
    BY <1>3, <1>a DEF Create, Goto, HoldingPcs, CallType
  <2>3. CASE row[k].status = "ABSENT"
    <3>1. row' = [row EXCEPT ![k] = NewRow] /\ ~row[k].submitted
      BY <1>3, <2>1, <2>3 DEF Create, ClaimInv
    <3>2. ~NewRow.submitted /\ NewRow.status = "PENDING"
      BY DEF NewRow, NoRow
    <3> QED
      BY <1>a, <2>1, <2>2, <3>1, <3>2 DEF Keeps
  <2>4. CASE row[k].status # "ABSENT"
    BY <1>3, <2>2, <2>4 DEF Create, Keeps
  <2> QED
    BY <2>3, <2>4
<1>4. CASE Claim(c)
  <2> DEFINE k == call[c].key
  <2>1. k \in Keys
    BY <1>4, <1>b DEF Claim
  <2>2. CASE ~row[k].submitted
    <3>1. /\ row' = [row EXCEPT ![k].status = "PENDING", ![k].submitted = TRUE,
                                ![k].since = Len(chain)]
          /\ Goto(c, "submit")
      BY <1>4, <2>2 DEF Claim, Claimable
    <3>2. \A j \in Keys : j # k => row'[j] = row[j]
      BY <1>a, <2>1, <3>1
    <3>3. row'[k].submitted /\ row'[k].status = "PENDING"
      BY <1>a, <2>1, <3>1 DEF RowType
    <3>4. call'[c].pc = "submit" /\ call'[c].key = k
      BY <1>a, <3>1 DEF Goto, CallType
    <3>5. Claims(c)
      BY <2>1, <2>2, <3>2, <3>3, <3>4 DEF Claims
    <3> QED
      BY <3>5
  <2>3. CASE row[k].submitted
    BY <1>4, <1>a, <2>3 DEF Claim, Claimable, Finish, IdleCall, Keeps, HoldingPcs
  <2> QED
    BY <2>2, <2>3
<1>5. CASE Accept(c)
  BY <1>5, <1>a DEF Accept, Keeps, HoldingPcs, CallType
<1>6. CASE Refuse(c)
  BY <1>6, <1>a DEF Refuse, Goto, Keeps, HoldingPcs, CallType
<1>7. CASE LoseAnswer(c)
  BY <1>7, <1>a DEF LoseAnswer, Goto, Keeps, HoldingPcs, CallType
<1>8. CASE Unclaim(c)
  <2> DEFINE k == call[c].key
  <2>1. k \in Keys
    BY <1>8, <1>b DEF Unclaim
  <2>2. row' = [row EXCEPT ![k].status = "FAILED", ![k].submitted = FALSE]
    BY <1>8 DEF Unclaim
  <2>3. \A j \in Keys : j # k => row'[j] = row[j]
    BY <1>a, <2>1, <2>2
  <2>4. ~row'[k].submitted /\ row'[k].status = "FAILED"
    BY <1>a, <2>1, <2>2 DEF RowType
  <2>5. call[c].pc = "unclaim" /\ call'[c].pc = "idle"
    BY <1>8, <1>a DEF Unclaim, Finish, IdleCall
  <2>6. Unclaims(c)
    BY <2>1, <2>3, <2>4, <2>5 DEF Unclaims
  <2> QED
    BY <2>6
<1>9. CASE Answer(c)
  BY <1>9, <1>a DEF Answer, Keeps, HoldingPcs, CallType
<1>10. CASE MarkConfirmed(c)
  <2>1. row' = [row EXCEPT ![call[c].key].status = "CONFIRMED"] /\ call[c].key \in Keys
    BY <1>10, <1>b DEF MarkConfirmed
  <2>2. call'[c].key = call[c].key /\ call[c].pc \in HoldingPcs
    BY <1>10, <1>a DEF MarkConfirmed, Goto, HoldingPcs, CallType
  <2> QED
    BY <2>1, <2>2, StatusKeepsClaims DEF Keeps, TypeInv, Statuses
<1>11. CASE \/ WriteField(c, "txHash", "circleTransactionId")
            \/ WriteField(c, "circleTransactionId", "debit")
  BY <1>11, WriteFieldKeeps
<1>12. CASE Debit(c)
  BY <1>12, <1>a DEF Debit, Finish, IdleCall, Keeps, HoldingPcs
<1>13. CASE Crash(c)
  BY <1>13, <1>a DEF Crash, Finish, IdleCall, Keeps, HoldingPcs
<1> QED
  BY <1>1, <1>2, <1>3, <1>4, <1>5, <1>6, <1>7, <1>8, <1>9, <1>10, <1>11, <1>12,
     <1>13 DEF Step

-----------------------------------------------------------------------------
LEMMA HoldingMeans == ASSUME NEW c \in Callers PROVE Holding(c) <=> call[c].pc \in HoldingPcs
  BY DEF Holding, HoldingPcs

LEMMA HoldingMeansNext ==
  ASSUME NEW c \in Callers PROVE Holding(c)' <=> call'[c].pc \in HoldingPcs
  BY DEF Holding, HoldingPcs

LEMMA ClaimInit == Init => ClaimInv
  BY DEF Init, ClaimInv, OneSubmitter, Holding, IdleCall, NoRow

\* The sweep changes no claim and no caller.
LEMMA SweepEffect ==
  ASSUME TypeInv, (\E k \in Keys : Pick(k)) \/ SweepStep \/ SweepCrash
  PROVE  /\ UNCHANGED <<call, chain>>
         /\ \A j \in Keys : row'[j].submitted = row[j].submitted
         /\ \A j \in Keys : row'[j].status = "ABSENT" => row[j].status = "ABSENT"
<1>1. CASE \E known \in BOOLEAN : ConfirmFromMatch(known)
  <2>1. PICK known \in BOOLEAN : ConfirmFromMatch(known)
    BY <1>1
  <2> DEFINE k == sweep.key
             m == IF known THEN sweep.match ELSE row[k].txHash
             n == -sweep.match
  <2>2. k \in Keys
    BY <2>1 DEF ConfirmFromMatch, TypeInv, SweepOK
  <2>3. CASE UNCHANGED row
    BY <2>1, <2>3 DEF ConfirmFromMatch
  <2>4. CASE row' = [row EXCEPT ![k].status = "CONFIRMED", ![k].txHash = m,
                                ![k].circleTransactionId = n]
    <3> HIDE DEF m, n
    <3>1. \A j \in Keys : j # k => row'[j] = row[j]
      BY <2>2, <2>4 DEF TypeInv, RowsOK
    <3>2. row'[k].submitted = row[k].submitted /\ row'[k].status = "CONFIRMED"
      BY <2>2, <2>4 DEF TypeInv, RowsOK, RowType
    <3> QED
      BY <2>1, <3>1, <3>2 DEF ConfirmFromMatch
  <2> QED
    BY <2>1, <2>3, <2>4 DEF ConfirmFromMatch
<1>2. CASE (\E k \in Keys : Pick(k)) \/ List \/ SweepDebit \/ SweepCrash
  BY <1>2 DEF Pick, List, SweepDebit, SweepCrash
<1> QED
  BY <1>1, <1>2 DEF SweepStep

LEMMA ClaimStep == TypeInv /\ ClaimInv /\ [Next]_vars => ClaimInv'
<1> SUFFICES ASSUME TypeInv, ClaimInv, [Next]_vars PROVE ClaimInv'
  OBVIOUS
<1>k. \A d \in Callers : call[d].pc \in HoldingPcs => call[d].key \in Keys
  BY BusyKey DEF TypeInv, HoldingPcs
<1>h. /\ \A d \in Callers : call[d].pc \in HoldingPcs => row[call[d].key].submitted
      /\ \A k \in Keys : row[k].status = "ABSENT" => ~row[k].submitted
      /\ \A d, e \in Callers :
           /\ call[d].pc \in HoldingPcs /\ call[e].pc \in HoldingPcs
           /\ call[d].key = call[e].key
           => d = e
  BY HoldingMeans DEF ClaimInv, OneSubmitter
<1> SUFFICES
      /\ \A d \in Callers : call'[d].pc \in HoldingPcs => row'[call'[d].key].submitted
      /\ \A k \in Keys : row'[k].status = "ABSENT" => ~row'[k].submitted
      /\ \A d, e \in Callers :
           /\ call'[d].pc \in HoldingPcs /\ call'[e].pc \in HoldingPcs
           /\ call'[d].key = call'[e].key
           => d = e
  BY HoldingMeansNext DEF ClaimInv, OneSubmitter
<1>1. ASSUME NEW c \in Callers,
             Step(c) \/ Crash(c) \/ (\E k \in Keys : Begin(c, k))
      PROVE  /\ \A d \in Callers : call'[d].pc \in HoldingPcs => row'[call'[d].key].submitted
             /\ \A k \in Keys : row'[k].status = "ABSENT" => ~row'[k].submitted
             /\ \A d, e \in Callers :
                  /\ call'[d].pc \in HoldingPcs /\ call'[e].pc \in HoldingPcs
                  /\ call'[d].key = call'[e].key
                  => d = e
  <2>1. Others(c)
    BY <1>1, OthersKept
  <2>2. Claims(c) \/ Unclaims(c) \/ Keeps(c)
    BY <1>1, ClaimEffect
  <2>3. CASE Claims(c)
    BY <1>k, <1>h, <2>1, <2>3 DEF Others, Claims
  <2>4. CASE Unclaims(c)
    <3>1. "idle" \notin HoldingPcs /\ "unclaim" \in HoldingPcs
      BY DEF HoldingPcs
    <3> QED
      BY <1>k, <1>h, <2>1, <2>4, <3>1 DEF Others, Unclaims
  <2>5. CASE Keeps(c)
    BY <1>k, <1>h, <2>1, <2>5 DEF Others, Keeps
  <2> QED
    BY <2>2, <2>3, <2>4, <2>5
<1>2. CASE (\E k \in Keys : Pick(k)) \/ SweepStep \/ SweepCrash
  BY <1>2, <1>k, <1>h, SweepEffect
<1>3. CASE UNCHANGED vars
  BY <1>3, <1>h DEF vars
<1> QED
  BY <1>1, <1>2, <1>3 DEF Next

\* Two callers never both hold one payment, for any number of callers, retries
\* and sweeps, and even if the provider loses its answers.
THEOREM SubmittersExclusive == Spec => []OneSubmitter
<1>1. Spec => [](TypeInv /\ ClaimInv)
  BY TypeInit, TypeStep, ClaimInit, ClaimStep, PTL DEF Spec
<1> QED
  BY <1>1, PTL DEF ClaimInv

-----------------------------------------------------------------------------
(* At most one transfer per payment. *)

LEMMA SendInit == Init => SendInv /\ SentOnce
  BY DEF Init, SendInv, SentOnce, Sent, IdleCall

\* A caller is about to send, or to give up, only if it just claimed or was.
LEMMA SubmitEffect ==
  ASSUME TypeInv, ~LostAnswers, NEW c \in Callers,
         Step(c) \/ Crash(c) \/ (\E k \in Keys : Begin(c, k)),
         call'[c].pc \in {"submit", "unclaim"}
  PROVE  /\ call'[c].key = call[c].key
         /\ UNCHANGED chain
         /\ call[c].pc = "submit" \/ (call[c].pc = "claim" /\ ~row[call[c].key].submitted)
<1>a. call \in [Callers -> CallType]
  BY DEF TypeInv, CallsOK
<1>b. /\ \A p : Goto(c, p) => call'[c].pc = p
      /\ Finish(c) => call'[c].pc = "idle"
      /\ \A h : Adopt(c, h) => call'[c].pc = "debit"
  BY <1>a DEF Goto, Finish, Adopt, IdleCall, CallType
<1>1. Claim(c) \/ Refuse(c)
  <2>1. ~(\E k \in Keys : Begin(c, k)) /\ ~Accept(c) /\ ~Answer(c)
    BY <1>a DEF Begin, Accept, Answer, IdleCall, CallType
  <2>2. ~Find(c) /\ ~Create(c) /\ ~Unclaim(c) /\ ~MarkConfirmed(c) /\ ~LoseAnswer(c)
    BY <1>b DEF Find, Create, Unclaim, MarkConfirmed, LoseAnswer
  <2>3. ~Debit(c) /\ ~Crash(c)
    BY <1>b DEF Debit, Crash
  <2>4. /\ ~WriteField(c, "txHash", "circleTransactionId")
        /\ ~WriteField(c, "circleTransactionId", "debit")
    BY <1>b DEF WriteField
  <2> QED
    BY <2>1, <2>2, <2>3, <2>4 DEF Step
<1>2. CASE Claim(c)
  BY <1>2, <1>a DEF Claim, Claimable, Goto, Finish, IdleCall, CallType
<1>3. CASE Refuse(c)
  BY <1>3, <1>a DEF Refuse, Goto, CallType
<1> QED
  BY <1>1, <1>2, <1>3

\* Only the caller that submits makes a transfer, for its own payment.
LEMMA ChainEffect ==
  ASSUME TypeInv, NEW c \in Callers,
         Step(c) \/ Crash(c) \/ (\E k \in Keys : Begin(c, k))
  PROVE  \/ UNCHANGED chain
         \/ /\ call[c].pc = "submit" /\ call'[c].pc = "answer"
            /\ call[c].key \in Keys
            /\ chain' = Append(chain, call[c].key)
            /\ UNCHANGED row
<1>a. call \in [Callers -> CallType] /\ (call[c].pc # "idle" => call[c].key \in Keys)
  BY BusyKey DEF TypeInv, CallsOK
<1>1. CASE Accept(c)
  BY <1>1, <1>a DEF Accept, CallType
<1>2. CASE ~Accept(c)
  BY <1>2 DEF Step, Crash, Begin, Find, Create, Claim, Refuse, LoseAnswer,
     Unclaim, Answer, MarkConfirmed, WriteField, Debit
<1> QED
  BY <1>1, <1>2

LEMMA SendStep ==
  ~LostAnswers /\ TypeInv /\ ClaimInv /\ SendInv /\ SentOnce /\ [Next]_vars
    => SendInv' /\ SentOnce'
<1> SUFFICES ASSUME ~LostAnswers, TypeInv, ClaimInv, SendInv, SentOnce, [Next]_vars
             PROVE  SendInv' /\ SentOnce'
  OBVIOUS
<1>k. \A d \in Callers : call[d].pc # "idle" => call[d].key \in Keys
  BY BusyKey DEF TypeInv
<1>1. ASSUME NEW c \in Callers,
             Step(c) \/ Crash(c) \/ (\E k \in Keys : Begin(c, k))
      PROVE  SendInv' /\ SentOnce'
  <2>1. Others(c)
    BY <1>1, OthersKept
  <2>2. Claims(c) \/ Unclaims(c) \/ Keeps(c)
    BY <1>1, ClaimEffect
  <2>3. CASE UNCHANGED chain
    <3>1. \A k \in Keys : Sent(k)' <=> Sent(k)
      BY <2>3 DEF Sent
    <3>2. ASSUME NEW k \in Keys, ~row'[k].submitted PROVE ~Sent(k)
      BY <2>2, <3>2 DEF SendInv, Claims, Unclaims, Keeps
    <3>3. ASSUME NEW d \in Callers, call'[d].pc \in {"submit", "unclaim"}
          PROVE  ~Sent(call'[d].key) /\ call'[d].key \in Keys
      <4>1. CASE d = c
        BY <1>1, <1>k, <3>3, <4>1, SubmitEffect DEF SendInv
      <4>2. CASE d # c
        BY <1>k, <2>1, <3>3, <4>2 DEF Others, SendInv
      <4> QED
        BY <4>1, <4>2
    <3>4. SendInv'
      BY <3>1, <3>2, <3>3 DEF SendInv
    <3> QED
      BY <2>3, <3>4 DEF SentOnce
  <2>4. CASE /\ call[c].pc = "submit" /\ call'[c].pc = "answer"
             /\ call[c].key \in Keys
             /\ chain' = Append(chain, call[c].key)
             /\ UNCHANGED row
    <3> DEFINE k == call[c].key
    <3>0. chain \in Seq(Keys)
      BY DEF TypeInv
    <3>1. ~Sent(k) /\ row[k].submitted
      BY <2>4 DEF SendInv, ClaimInv, Holding
    <3>2. \A i \in DOMAIN chain : chain[i] # k
      BY <3>1 DEF Sent
    <3>3. SentOnce'
      BY <2>4, <3>0, <3>2 DEF SentOnce
    <3>4. \A j \in Keys : Sent(j)' => Sent(j) \/ j = k
      BY <2>4, <3>0 DEF Sent
    <3>5. ASSUME NEW j \in Keys, ~row'[j].submitted PROVE ~Sent(j)'
      BY <2>4, <3>1, <3>4, <3>5 DEF SendInv
    <3>6. ASSUME NEW d \in Callers, call'[d].pc \in {"submit", "unclaim"},
                 NEW i \in DOMAIN chain'
          PROVE  chain'[i] # call'[d].key
      <4>1. d # c /\ call'[d] = call[d] /\ call[d].key \in Keys
        BY <1>k, <2>1, <2>4, <3>6 DEF Others
      <4>2. call[d].key # k
        BY <2>4, <3>6, <4>1 DEF ClaimInv, OneSubmitter, Holding
      <4>3. \A j \in DOMAIN chain : chain[j] # call[d].key
        BY <3>6, <4>1 DEF SendInv, Sent
      <4> QED
        BY <2>4, <3>0, <4>1, <4>2, <4>3
    <3>7. SendInv'
      BY <3>5, <3>6 DEF SendInv, Sent
    <3> QED
      BY <3>3, <3>7
  <2> QED
    BY <1>1, <2>3, <2>4, ChainEffect
<1>2. CASE (\E k \in Keys : Pick(k)) \/ SweepStep \/ SweepCrash
  BY <1>2, SweepEffect DEF SendInv, SentOnce, Sent
<1>3. CASE UNCHANGED vars
  BY <1>3 DEF vars, SendInv, SentOnce, Sent
<1> QED
  BY <1>1, <1>2, <1>3 DEF Next

\* If every failure of the provider call means that nothing was sent, a
\* payment leaves custody at most once, for any number of payments, callers,
\* retries, crashes and sweeps.
THEOREM NeverSentTwice == ASSUME ~LostAnswers PROVE Spec => []SentOnce
<1>1. Init => TypeInv /\ ClaimInv /\ SendInv /\ SentOnce
  BY TypeInit, ClaimInit, SendInit
<1>2. /\ TypeInv /\ ClaimInv /\ SendInv /\ SentOnce
      /\ [Next]_vars
      => (TypeInv /\ ClaimInv /\ SendInv /\ SentOnce)'
  BY TypeStep, ClaimStep, SendStep
<1> QED
  BY <1>1, <1>2, PTL DEF Spec

-----------------------------------------------------------------------------
(* What the rows and the sweep say of the transfers. *)

\* No two payments have both their payee and their amount in common.
Distinguishable ==
  \A j, k \in Keys : Payee[j] = Payee[k] /\ Amount[j] = Amount[k] => j = k

RowGood(r, k, ch) ==
  /\ r.status = "CONFIRMED" => \E i \in DOMAIN ch : ch[i] = k
  /\ r.status # "CONFIRMED" => r.txHash = 0 /\ r.circleTransactionId = 0
  /\ r.txHash # 0 => r.txHash \in DOMAIN ch /\ ch[r.txHash] = k
  /\ r.circleTransactionId > 0 =>
       r.circleTransactionId \in DOMAIN ch /\ ch[r.circleTransactionId] = k
  /\ r.circleTransactionId < 0 =>
       -r.circleTransactionId \in DOMAIN ch /\ ch[-r.circleTransactionId] = k

Recording == {"txHash", "circleTransactionId", "debit"}

CallGood(r, rows, ch) ==
  /\ r.pc \in Answered \cup {"answer"} =>
       r.transfer \in DOMAIN ch /\ ch[r.transfer] = r.key
  /\ r.pc \in Answered => r.target = r.key
  /\ r.pc \in Recording => rows[r.key].status = "CONFIRMED"

SweepGood ==
  /\ sweep.pc = "claim" =>
       sweep.match \in DOMAIN chain /\ chain[sweep.match] = sweep.key
  /\ sweep.pc = "debit" => row[sweep.key].status = "CONFIRMED"

BookInv ==
  /\ \A k \in Keys : RowGood(row[k], k, chain)
  /\ \A c \in Callers : CallGood(call[c], row, chain)
  /\ SweepGood
  /\ \A k \in debited : k \in Keys /\ row[k].status = "CONFIRMED"

\* All that is known of a reachable state.
FullInv == TypeInv /\ ClaimInv /\ SendInv /\ SentOnce /\ BookInv

\* The transfers made stay where they are.
ChainKept == \A i \in DOMAIN chain : i \in DOMAIN chain' /\ chain'[i] = chain[i]

\* No confirmation is undone, and no recorded hash replaced.
RowsFinal ==
  \A k \in Keys : row[k].status = "CONFIRMED" =>
    /\ row'[k].status = "CONFIRMED"
    /\ row[k].txHash # 0 => row'[k].txHash = row[k].txHash

LEMMA BookInit == Init => BookInv
  BY DEF Init, BookInv, RowGood, CallGood, SweepGood, NoRow, IdleCall, IdleSweep,
     Answered, Recording

LEMMA ChainMonotone == TypeInv /\ [Next]_vars => ChainKept
<1> SUFFICES ASSUME TypeInv, [Next]_vars PROVE ChainKept
  OBVIOUS
<1>0. chain \in Seq(Keys)
  BY DEF TypeInv
<1>1. ASSUME NEW c \in Callers,
             Step(c) \/ Crash(c) \/ (\E k \in Keys : Begin(c, k))
      PROVE  ChainKept
  BY <1>0, <1>1, ChainEffect DEF ChainKept
<1>2. CASE (\E k \in Keys : Pick(k)) \/ SweepStep \/ SweepCrash
  BY <1>2, SweepEffect DEF ChainKept
<1>3. CASE UNCHANGED vars
  BY <1>3 DEF vars, ChainKept
<1> QED
  BY <1>1, <1>2, <1>3 DEF Next

LEMMA RowGoodMonotone ==
  ASSUME ChainKept, NEW r, NEW k, RowGood(r, k, chain)
  PROVE  RowGood(r, k, chain')
  BY DEF ChainKept, RowGood

\* No other row holds a hash or an id of one's own transfer.
LEMMA NoHolders ==
  ASSUME TypeInv, BookInv, NEW k \in Keys, NEW v \in DOMAIN chain, chain[v] = k
  PROVE  /\ Holders(k, "txHash", v) = {}
         /\ Holders(k, "circleTransactionId", v) = {}
         /\ Holders(k, "circleTransactionId", -v) = {}
<1>1. v \in Nat /\ v > 0
  BY DEF TypeInv
<1>2. ASSUME NEW h \in Keys, h # k
      PROVE  /\ row[h].txHash # v
             /\ row[h].circleTransactionId # v
             /\ row[h].circleTransactionId # -v
  BY <1>1, <1>2 DEF BookInv, RowGood
<1> QED
  BY <1>2 DEF Holders

\* A field of a confirmed row is given its own transfer.
LEMMA WriteFieldEffect ==
  ASSUME FullInv, NEW c \in Callers, NEW f, NEW next,
         \/ f = "txHash" /\ next = "circleTransactionId"
         \/ f = "circleTransactionId" /\ next = "debit",
         WriteField(c, f, next)
  PROVE  /\ call[c].pc = f /\ call[c].key \in Keys
         /\ call[c].transfer \in DOMAIN chain /\ chain[call[c].transfer] = call[c].key
         /\ call[c].target = call[c].key /\ row[call[c].key].status = "CONFIRMED"
         /\ row' = [row EXCEPT ![call[c].key][f] = call[c].transfer]
         /\ Goto(c, next)
<1>1. call[c].pc = f
  BY DEF WriteField
<1>2. call[c].key \in Keys
  BY <1>1, BusyKey DEF FullInv, TypeInv
<1>3. CallGood(call[c], row, chain)
  BY DEF FullInv, BookInv
<1>4. /\ call[c].transfer \in DOMAIN chain /\ chain[call[c].transfer] = call[c].key
      /\ call[c].target = call[c].key /\ row[call[c].key].status = "CONFIRMED"
  BY <1>1, <1>3 DEF CallGood, Answered, Recording
<1>5. Holders(call[c].key, f, call[c].transfer) = {}
  BY <1>2, <1>4, NoHolders DEF FullInv
<1> QED
  BY <1>1, <1>2, <1>4, <1>5 DEF WriteField

LEMMA WriteFieldRow ==
  ASSUME FullInv, NEW c \in Callers, NEW f, NEW next,
         \/ f = "txHash" /\ next = "circleTransactionId"
         \/ f = "circleTransactionId" /\ next = "debit",
         WriteField(c, f, next)
  PROVE  RowsFinal /\ \A k \in Keys : RowGood(row'[k], k, chain)
<1> DEFINE k == call[c].key
           v == call[c].transfer
<1>1. /\ k \in Keys /\ v \in DOMAIN chain /\ chain[v] = k
      /\ row[k].status = "CONFIRMED"
      /\ row' = [row EXCEPT ![k][f] = v]
  BY WriteFieldEffect
<1>2. row \in [Keys -> RowType] /\ chain \in Seq(Keys)
  BY DEF FullInv, TypeInv, RowsOK
<1>3. v \in Nat /\ v > 0
  BY <1>1, <1>2
<1>4. \A j \in Keys : RowGood(row[j], j, chain)
  BY DEF FullInv, BookInv
<1>5. \A j \in Keys : j # k => row'[j] = row[j]
  BY <1>1, <1>2
<1>6. row[k].txHash # 0 => row[k].txHash = v
  BY <1>1, <1>4 DEF FullInv, SentOnce, RowGood
<1> HIDE DEF k, v
<1>7. CASE f = "txHash"
  <2>1. /\ row'[k].status = "CONFIRMED" /\ row'[k].txHash = v
        /\ row'[k].circleTransactionId = row[k].circleTransactionId
    BY <1>1, <1>2, <1>7 DEF RowType
  <2>2. RowGood(row'[k], k, chain)
    BY <1>1, <1>3, <1>4, <2>1 DEF RowGood
  <2> QED
    BY <1>4, <1>5, <1>6, <2>1, <2>2 DEF RowsFinal
<1>8. CASE f = "circleTransactionId"
  <2>1. /\ row'[k].status = "CONFIRMED" /\ row'[k].txHash = row[k].txHash
        /\ row'[k].circleTransactionId = v
    BY <1>1, <1>2, <1>8 DEF RowType
  <2>2. RowGood(row'[k], k, chain)
    BY <1>1, <1>3, <1>4, <2>1 DEF RowGood
  <2> QED
    BY <1>4, <1>5, <2>1, <2>2 DEF RowsFinal
<1> QED
  BY <1>7, <1>8

\* One row is written, without losing a confirmation or a hash.
LEMMA OneRow ==
  ASSUME FullInv, NEW k \in Keys, NEW r, row' = [row EXCEPT ![k] = r],
         RowGood(r, k, chain),
         row[k].status = "CONFIRMED" =>
           r.status = "CONFIRMED" /\ (row[k].txHash # 0 => r.txHash = row[k].txHash)
  PROVE  RowsFinal /\ \A j \in Keys : RowGood(row'[j], j, chain)
<1>1. row \in [Keys -> RowType]
  BY DEF FullInv, TypeInv, RowsOK
<1>2. row'[k] = r /\ \A j \in Keys : j # k => row'[j] = row[j]
  BY <1>1
<1>3. \A j \in Keys : RowGood(row[j], j, chain)
  BY DEF FullInv, BookInv
<1> QED
  BY <1>2, <1>3 DEF RowsFinal

LEMMA SameRows ==
  ASSUME FullInv, UNCHANGED row
  PROVE  RowsFinal /\ \A j \in Keys : RowGood(row'[j], j, chain)
  BY DEF FullInv, BookInv, RowsFinal

\* A payment that was not made has an unconfirmed row without identifiers.
LEMMA UnsentRow ==
  ASSUME FullInv, NEW k \in Keys, ~Sent(k)
  PROVE  /\ row[k].status # "CONFIRMED"
         /\ row[k].txHash = 0 /\ row[k].circleTransactionId = 0
  BY DEF FullInv, BookInv, RowGood, Sent

LEMMA UnconfirmedGood ==
  ASSUME NEW r, NEW k, NEW ch, r.status # "CONFIRMED", r.txHash = 0,
         r.circleTransactionId = 0
  PROVE  RowGood(r, k, ch)
  BY DEF RowGood

LEMMA CallerRows ==
  ASSUME ~LostAnswers, FullInv, NEW c \in Callers,
         Step(c) \/ Crash(c) \/ (\E k \in Keys : Begin(c, k))
  PROVE  RowsFinal /\ \A j \in Keys : RowGood(row'[j], j, chain)
<1> DEFINE k == call[c].key
<1>b. call[c].pc # "idle" => k \in Keys
  BY BusyKey DEF FullInv, TypeInv
<1>t. k \in Keys => row[k] \in RowType /\ RowGood(row[k], k, chain)
  BY DEF FullInv, TypeInv, RowsOK, BookInv
<1>1. CASE UNCHANGED row
  BY <1>1, SameRows
<1>2. CASE Create(c)
  <2>1. CASE row[k].status = "ABSENT"
    <3>1. row' = [row EXCEPT ![k] = NewRow] /\ k \in Keys
      BY <1>2, <1>b, <2>1 DEF Create
    <3>2. RowGood(NewRow, k, chain)
      BY UnconfirmedGood DEF NewRow, NoRow
    <3> QED
      BY <2>1, <3>1, <3>2, OneRow
  <2>2. CASE row[k].status # "ABSENT"
    BY <1>2, <2>2, SameRows DEF Create
  <2> QED
    BY <2>1, <2>2
<1>3. CASE Claim(c)
  <2>1. CASE ~row[k].submitted
    <3> DEFINE r == [row[k] EXCEPT !.status = "PENDING", !.submitted = TRUE,
                                   !.since = Len(chain)]
    <3>1. row' = [row EXCEPT ![k] = r] /\ k \in Keys
      BY <1>3, <1>b, <2>1 DEF Claim, Claimable
    <3>2. ~Sent(k)
      BY <2>1, <3>1 DEF FullInv, SendInv
    <3>3. r.status = "PENDING" /\ r.txHash = row[k].txHash
           /\ r.circleTransactionId = row[k].circleTransactionId
      BY <1>t, <3>1 DEF RowType
    <3> HIDE DEF r
    <3>4. RowGood(r, k, chain) /\ row[k].status # "CONFIRMED"
      BY <3>1, <3>2, <3>3, UnsentRow, UnconfirmedGood
    <3> QED
      BY <3>1, <3>4, OneRow
  <2>2. CASE row[k].submitted
    BY <1>3, <2>2, SameRows DEF Claim, Claimable
  <2> QED
    BY <2>1, <2>2
<1>4. CASE Unclaim(c)
  <2> DEFINE r == [row[k] EXCEPT !.status = "FAILED", !.submitted = FALSE]
  <2>1. row' = [row EXCEPT ![k] = r] /\ k \in Keys
    BY <1>4, <1>b DEF Unclaim
  <2>2. ~Sent(k)
    BY <1>4, <2>1 DEF Unclaim, FullInv, SendInv
  <2>3. r.status = "FAILED" /\ r.txHash = row[k].txHash
         /\ r.circleTransactionId = row[k].circleTransactionId
    BY <1>t, <2>1 DEF RowType
  <2> HIDE DEF r
  <2>4. RowGood(r, k, chain) /\ row[k].status # "CONFIRMED"
    BY <2>1, <2>2, <2>3, UnsentRow, UnconfirmedGood
  <2> QED
    BY <2>1, <2>4, OneRow
<1>5. CASE MarkConfirmed(c)
  <2> DEFINE r == [row[k] EXCEPT !.status = "CONFIRMED"]
  <2>1. row' = [row EXCEPT ![k] = r] /\ k \in Keys
    BY <1>5, <1>b DEF MarkConfirmed
  <2>2. \E i \in DOMAIN chain : chain[i] = k
    BY <1>5 DEF MarkConfirmed, FullInv, BookInv, CallGood, Answered
  <2>3. r.status = "CONFIRMED" /\ r.txHash = row[k].txHash
         /\ r.circleTransactionId = row[k].circleTransactionId
    BY <1>t, <2>1 DEF RowType
  <2> HIDE DEF r
  <2>4. RowGood(r, k, chain)
    BY <1>t, <2>1, <2>2, <2>3 DEF RowGood
  <2> QED
    BY <2>1, <2>3, <2>4, OneRow
<1>6. CASE \/ WriteField(c, "txHash", "circleTransactionId")
           \/ WriteField(c, "circleTransactionId", "debit")
  BY <1>6, WriteFieldRow
<1>7. CASE ~(Create(c) \/ Claim(c) \/ Unclaim(c) \/ MarkConfirmed(c)
             \/ WriteField(c, "txHash", "circleTransactionId")
             \/ WriteField(c, "circleTransactionId", "debit"))
  BY <1>1, <1>7 DEF Step, Crash, Begin, Find, Accept, Refuse, LoseAnswer, Answer, Debit
<1> QED
  BY <1>2, <1>3, <1>4, <1>5, <1>6, <1>7

LEMMA MatchRow ==
  ASSUME NEW x \in RowType, NEW n, NEW m, NEW k, NEW ch,
         n = x.txHash \/ (n \in DOMAIN ch /\ ch[n] = k),
         -m \in DOMAIN ch, ch[-m] = k, m \in Int, m < 0, RowGood(x, k, ch)
  PROVE  RowGood([x EXCEPT !.status = "CONFIRMED", !.txHash = n,
                           !.circleTransactionId = m], k, ch)
<1> DEFINE r == [x EXCEPT !.status = "CONFIRMED", !.txHash = n,
                          !.circleTransactionId = m]
<1>1. r.status = "CONFIRMED" /\ r.txHash = n /\ r.circleTransactionId = m
  BY DEF RowType
<1> HIDE DEF r
<1> QED
  BY <1>1 DEF RowGood

LEMMA SweepRows ==
  ASSUME FullInv, (\E k \in Keys : Pick(k)) \/ SweepStep \/ SweepCrash
  PROVE  RowsFinal /\ \A j \in Keys : RowGood(row'[j], j, chain)
<1>1. CASE UNCHANGED row
  BY <1>1, SameRows
<1>2. ASSUME NEW known \in BOOLEAN, ConfirmFromMatch(known), row' # row
      PROVE  RowsFinal /\ \A j \in Keys : RowGood(row'[j], j, chain)
  <2> DEFINE k == sweep.key
             n == IF known THEN sweep.match ELSE row[k].txHash
             m == -sweep.match
             r == [row[k] EXCEPT !.status = "CONFIRMED", !.txHash = n,
                                 !.circleTransactionId = m]
  <2>1. k \in Keys /\ sweep.match \in DOMAIN chain /\ chain[sweep.match] = k
    BY <1>2 DEF ConfirmFromMatch, FullInv, TypeInv, SweepOK, BookInv, SweepGood
  <2>2. row' = [row EXCEPT ![k] = r] /\ row[k].status = "PENDING"
    BY <1>2 DEF ConfirmFromMatch
  <2>3. row[k] \in RowType /\ RowGood(row[k], k, chain) /\ chain \in Seq(Keys)
    BY <2>1 DEF FullInv, TypeInv, RowsOK, BookInv
  <2>4. m \in Int /\ m < 0 /\ -m = sweep.match
    <3>1. sweep.match \in Nat /\ sweep.match > 0
      BY <2>1, <2>3
    <3> QED
      BY <3>1
  <2>5. n = row[k].txHash \/ (n \in DOMAIN chain /\ chain[n] = k)
    BY <2>1
  <2>6. RowGood(r, k, chain)
    <3> HIDE DEF n, m
    <3> QED
      BY <2>1, <2>3, <2>4, <2>5, MatchRow
  <2> HIDE DEF r
  <2> QED
    BY <2>1, <2>2, <2>6, OneRow
<1> QED
  BY <1>1, <1>2 DEF SweepStep, Pick, List, SweepDebit, SweepCrash

LEMMA RowStep ==
  ASSUME ~LostAnswers, FullInv, [Next]_vars
  PROVE  RowsFinal /\ \A j \in Keys : RowGood(row'[j], j, chain)
<1>1. ASSUME NEW c \in Callers,
             Step(c) \/ Crash(c) \/ (\E k \in Keys : Begin(c, k))
      PROVE  RowsFinal /\ \A j \in Keys : RowGood(row'[j], j, chain)
  BY <1>1, CallerRows
<1>2. CASE (\E k \in Keys : Pick(k)) \/ SweepStep \/ SweepCrash
  BY <1>2, SweepRows
<1>3. CASE UNCHANGED vars
  BY <1>3, SameRows DEF vars
<1> QED
  BY <1>1, <1>2, <1>3 DEF Next

\* What a caller knows stays true.
LEMMA CallGoodKept ==
  ASSUME FullInv, ChainKept, RowsFinal, NEW d \in Callers
  PROVE  CallGood(call[d], row', chain')
<1>1. CallGood(call[d], row, chain)
  BY DEF FullInv, BookInv
<1>2. call[d].pc # "idle" => call[d].key \in Keys
  BY BusyKey DEF FullInv, TypeInv
<1> QED
  BY <1>1, <1>2 DEF CallGood, ChainKept, RowsFinal, Answered, Recording

\* What the caller that moves learns is true as well.
LEMMA CallerCalls ==
  ASSUME FullInv, ChainKept, RowsFinal, NEW c \in Callers,
         Step(c) \/ Crash(c) \/ (\E k \in Keys : Begin(c, k))
  PROVE  CallGood(call'[c], row', chain')
<1>a. /\ call \in [Callers -> CallType] /\ row \in [Keys -> RowType]
      /\ chain \in Seq(Keys)
  BY DEF FullInv, TypeInv, CallsOK, RowsOK
<1>b. call[c].pc # "idle" => call[c].key \in Keys
  BY BusyKey DEF FullInv, TypeInv
<1>c. CallGood(call[c], row', chain') /\ call[c] \in CallType
  BY <1>a, CallGoodKept
<1>d. \A r : r.pc \notin Answered \cup {"answer"} => CallGood(r, row', chain')
  BY DEF CallGood, Answered, Recording
<1>e. /\ \A p : Goto(c, p) => call'[c].pc = p
      /\ Finish(c) => call'[c].pc = "idle"
  BY <1>a DEF Goto, Finish, IdleCall, CallType
<1>1. CASE Accept(c)
  <2>1. /\ call'[c].pc = "answer" /\ call'[c].key = call[c].key
        /\ call'[c].transfer = Len(chain) + 1
    BY <1>1, <1>a DEF Accept, CallType
  <2>2. Len(chain) + 1 \in DOMAIN chain' /\ chain'[Len(chain) + 1] = call[c].key
    BY <1>1, <1>a, <1>b DEF Accept
  <2> QED
    BY <2>1, <2>2 DEF CallGood, Answered, Recording
<1>2. CASE Answer(c)
  <2>1. /\ call'[c].pc = "confirm" /\ call'[c].key = call[c].key
        /\ call'[c].transfer = call[c].transfer /\ call'[c].target = call[c].key
        /\ call[c].pc = "answer"
    BY <1>2, <1>a DEF Answer, CallType
  <2> QED
    BY <1>c, <2>1 DEF CallGood, Answered, Recording
<1>3. CASE MarkConfirmed(c)
  <2>1. /\ call'[c].pc = "txHash" /\ call'[c].key = call[c].key
        /\ call'[c].transfer = call[c].transfer /\ call'[c].target = call[c].target
        /\ call[c].pc = "confirm"
    BY <1>3, <1>a DEF MarkConfirmed, Goto, CallType
  <2>2. row'[call[c].key].status = "CONFIRMED"
    BY <1>3, <1>a, <1>b DEF MarkConfirmed, RowType
  <2> QED
    BY <1>c, <2>1, <2>2 DEF CallGood, Answered, Recording
<1>4. ASSUME NEW f, NEW next,
             \/ f = "txHash" /\ next = "circleTransactionId"
             \/ f = "circleTransactionId" /\ next = "debit",
             WriteField(c, f, next)
      PROVE  CallGood(call'[c], row', chain')
  <2>1. call[c].pc = f /\ Goto(c, next)
    BY <1>4, WriteFieldEffect
  <2>2. /\ call'[c].pc = next /\ call'[c].key = call[c].key
        /\ call'[c].transfer = call[c].transfer /\ call'[c].target = call[c].target
    BY <2>1, <1>a DEF Goto, CallType
  <2> QED
    BY <1>4, <1>c, <2>1, <2>2 DEF CallGood, Answered, Recording
<1>5. CASE \/ \E k \in Keys : Begin(c, k)
           \/ Find(c) \/ Create(c) \/ Claim(c) \/ Refuse(c) \/ LoseAnswer(c)
           \/ Unclaim(c) \/ Debit(c) \/ Crash(c)
  <2>1. call'[c].pc \in {"idle", "find", "create", "claim", "submit", "unclaim"}
    <3>1. CASE \E k \in Keys : Begin(c, k)
      BY <3>1, <1>a DEF Begin, IdleCall
    <3> QED
      BY <1>5, <1>e, <3>1 DEF Find, Create, Claim, Refuse, LoseAnswer, Unclaim,
                              Debit, Crash
  <2> QED
    BY <1>d, <2>1 DEF Answered
<1> QED
  BY <1>1, <1>2, <1>3, <1>4, <1>5 DEF Step

LEMMA CallStep ==
  ASSUME FullInv, ChainKept, RowsFinal, [Next]_vars, NEW d \in Callers
  PROVE  CallGood(call'[d], row', chain')
<1>1. ASSUME NEW c \in Callers,
             Step(c) \/ Crash(c) \/ (\E k \in Keys : Begin(c, k))
      PROVE  CallGood(call'[d], row', chain')
  <2>1. d # c => call'[d] = call[d]
    BY <1>1, OthersKept DEF Others, FullInv
  <2> QED
    BY <1>1, <2>1, CallerCalls, CallGoodKept
<1>2. CASE (\E k \in Keys : Pick(k)) \/ SweepStep \/ SweepCrash
  BY <1>2, SweepEffect, CallGoodKept DEF FullInv
<1>3. CASE UNCHANGED vars
  BY <1>3, CallGoodKept DEF vars
<1> QED
  BY <1>1, <1>2, <1>3 DEF Next

\* With payments that can be told apart, the sweep finds only their own
\* transfers.
LEMMA SweepGoodStep ==
  ASSUME Distinguishable, FullInv, ChainKept, RowsFinal, [Next]_vars
  PROVE  SweepGood'
<1>a. SweepGood /\ chain \in Seq(Keys) /\ (sweep.pc # "idle" => sweep.key \in Keys)
  BY DEF FullInv, BookInv, TypeInv, SweepOK
<1>b. sweep.pc \in {"idle", "list", "claim", "debit"}
  BY DEF FullInv, TypeInv, SweepOK
<1>1. CASE UNCHANGED sweep
  BY <1>1, <1>a DEF SweepGood, ChainKept, RowsFinal
<1>2. CASE sweep' = IdleSweep
  BY <1>2 DEF SweepGood, IdleSweep
<1>3. CASE List /\ sweep' # IdleSweep
  <2>1. PICK i \in Candidates(sweep.key, sweep.since) :
          sweep' = [sweep EXCEPT !.pc = "claim", !.match = i]
    BY <1>3 DEF List
  <2>2. i \in DOMAIN chain /\ Alike(chain[i], sweep.key) /\ sweep.key \in Keys
    BY <1>3, <1>a DEF Candidates, List
  <2>3. chain[i] \in Keys
    BY <2>2, <1>a
  <2>4. chain[i] = sweep.key
    BY <2>2, <2>3 DEF Alike, Distinguishable
  <2>5. sweep'.pc = "claim" /\ sweep'.match = i /\ sweep'.key = sweep.key
    BY <2>1 DEF FullInv, TypeInv, SweepOK
  <2> QED
    BY <1>3, <2>2, <2>4, <2>5 DEF SweepGood, List
<1>4. ASSUME NEW known \in BOOLEAN, ConfirmFromMatch(known), sweep' # IdleSweep
      PROVE  SweepGood'
  <2>1. sweep'.pc = "debit" /\ sweep'.key = sweep.key /\ sweep.key \in Keys
    BY <1>4, <1>a DEF ConfirmFromMatch, FullInv, TypeInv, SweepOK
  <2>2. row'[sweep.key].status = "CONFIRMED"
    BY <1>4, <2>1 DEF ConfirmFromMatch, FullInv, TypeInv, RowsOK, RowType
  <2> QED
    BY <2>1, <2>2 DEF SweepGood
<1>5. ASSUME NEW k \in Keys, Pick(k) PROVE SweepGood'
  BY <1>5 DEF Pick, SweepGood
<1>6. CASE UNCHANGED sweep \/ sweep' = IdleSweep
  BY <1>1, <1>2, <1>6
<1>7. ASSUME NEW c \in Callers,
             Step(c) \/ Crash(c) \/ (\E k \in Keys : Begin(c, k))
      PROVE  UNCHANGED sweep
  BY <1>7 DEF Step, Crash, Begin, Find, Create, Claim, Accept, Refuse, LoseAnswer,
     Unclaim, Answer, MarkConfirmed, WriteField, Debit
<1> QED
  BY <1>3, <1>4, <1>5, <1>6, <1>7
  DEF Next, SweepStep, SweepDebit, SweepCrash, vars

\* A debit is taken only under a row that was confirmed before.
LEMMA DebitedStep ==
  ASSUME FullInv, RowsFinal, [Next]_vars
  PROVE  \A k \in debited' : k \in Keys /\ row'[k].status = "CONFIRMED"
<1>a. \A k \in debited : k \in Keys /\ row[k].status = "CONFIRMED"
  BY DEF FullInv, TypeInv, BooksOK, BookInv
<1>1. CASE UNCHANGED debited
  BY <1>1, <1>a DEF RowsFinal
<1>2. ASSUME NEW k \in Keys, row[k].status = "CONFIRMED", debited' = debited \cup {k}
      PROVE  \A j \in debited' : j \in Keys /\ row'[j].status = "CONFIRMED"
  BY <1>2, <1>a DEF RowsFinal
<1>3. ASSUME NEW c \in Callers, Debit(c)
      PROVE  \A j \in debited' : j \in Keys /\ row'[j].status = "CONFIRMED"
  <2>1. call[c].pc = "debit" /\ call[c].key \in Keys
    BY <1>3, BusyKey DEF Debit, FullInv, TypeInv
  <2>2. call[c].target = call[c].key /\ row[call[c].key].status = "CONFIRMED"
    BY <2>1 DEF FullInv, BookInv, CallGood, Answered, Recording
  <2> QED
    BY <1>1, <1>2, <1>3, <2>1, <2>2 DEF Debit, RecordDebit
<1>4. CASE SweepDebit
  <2>1. sweep.key \in Keys /\ row[sweep.key].status = "CONFIRMED"
    BY <1>4 DEF SweepDebit, FullInv, TypeInv, SweepOK, BookInv, SweepGood
  <2> QED
    BY <1>1, <1>2, <1>4, <2>1 DEF SweepDebit, RecordDebit
<1>5. CASE ~SweepDebit /\ ~\E c \in Callers : Debit(c)
  <2>1. UNCHANGED debited
    BY <1>5 DEF Next, vars, Step, Crash, Begin, Find, Create, Claim, Accept, Refuse,
       LoseAnswer, Unclaim, Answer, MarkConfirmed, WriteField, Pick, SweepStep,
       List, ConfirmFromMatch, SweepCrash
  <2> QED
    BY <1>1, <2>1
<1> QED
  BY <1>3, <1>4, <1>5

LEMMA FullStep ==
  ASSUME ~LostAnswers, Distinguishable, FullInv, [Next]_vars
  PROVE  FullInv' /\ RowsFinal /\ ChainKept
<1>1. TypeInv' /\ ClaimInv' /\ SendInv' /\ SentOnce' /\ ChainKept
  BY TypeStep, ClaimStep, SendStep, ChainMonotone DEF FullInv
<1>2. RowsFinal /\ \A j \in Keys : RowGood(row'[j], j, chain)
  BY RowStep
<1>3. \A j \in Keys : RowGood(row'[j], j, chain')
  BY <1>1, <1>2, RowGoodMonotone
<1>4. \A d \in Callers : CallGood(call'[d], row', chain')
  BY <1>1, <1>2, CallStep
<1>5. SweepGood' /\ \A k \in debited' : k \in Keys /\ row'[k].status = "CONFIRMED"
  BY <1>1, <1>2, SweepGoodStep, DebitedStep
<1>6. BookInv'
  BY <1>3, <1>4, <1>5 DEF BookInv, SweepGood
<1> QED
  BY <1>1, <1>2, <1>6 DEF FullInv

LEMMA FullInit == Init => FullInv
  BY TypeInit, ClaimInit, SendInit, BookInit DEF FullInv

\* With payments that can be told apart by payee and amount, and no lost
\* answers, a row says CONFIRMED only of a payment that was made, and only
\* confirmed payments are debited, for any callers, retries and sweeps.
THEOREM BooksAlwaysFollowChain ==
  ASSUME ~LostAnswers, Distinguishable PROVE Spec => []BooksFollowChain
<1>1. FullInv /\ [Next]_vars => FullInv'
  BY FullStep
<1>2. FullInv => BooksFollowChain
  BY DEF FullInv, BookInv, RowGood, BooksFollowChain, Sent
<1> QED
  BY <1>1, <1>2, FullInit, PTL DEF Spec

\* Under the same assumptions no PENDING row ever carries an identifier the
\* webhook or the confirm-transaction job would look it up by.
THEOREM PendingNeverTracked ==
  ASSUME ~LostAnswers, Distinguishable PROVE Spec => []PendingUntracked
<1>1. FullInv /\ [Next]_vars => FullInv'
  BY FullStep
<1>2. FullInv => PendingUntracked
  BY DEF FullInv, BookInv, RowGood, PendingUntracked
<1> QED
  BY <1>1, <1>2, FullInit, PTL DEF Spec

\* Under the same assumptions no late caller, crash or sweep ever undoes a
\* confirmation or replaces a recorded hash.
THEOREM ConfirmationsStay ==
  ASSUME ~LostAnswers, Distinguishable PROVE Spec => ConfirmedIsFinal
<1>1. FullInv /\ [Next]_vars => FullInv'
  BY FullStep
<1>2. FullInv /\ [Next]_vars =>
        [\A k \in Keys : row[k].status = "CONFIRMED" =>
           /\ row'[k].status = "CONFIRMED"
           /\ row[k].txHash # 0 => row'[k].txHash = row[k].txHash]_vars
  BY FullStep DEF RowsFinal
<1> QED
  BY <1>1, <1>2, FullInit, PTL DEF Spec, ConfirmedIsFinal

-----------------------------------------------------------------------------
(* The abstract payments. *)

\* Recording a debit for a payment that was made books it, once.
LEMMA DebitBooks ==
  ASSUME FullInv, NEW k \in Keys, row[k].status = "CONFIRMED",
         RecordDebit(k, Amount[k]), UNCHANGED chain
  PROVE  Abs!Book(k) \/ UNCHANGED <<chain, debited, balance>>
<1>1. Abs!Paid(k)
  BY DEF FullInv, BookInv, RowGood, Abs!Paid
<1>2. balance \in Nat /\ Amount[k] \in Nat
  BY AmountAssumption DEF FullInv, TypeInv, BooksOK
<1> QED
  BY <1>1, <1>2 DEF RecordDebit, Recorded, Abs!Book

LEMMA BookedStep ==
  ASSUME FullInv, [Next]_vars
  PROVE  Abs!Next \/ UNCHANGED <<chain, debited, balance>>
<1>1. ASSUME NEW c \in Callers, Debit(c)
      PROVE  Abs!Next \/ UNCHANGED <<chain, debited, balance>>
  <2>1. call[c].pc = "debit" /\ call[c].key \in Keys
    BY <1>1, BusyKey DEF Debit, FullInv, TypeInv
  <2>2. call[c].target = call[c].key /\ row[call[c].key].status = "CONFIRMED"
    BY <2>1 DEF FullInv, BookInv, CallGood, Answered, Recording
  <2> QED
    BY <1>1, <2>1, <2>2, DebitBooks DEF Debit, Abs!Next
<1>2. CASE SweepDebit
  <2>1. sweep.key \in Keys /\ row[sweep.key].status = "CONFIRMED"
    BY <1>2 DEF SweepDebit, FullInv, TypeInv, SweepOK, BookInv, SweepGood
  <2> QED
    BY <1>2, <2>1, DebitBooks DEF SweepDebit, Abs!Next
<1>3. ASSUME NEW c \in Callers, Accept(c) PROVE Abs!Next
  <2>1. call[c].key \in Keys /\ call[c].pc = "submit"
    BY <1>3, BusyKey DEF Accept, FullInv, TypeInv
  <2>2. ~Sent(call[c].key)
    BY <2>1 DEF FullInv, SendInv
  <2>3. Abs!Pay(call[c].key)
    BY <1>3, <2>2 DEF Accept, Sent, Abs!Pay, Abs!Paid
  <2> QED
    BY <2>1, <2>3 DEF Abs!Next
<1>4. CASE ~SweepDebit /\ ~\E c \in Callers : Debit(c) \/ Accept(c)
  BY <1>4 DEF Next, vars, Step, Crash, Begin, Find, Create, Claim, Refuse,
     LoseAnswer, Unclaim, Answer, MarkConfirmed, WriteField, Pick, SweepStep,
     List, ConfirmFromMatch, SweepCrash
<1> QED
  BY <1>1, <1>2, <1>3, <1>4

\* sendPayment and the sweep together implement the abstract payments: every
\* step makes one new transfer, takes one made payment from the bucket for the
\* first time, or changes neither.
THEOREM PaymentsImplemented ==
  ASSUME ~LostAnswers, Distinguishable PROVE Spec => ImplementsPayments
<1>1. Init => Abs!Init
  BY DEF Init, Abs!Init
<1>2. FullInv /\ [Next]_vars => FullInv'
  BY FullStep
<1>3. FullInv /\ [Next]_vars => [Abs!Next]_<<chain, debited, balance>>
  BY BookedStep
<1> QED
  BY <1>1, <1>2, <1>3, FullInit, PTL DEF Spec, ImplementsPayments, Abs!AbsSpec

-----------------------------------------------------------------------------
(* What callers see of a payment, with answers lost or not. *)

\* The identifiers a row holds are those of transfers of its own payment.
OwnIds(r, k, ch) ==
  /\ r.txHash # 0 => r.txHash \in DOMAIN ch /\ ch[r.txHash] = k
  /\ r.circleTransactionId > 0 =>
       r.circleTransactionId \in DOMAIN ch /\ ch[r.circleTransactionId] = k
  /\ r.circleTransactionId < 0 =>
       -r.circleTransactionId \in DOMAIN ch /\ ch[-r.circleTransactionId] = k

\* A caller that was not refused has its own transfer; before it submits, none.
OwnTransfer(r, ch) ==
  /\ r.pc \in Answered \cup {"answer"} =>
       r.transfer \in DOMAIN ch /\ ch[r.transfer] = r.key
  /\ r.pc \in {"find", "create", "claim", "submit"} => r.transfer = 0

\* A row that nobody has claimed says FAILED, or its payment was never made.
Unclaimed(k) ==
  ~row[k].submitted =>
    row[k].status = "FAILED" \/ (row[k].status # "CONFIRMED" /\ ~Sent(k))

OwnMatch ==
  sweep.pc = "claim" => sweep.match \in DOMAIN chain /\ chain[sweep.match] = sweep.key

SeenInv ==
  /\ \A k \in Keys : OwnIds(row[k], k, chain) /\ Unclaimed(k)
  /\ \A c \in Callers : OwnTransfer(call[c], chain)
  /\ OwnMatch

LossyInv == TypeInv /\ ClaimInv /\ SeenInv

LEMMA LossyInit == Init => LossyInv
<1>1. Init => SeenInv
  BY DEF Init, SeenInv, OwnIds, OwnTransfer, Unclaimed, OwnMatch, NoRow, IdleCall,
     IdleSweep, Sent, Answered
<1> QED
  BY <1>1, TypeInit, ClaimInit DEF LossyInv

\* No other row holds an identifier of a caller's own transfer.
LEMMA OwnHasNoHolders ==
  ASSUME LossyInv, NEW k \in Keys, NEW v \in DOMAIN chain, chain[v] = k
  PROVE  /\ Holders(k, "txHash", v) = {}
         /\ Holders(k, "circleTransactionId", v) = {}
<1>1. v \in Nat /\ v > 0
  BY DEF LossyInv, TypeInv
<1>2. ASSUME NEW h \in Keys, h # k
      PROVE  row[h].txHash # v /\ row[h].circleTransactionId # v
  BY <1>1, <1>2 DEF LossyInv, SeenInv, OwnIds
<1> QED
  BY <1>2 DEF Holders

\* So a field of the caller's own row is given its own transfer.
LEMMA OwnWrite ==
  ASSUME LossyInv, NEW c \in Callers, NEW f, NEW next,
         \/ f = "txHash" /\ next = "circleTransactionId"
         \/ f = "circleTransactionId" /\ next = "debit",
         WriteField(c, f, next)
  PROVE  /\ call[c].pc = f /\ call[c].key \in Keys
         /\ call[c].transfer \in DOMAIN chain /\ chain[call[c].transfer] = call[c].key
         /\ row' = [row EXCEPT ![call[c].key][f] = call[c].transfer]
         /\ Goto(c, next) /\ UNCHANGED chain
<1>1. call[c].pc = f
  BY DEF WriteField
<1>2. call[c].key \in Keys
  BY <1>1, BusyKey DEF LossyInv, TypeInv
<1>3. call[c].transfer \in DOMAIN chain /\ chain[call[c].transfer] = call[c].key
  BY <1>1 DEF LossyInv, SeenInv, OwnTransfer, Answered
<1>4. Holders(call[c].key, f, call[c].transfer) = {}
  BY <1>2, <1>3, OwnHasNoHolders
<1> QED
  BY <1>1, <1>2, <1>3, <1>4 DEF WriteField

\* One row is written.
LEMMA OneOwnRow ==
  ASSUME LossyInv, UNCHANGED chain, NEW k \in Keys, NEW r,
         row' = [row EXCEPT ![k] = r], OwnIds(r, k, chain),
         r.submitted \/ r.status = "FAILED" \/ (r.status # "CONFIRMED" /\ ~Sent(k))
  PROVE  \A j \in Keys : OwnIds(row'[j], j, chain') /\ Unclaimed(j)'
<1>1. row \in [Keys -> RowType]
  BY DEF LossyInv, TypeInv, RowsOK
<1>2. row'[k] = r /\ \A j \in Keys : j # k => row'[j] = row[j]
  BY <1>1
<1>3. \A j \in Keys : Sent(j)' <=> Sent(j)
  BY DEF Sent
<1> QED
  BY <1>2, <1>3 DEF LossyInv, SeenInv, Unclaimed

LEMMA SameOwnRows ==
  ASSUME LossyInv, UNCHANGED <<chain, row>>
  PROVE  \A j \in Keys : OwnIds(row'[j], j, chain') /\ Unclaimed(j)'
  BY DEF LossyInv, SeenInv, Unclaimed, Sent

LEMMA OwnCallerRows ==
  ASSUME LossyInv, NEW c \in Callers,
         Step(c) \/ Crash(c) \/ (\E k \in Keys : Begin(c, k))
  PROVE  \A j \in Keys : OwnIds(row'[j], j, chain') /\ Unclaimed(j)'
<1> DEFINE k == call[c].key
<1>b. call[c].pc # "idle" => k \in Keys
  BY BusyKey DEF LossyInv, TypeInv
<1>t. k \in Keys => row[k] \in RowType /\ OwnIds(row[k], k, chain) /\ Unclaimed(k)
  BY DEF LossyInv, TypeInv, RowsOK, SeenInv
<1>h. call[c].pc \in HoldingPcs => row[k].submitted
  BY HoldingMeans DEF LossyInv, ClaimInv
<1>1. CASE Create(c) /\ row[k].status = "ABSENT"
  <2>1. row' = [row EXCEPT ![k] = NewRow] /\ k \in Keys /\ UNCHANGED chain
    BY <1>1, <1>b DEF Create
  <2>2. ~Sent(k)
    BY <1>1, <1>t, <2>1 DEF LossyInv, ClaimInv, Unclaimed
  <2>3. OwnIds(NewRow, k, chain) /\ NewRow.status = "PENDING"
    BY DEF OwnIds, NewRow, NoRow
  <2> QED
    BY <2>1, <2>2, <2>3, OneOwnRow
<1>2. CASE Claim(c) /\ ~row[k].submitted
  <2> DEFINE r == [row[k] EXCEPT !.status = "PENDING", !.submitted = TRUE,
                                 !.since = Len(chain)]
  <2>1. row' = [row EXCEPT ![k] = r] /\ k \in Keys /\ UNCHANGED chain
    BY <1>2, <1>b DEF Claim, Claimable
  <2>2. r.submitted /\ OwnIds(r, k, chain)
    BY <1>t, <2>1 DEF RowType, OwnIds
  <2> HIDE DEF r
  <2> QED
    BY <2>1, <2>2, OneOwnRow
<1>3. CASE Unclaim(c)
  <2> DEFINE r == [row[k] EXCEPT !.status = "FAILED", !.submitted = FALSE]
  <2>1. row' = [row EXCEPT ![k] = r] /\ k \in Keys /\ UNCHANGED chain
    BY <1>3, <1>b DEF Unclaim
  <2>2. r.status = "FAILED" /\ OwnIds(r, k, chain)
    BY <1>t, <2>1 DEF RowType, OwnIds
  <2> HIDE DEF r
  <2> QED
    BY <2>1, <2>2, OneOwnRow
<1>4. CASE MarkConfirmed(c)
  <2> DEFINE r == [row[k] EXCEPT !.status = "CONFIRMED"]
  <2>1. row' = [row EXCEPT ![k] = r] /\ k \in Keys /\ UNCHANGED chain
    BY <1>4, <1>b DEF MarkConfirmed
  <2>2. r.submitted /\ OwnIds(r, k, chain)
    BY <1>4, <1>t, <1>h, <2>1 DEF RowType, OwnIds, MarkConfirmed, HoldingPcs
  <2> HIDE DEF r
  <2> QED
    BY <2>1, <2>2, OneOwnRow
<1>5. ASSUME NEW f, NEW next, WriteField(c, f, next),
             \/ f = "txHash" /\ next = "circleTransactionId"
             \/ f = "circleTransactionId" /\ next = "debit"
      PROVE  \A j \in Keys : OwnIds(row'[j], j, chain') /\ Unclaimed(j)'
  <2> DEFINE v == call[c].transfer
             r == [row[k] EXCEPT ![f] = v]
  <2>1. /\ call[c].pc = f /\ k \in Keys /\ v \in DOMAIN chain /\ chain[v] = k
        /\ row' = [row EXCEPT ![k] = r] /\ UNCHANGED chain
    BY <1>5, OwnWrite
  <2>2. v \in Nat /\ v > 0
    BY <2>1 DEF LossyInv, TypeInv
  <2>3. row[k].submitted
    BY <1>5, <1>h, <2>1 DEF HoldingPcs
  <2> HIDE DEF v
  <2>4. r.submitted /\ OwnIds(r, k, chain)
    BY <1>5, <1>t, <2>1, <2>2, <2>3 DEF RowType, OwnIds
  <2> HIDE DEF r
  <2> QED
    BY <2>1, <2>4, OneOwnRow
<1>6. CASE Accept(c)
  <2>1. /\ k \in Keys /\ row[k].submitted /\ UNCHANGED row
        /\ chain \in Seq(Keys) /\ chain' = Append(chain, k)
    BY <1>6, <1>b, <1>h DEF Accept, HoldingPcs, LossyInv, TypeInv
  <2>2. \A i \in DOMAIN chain : i \in DOMAIN chain' /\ chain'[i] = chain[i]
    BY <2>1
  <2>3. \A j \in Keys : Sent(j)' => Sent(j) \/ j = k
    BY <2>1 DEF Sent
  <2>4. \A j \in Keys : OwnIds(row'[j], j, chain')
    BY <2>1, <2>2 DEF LossyInv, SeenInv, OwnIds
  <2>5. \A j \in Keys : Unclaimed(j)'
    BY <2>1, <2>3 DEF LossyInv, SeenInv, Unclaimed
  <2> QED
    BY <2>4, <2>5
<1>7. CASE ~Accept(c) /\ UNCHANGED row
  <2>1. UNCHANGED chain
    BY <1>7 DEF Step, Crash, Begin, Find, Create, Claim, Refuse, LoseAnswer,
       Unclaim, Answer, MarkConfirmed, WriteField, Debit
  <2> QED
    BY <1>7, <2>1, SameOwnRows
<1>8. CASE ~(\/ (Create(c) /\ row[k].status = "ABSENT")
             \/ (Claim(c) /\ ~row[k].submitted)
             \/ Unclaim(c) \/ MarkConfirmed(c) \/ Accept(c)
             \/ WriteField(c, "txHash", "circleTransactionId")
             \/ WriteField(c, "circleTransactionId", "debit"))
  <2>1. UNCHANGED row
    BY <1>8 DEF Step, Crash, Begin, Find, Create, Claim, Claimable, Refuse, LoseAnswer,
       Answer, Debit
  <2> QED
    BY <1>7, <1>8, <2>1
<1> QED
  BY <1>1, <1>2, <1>3, <1>4, <1>5, <1>6, <1>8

LEMMA OwnSweepRows ==
  ASSUME LossyInv, (\E k \in Keys : Pick(k)) \/ SweepStep \/ SweepCrash
  PROVE  \A j \in Keys : OwnIds(row'[j], j, chain') /\ Unclaimed(j)'
<1>0. UNCHANGED chain
  BY SweepEffect DEF LossyInv
<1>1. CASE UNCHANGED row
  BY <1>0, <1>1, SameOwnRows
<1>2. ASSUME NEW known \in BOOLEAN, ConfirmFromMatch(known), row' # row
      PROVE  \A j \in Keys : OwnIds(row'[j], j, chain') /\ Unclaimed(j)'
  <2> DEFINE k == sweep.key
             n == IF known THEN sweep.match ELSE row[k].txHash
             m == -sweep.match
             r == [row[k] EXCEPT !.status = "CONFIRMED", !.txHash = n,
                                 !.circleTransactionId = m]
  <2>1. k \in Keys /\ sweep.match \in DOMAIN chain /\ chain[sweep.match] = k
    BY <1>2 DEF ConfirmFromMatch, LossyInv, TypeInv, SweepOK, SeenInv, OwnMatch
  <2>2. row' = [row EXCEPT ![k] = r] /\ row[k].status = "PENDING"
    BY <1>2 DEF ConfirmFromMatch
  <2>3. /\ row[k] \in RowType /\ OwnIds(row[k], k, chain) /\ Unclaimed(k)
        /\ chain \in Seq(Keys)
    BY <2>1 DEF LossyInv, TypeInv, RowsOK, SeenInv
  <2>4. sweep.match \in Nat /\ sweep.match > 0
    BY <2>1, <2>3
  <2>5. m \in Int /\ m < 0 /\ -m = sweep.match
    BY <2>4
  <2>6. n = row[k].txHash \/ (n \in DOMAIN chain /\ chain[n] = k)
    BY <2>1
  <2>7. row[k].submitted
    BY <2>1, <2>2, <2>3 DEF Unclaimed, Sent
  <2> HIDE DEF n, m
  <2>8. /\ r.submitted = row[k].submitted /\ r.txHash = n
        /\ r.circleTransactionId = m
    BY <2>3 DEF RowType
  <2> HIDE DEF r
  <2>9. OwnIds(r, k, chain)
    BY <2>1, <2>3, <2>5, <2>6, <2>8 DEF OwnIds
  <2> QED
    BY <1>0, <2>1, <2>2, <2>7, <2>8, <2>9, OneOwnRow
<1> QED
  BY <1>1, <1>2 DEF SweepStep, Pick, List, SweepDebit, SweepCrash

\* What a caller has made stays made.
LEMMA OwnTransferKept ==
  ASSUME LossyInv, ChainKept, NEW d \in Callers
  PROVE  OwnTransfer(call[d], chain')
  BY DEF LossyInv, SeenInv, OwnTransfer, ChainKept

LEMMA OwnCallerCalls ==
  ASSUME LossyInv, ChainKept, NEW c \in Callers,
         Step(c) \/ Crash(c) \/ (\E k \in Keys : Begin(c, k))
  PROVE  OwnTransfer(call'[c], chain')
<1>a. call \in [Callers -> CallType] /\ chain \in Seq(Keys)
  BY DEF LossyInv, TypeInv, CallsOK
<1>b. OwnTransfer(call[c], chain') /\ call[c] \in CallType
  BY <1>a, OwnTransferKept
<1>c. \A r : r.pc \in {"idle", "unclaim"} => OwnTransfer(r, chain')
  BY DEF OwnTransfer, Answered
<1>1. CASE Accept(c)
  <2>1. /\ call'[c].pc = "answer" /\ call'[c].key = call[c].key
        /\ call'[c].transfer = Len(chain) + 1 /\ call[c].key \in Keys
    BY <1>1, <1>a, BusyKey DEF Accept, CallType, LossyInv, TypeInv
  <2>2. Len(chain) + 1 \in DOMAIN chain' /\ chain'[Len(chain) + 1] = call[c].key
    BY <1>1, <1>a, <2>1 DEF Accept
  <2> QED
    BY <2>1, <2>2 DEF OwnTransfer, Answered
<1>2. CASE Answer(c)
  <2>1. /\ call'[c].pc = "confirm" /\ call'[c].key = call[c].key
        /\ call'[c].transfer = call[c].transfer /\ call[c].pc = "answer"
    BY <1>2, <1>a DEF Answer, CallType
  <2> QED
    BY <1>b, <2>1 DEF OwnTransfer, Answered
<1>3. ASSUME NEW p, Goto(c, p),
             \/ call[c].pc \in Answered \cup {"answer"} /\ p \in Answered
             \/ /\ call[c].pc \in {"find", "create", "claim", "submit"}
                /\ p \in {"find", "create", "claim", "submit"}
      PROVE  OwnTransfer(call'[c], chain')
  <2>1. /\ call'[c].pc = p /\ call'[c].key = call[c].key
        /\ call'[c].transfer = call[c].transfer
    BY <1>3, <1>a DEF Goto, CallType
  <2> QED
    BY <1>3, <1>b, <2>1 DEF OwnTransfer, Answered
<1>4. ASSUME NEW k \in Keys, Begin(c, k) PROVE OwnTransfer(call'[c], chain')
  <2>1. call'[c].pc = "find" /\ call'[c].transfer = 0
    BY <1>4, <1>a DEF Begin, IdleCall
  <2> QED
    BY <2>1 DEF OwnTransfer, Answered
<1>5. ASSUME NEW p \in {"idle", "unclaim"}, call'[c].pc = p
      PROVE  OwnTransfer(call'[c], chain')
  BY <1>c, <1>5
<1>6. ASSUME Finish(c) \/ Goto(c, "unclaim") PROVE OwnTransfer(call'[c], chain')
  <2>1. call'[c].pc = "idle" \/ call'[c].pc = "unclaim"
    BY <1>6, <1>a DEF Finish, Goto, IdleCall, CallType
  <2> QED
    BY <1>5, <2>1
<1>7. CASE Find(c) \/ Create(c) \/ Claim(c) \/ MarkConfirmed(c)
  BY <1>3, <1>6, <1>7 DEF Find, Create, Claim, MarkConfirmed, Answered
<1>8. CASE Refuse(c) \/ LoseAnswer(c) \/ Unclaim(c) \/ Debit(c) \/ Crash(c)
  BY <1>6, <1>8 DEF Refuse, LoseAnswer, Unclaim, Debit, Crash
<1>9. CASE \/ WriteField(c, "txHash", "circleTransactionId")
           \/ WriteField(c, "circleTransactionId", "debit")
  BY <1>3, <1>9, OwnWrite DEF Answered
<1> QED
  BY <1>1, <1>2, <1>4, <1>7, <1>8, <1>9 DEF Step

\* With payments that can be told apart, the sweep finds only their own
\* transfers.
LEMMA OwnMatchStep ==
  ASSUME Distinguishable, LossyInv, ChainKept, [Next]_vars
  PROVE  OwnMatch'
<1>a. OwnMatch /\ chain \in Seq(Keys) /\ SweepOK
  BY DEF LossyInv, SeenInv, TypeInv
<1>1. CASE UNCHANGED sweep
  BY <1>1, <1>a DEF OwnMatch, ChainKept
<1>2. CASE sweep' = IdleSweep
  BY <1>2 DEF OwnMatch, IdleSweep
<1>3. CASE List /\ sweep' # IdleSweep
  <2>1. PICK i \in Candidates(sweep.key, sweep.since) :
          sweep' = [sweep EXCEPT !.pc = "claim", !.match = i]
    BY <1>3 DEF List
  <2>2. i \in DOMAIN chain /\ Alike(chain[i], sweep.key) /\ sweep.key \in Keys
    BY <1>3, <1>a DEF Candidates, List, SweepOK
  <2>3. chain[i] = sweep.key
    BY <1>a, <2>2 DEF Alike, Distinguishable
  <2>4. sweep'.match = i /\ sweep'.key = sweep.key
    BY <1>a, <2>1 DEF SweepOK
  <2> QED
    BY <1>3, <2>2, <2>3, <2>4 DEF OwnMatch, List
<1>4. ASSUME NEW known \in BOOLEAN, ConfirmFromMatch(known), sweep' # IdleSweep
      PROVE  OwnMatch'
  <2>1. sweep'.pc = "debit"
    BY <1>4, <1>a DEF ConfirmFromMatch, SweepOK
  <2> QED
    BY <2>1 DEF OwnMatch
<1>5. ASSUME NEW k \in Keys, Pick(k) PROVE OwnMatch'
  BY <1>5 DEF Pick, OwnMatch
<1>6. ASSUME NEW c \in Callers,
             Step(c) \/ Crash(c) \/ (\E k \in Keys : Begin(c, k))
      PROVE  UNCHANGED sweep
  BY <1>6 DEF Step, Crash, Begin, Find, Create, Claim, Accept, Refuse, LoseAnswer,
     Unclaim, Answer, MarkConfirmed, WriteField, Debit
<1> QED
  BY <1>1, <1>2, <1>3, <1>4, <1>5, <1>6
  DEF Next, SweepStep, SweepDebit, SweepCrash, vars

LEMMA LossyStep ==
  ASSUME Distinguishable, LossyInv, [Next]_vars
  PROVE  LossyInv'
<1>1. TypeInv' /\ ClaimInv' /\ ChainKept
  BY TypeStep, ClaimStep, ChainMonotone DEF LossyInv
<1> SUFFICES SeenInv'
  BY <1>1 DEF LossyInv
<1>2. OwnMatch'
  BY <1>1, OwnMatchStep
<1>3. ASSUME NEW c \in Callers,
             Step(c) \/ Crash(c) \/ (\E k \in Keys : Begin(c, k))
      PROVE  SeenInv'
  <2>1. \A j \in Keys : OwnIds(row'[j], j, chain') /\ Unclaimed(j)'
    BY <1>3, OwnCallerRows
  <2>2. \A d \in Callers : d # c => call'[d] = call[d]
    BY <1>3, OthersKept DEF Others, LossyInv
  <2>3. \A d \in Callers : OwnTransfer(call'[d], chain')
    BY <1>1, <1>3, <2>2, OwnCallerCalls, OwnTransferKept
  <2> QED
    BY <1>2, <2>1, <2>3 DEF SeenInv
<1>4. CASE (\E k \in Keys : Pick(k)) \/ SweepStep \/ SweepCrash
  <2>1. \A j \in Keys : OwnIds(row'[j], j, chain') /\ Unclaimed(j)'
    BY <1>4, OwnSweepRows
  <2>2. \A d \in Callers : OwnTransfer(call'[d], chain')
    BY <1>1, <1>4, SweepEffect, OwnTransferKept DEF LossyInv
  <2> QED
    BY <1>2, <2>1, <2>2 DEF SeenInv
<1>5. CASE UNCHANGED vars
  BY <1>1, <1>2, <1>5, SameOwnRows, OwnTransferKept DEF vars, SeenInv
<1> QED
  BY <1>3, <1>4, <1>5 DEF Next

\* The transfers of a payment can be counted, and one more is one more.
LEMMA MadeFinite ==
  ASSUME LossyInv, NEW k \in Keys
  PROVE  IsFiniteSet(Made(k)) /\ Cardinality(Made(k)) \in Nat
<1>1. chain \in Seq(Keys) /\ Len(chain) \in Nat
  BY DEF LossyInv, TypeInv
<1>2. IsFiniteSet(1..Len(chain))
  BY <1>1, FS_Interval
<1>3. Made(k) \subseteq 1..Len(chain)
  BY <1>1 DEF Made
<1>4. IsFiniteSet(Made(k))
  BY <1>2, <1>3, FS_Subset
<1> QED
  BY <1>4, FS_CardinalityType

LEMMA OneMore ==
  ASSUME LossyInv, NEW k \in Keys, chain' = Append(chain, k)
  PROVE  Cardinality(Made(k))' = Cardinality(Made(k)) + 1
<1>1. chain \in Seq(Keys) /\ Len(chain) \in Nat
  BY DEF LossyInv, TypeInv
<1>2. Made(k)' = Made(k) \cup {Len(chain) + 1}
  BY <1>1 DEF Made
<1>3. Len(chain) + 1 \notin Made(k)
  BY <1>1 DEF Made
<1>4. Cardinality(Made(k) \cup {Len(chain) + 1}) = Cardinality(Made(k)) + 1
  BY <1>3, MadeFinite, FS_AddElement
<1> QED
  BY <1>2, <1>4

LEMMA MadeMeansSent ==
  ASSUME LossyInv, NEW k \in Keys, Sent(k)
  PROVE  Cardinality(Made(k)) > 0
<1>1. Made(k) # {}
  BY DEF Sent, Made
<1>2. Cardinality(Made(k)) # 0
  BY <1>1, MadeFinite, FS_EmptySet
<1> QED
  BY <1>2, MadeFinite

\* An outcome that leaves what is seen is one of the caller's.
LEMMA Reaches ==
  ASSUME NEW c \in Callers, Others(c), NEW k \in Keys, call[c].key = k,
         NEW from, Place(call[c]) = from, NEW outcomes, NEW out \in outcomes,
         Seen(k)' = [out.payment EXCEPT !.lost = 0],
         Place(call'[c]) = IF out.pc \in {"sent", "failed"} THEN "done" ELSE out.pc
  PROVE  Comes(c, k, from, outcomes)
  BY DEF Comes, Others

\* What the steps can leave of a payment, written out.
LEMMA SeenRecord ==
  ASSUME NEW k \in Keys
  PROVE  /\ [Seen(k) EXCEPT !.lost = 0] = Seen(k)
         /\ \A s : [[Seen(k) EXCEPT !.row = s] EXCEPT !.lost = 0]
                     = [Seen(k) EXCEPT !.row = s]
         /\ [[Seen(k) EXCEPT !.made = @ + 1] EXCEPT !.lost = 0]
              = [Seen(k) EXCEPT !.made = @ + 1]
         /\ \A s : [[Seen(k) EXCEPT !.row = s, !.lost = @ + 1] EXCEPT !.lost = 0]
                     = [Seen(k) EXCEPT !.row = s]
<1>1. PICK x, m : Seen(k) = [row |-> x, made |-> m, lost |-> 0]
  BY DEF Seen
<1>2. [Seen(k) EXCEPT !.lost = 0] = Seen(k)
  BY <1>1
<1>3. ASSUME NEW s
      PROVE  [[Seen(k) EXCEPT !.row = s] EXCEPT !.lost = 0] = [Seen(k) EXCEPT !.row = s]
  <2>1. [Seen(k) EXCEPT !.row = s] = [row |-> s, made |-> m, lost |-> 0]
    BY <1>1
  <2> QED
    BY <2>1
<1>4. [[Seen(k) EXCEPT !.made = @ + 1] EXCEPT !.lost = 0] = [Seen(k) EXCEPT !.made = @ + 1]
  <2>1. ASSUME NEW n
        PROVE  [[Seen(k) EXCEPT !.made = n] EXCEPT !.lost = 0] = [Seen(k) EXCEPT !.made = n]
    <3>1. [Seen(k) EXCEPT !.made = n] = [row |-> x, made |-> n, lost |-> 0]
      BY <1>1
    <3> QED
      BY <3>1
  <2> QED
    BY <2>1, Zenon
<1>5. ASSUME NEW s, NEW n
      PROVE  [[Seen(k) EXCEPT !.row = s, !.lost = n] EXCEPT !.lost = 0]
               = [Seen(k) EXCEPT !.row = s]
  <2> DEFINE q == [Seen(k) EXCEPT !.row = s]
  <2>1. q = [row |-> s, made |-> m, lost |-> 0]
    BY <1>1
  <2> HIDE DEF q
  <2>2. [q EXCEPT !.lost = n] = [row |-> s, made |-> m, lost |-> n]
    BY <2>1
  <2>3. [[row |-> s, made |-> m, lost |-> n] EXCEPT !.lost = 0]
          = [row |-> s, made |-> m, lost |-> 0]
    OBVIOUS
  <2>4. [[q EXCEPT !.lost = n] EXCEPT !.lost = 0] = q
    BY <2>1, <2>2, <2>3, Zenon
  <2> QED
    BY <2>4, Zenon DEF q
<1> QED
  BY <1>2, <1>3, <1>4, <1>5

LEMMA SameSeen ==
  ASSUME NEW k \in Keys, UNCHANGED chain, RowSeen(row'[k]) = RowSeen(row[k])
  PROVE  Seen(k)' = Seen(k)
<1>1. Made(k)' = Made(k)
  BY DEF Made
<1> QED
  BY <1>1 DEF Seen, RowSeen

\* A step of one caller that is not seen of payment k.
LEMMA UnseenStep ==
  ASSUME NEW c \in Callers, Others(c), NEW k \in Keys, Seen(k)' = Seen(k),
         \/ call'[c].key # k
         \/ Place(call'[c]) \in {"next", "done"}
         \/ call[c].key = k /\ Place(call'[c]) = Place(call[c])
  PROVE  Unseen(k)
  BY DEF Unseen, Others

\* The steps that write nothing a caller could see.
LEMMA QuietStep ==
  ASSUME LossyInv, NEW c \in Callers,
         \/ \E k \in Keys : Begin(c, k)
         \/ Find(c) \/ Create(c) \/ Refuse(c) \/ LoseAnswer(c) \/ Answer(c)
         \/ Debit(c) \/ Crash(c)
         \/ WriteField(c, "txHash", "circleTransactionId")
         \/ WriteField(c, "circleTransactionId", "debit"),
         NEW k \in Keys
  PROVE  Unseen(k)
<1>1. /\ call \in [Callers -> CallType] /\ row \in [Keys -> RowType]
      /\ call[c].pc # "idle" => call[c].key \in Keys
      /\ UNCHANGED chain
  BY BusyKey, OwnWrite DEF LossyInv, TypeInv, CallsOK, RowsOK, Begin, Find, Create,
     Refuse, LoseAnswer, Answer, Debit, Crash
<1>2. Others(c)
  BY OthersKept DEF LossyInv, Step
<1>3. ASSUME UNCHANGED row,
             \/ Place(call'[c]) \in {"next", "done"}
             \/ call'[c].key = call[c].key /\ Place(call'[c]) = Place(call[c])
      PROVE  Unseen(k)
  <2>1. Seen(k)' = Seen(k)
    BY <1>1, <1>3, SameSeen
  <2> QED
    BY <1>2, <1>3, <2>1, UnseenStep
<1>4. ASSUME NEW j \in Keys, Begin(c, j) PROVE Unseen(k)
  <2>1. call'[c].pc = "find" /\ UNCHANGED row
    BY <1>1, <1>4 DEF Begin, IdleCall
  <2> QED
    BY <1>3, <2>1 DEF Place
<1>5. CASE Find(c)
  <2>1. call'[c].pc \in {"create", "claim", "idle"} /\ UNCHANGED row
    BY <1>1, <1>5 DEF Find, Goto, Finish, IdleCall, CallType
  <2> QED
    BY <1>3, <2>1 DEF Place
<1>6. CASE Create(c)
  <2>1. call'[c].pc \in {"claim", "find"}
    BY <1>1, <1>6 DEF Create, Goto, CallType
  <2>2. CASE UNCHANGED row
    BY <1>3, <2>1, <2>2 DEF Place
  <2>3. CASE /\ row[call[c].key].status = "ABSENT"
             /\ row' = [row EXCEPT ![call[c].key] = NewRow]
    <3>1. ~row[call[c].key].submitted /\ call[c].key \in Keys
      BY <1>1, <1>6, <2>3 DEF Create, LossyInv, ClaimInv
    <3>2. RowSeen(NewRow) = "NONE" /\ RowSeen(row[call[c].key]) = "NONE"
      BY <2>3, <3>1 DEF RowSeen, NewRow, NoRow
    <3>3. RowSeen(row'[k]) = RowSeen(row[k])
      BY <1>1, <2>3, <3>1, <3>2
    <3>4. Seen(k)' = Seen(k)
      BY <1>1, <3>3, SameSeen
    <3> QED
      BY <1>2, <2>1, <3>4, UnseenStep DEF Place
  <2> QED
    BY <1>6, <2>2, <2>3 DEF Create
<1>7. CASE Refuse(c)
  <2>1. /\ call[c].pc = "submit" /\ call'[c].pc = "unclaim" /\ call'[c].key = call[c].key
        /\ call'[c].transfer = call[c].transfer /\ UNCHANGED row
    BY <1>1, <1>7 DEF Refuse, Goto, CallType
  <2>2. call[c].transfer = 0
    BY <2>1 DEF LossyInv, SeenInv, OwnTransfer
  <2> QED
    BY <1>3, <2>1, <2>2 DEF Place
<1>7a. CASE LoseAnswer(c)
  <2>1. /\ call[c].pc = "answer" /\ call'[c].pc = "unclaim" /\ call'[c].key = call[c].key
        /\ call'[c].transfer = call[c].transfer /\ UNCHANGED row
    BY <1>1, <1>7a DEF LoseAnswer, Goto, CallType
  <2>2. call[c].transfer \in DOMAIN chain /\ chain \in Seq(Keys)
    BY <2>1 DEF LossyInv, TypeInv, SeenInv, OwnTransfer
  <2>3. call[c].transfer # 0
    BY <2>2
  <2> QED
    BY <1>3, <2>1, <2>3 DEF Place
<1>8. CASE Answer(c)
  <2>1. /\ call[c].pc = "answer" /\ call'[c].pc = "confirm" /\ call'[c].key = call[c].key
        /\ UNCHANGED row
    BY <1>1, <1>8 DEF Answer, CallType
  <2> QED
    BY <1>3, <2>1 DEF Place
<1>9. CASE Debit(c) \/ Crash(c)
  <2>1. call'[c].pc = "idle" /\ UNCHANGED row
    BY <1>1, <1>9 DEF Debit, Crash, Finish, IdleCall
  <2> QED
    BY <1>3, <2>1 DEF Place
<1>10. ASSUME NEW f, NEW next, WriteField(c, f, next),
              \/ f = "txHash" /\ next = "circleTransactionId"
              \/ f = "circleTransactionId" /\ next = "debit"
       PROVE  Unseen(k)
  <2>1. /\ call[c].key \in Keys
        /\ row' = [row EXCEPT ![call[c].key][f] = call[c].transfer]
        /\ Goto(c, next)
    BY <1>10, OwnWrite
  <2>2. call'[c].pc \in {"circleTransactionId", "debit"}
    BY <1>1, <1>10, <2>1 DEF Goto, CallType
  <2>3. row'[k].status = row[k].status /\ row'[k].submitted = row[k].submitted
    BY <1>1, <1>10, <2>1 DEF RowType
  <2>4. Seen(k)' = Seen(k)
    BY <1>1, <2>3, SameSeen DEF RowSeen
  <2> QED
    BY <1>2, <2>2, <2>4, UnseenStep DEF Place
<1> QED
  BY <1>4, <1>5, <1>6, <1>7, <1>7a, <1>8, <1>9, <1>10

\* The compare-and-swap takes a free payment.
LEMMA ClaimSeen ==
  ASSUME LossyInv, NEW c \in Callers, Claim(c), NEW k \in Keys
  PROVE  Comes(c, k, "next", Keyed!Calls(Seen(k))) \/ Unseen(k)
<1>1. /\ call \in [Callers -> CallType] /\ row \in [Keys -> RowType]
      /\ call[c].key \in Keys /\ call[c].pc = "claim" /\ UNCHANGED chain
  BY BusyKey DEF LossyInv, TypeInv, CallsOK, RowsOK, Claim
<1>2. Others(c)
  BY OthersKept DEF LossyInv, Step
<1>3. CASE ~Claimable(call[c].key)
  <2>1. call'[c].pc = "idle" /\ UNCHANGED row
    BY <1>1, <1>3 DEF Claim, Finish, IdleCall
  <2>2. Seen(k)' = Seen(k)
    BY <1>1, <2>1, SameSeen
  <2> QED
    BY <1>2, <2>1, <2>2, UnseenStep DEF Place
<1>4. CASE Claimable(call[c].key)
  <2> PICK j \in Keys : j = call[c].key
    BY <1>1
  <2>1. /\ row' = [row EXCEPT ![j].status = "PENDING", ![j].submitted = TRUE,
                              ![j].since = Len(chain)]
        /\ call' = [call EXCEPT ![c].pc = "submit"]
    BY <1>4 DEF Claim, Goto
  <2>2. call'[c].pc = "submit" /\ call'[c].key = j
    BY <1>1, <2>1 DEF CallType
  <2>3. CASE j # k
    <3>1. row'[k] = row[k]
      BY <1>1, <2>1, <2>3
    <3>2. Seen(k)' = Seen(k)
      BY <1>1, <3>1, SameSeen
    <3> QED
      BY <1>2, <2>2, <2>3, <3>2, UnseenStep
  <2>4. CASE j = k
    <3>1. row'[k].status = "PENDING" /\ row'[k].submitted
      BY <1>1, <2>1, <2>4 DEF RowType
    <3>2. ~row[k].submitted /\ row[k].status # "CONFIRMED"
      BY <1>4, <2>4 DEF Claimable, LossyInv, SeenInv, Unclaimed
    <3>3. RowSeen(row[k]) \in {"NONE", "FAILED"} /\ RowSeen(row'[k]) = "CLAIMED"
      BY <3>1, <3>2 DEF RowSeen
    <3>4. Made(k)' = Made(k)
      BY <1>1 DEF Made
    <3>5. /\ Seen(k).row \in {"NONE", "FAILED"}
          /\ Seen(k)' = [Seen(k) EXCEPT !.row = "CLAIMED"]
      BY <3>3, <3>4 DEF Seen, RowSeen
    <3> DEFINE out == [pc |-> "submit", payment |-> [Seen(k) EXCEPT !.row = "CLAIMED"]]
    <3>6. out \in Keyed!Calls(Seen(k))
      BY <3>5 DEF Keyed!Calls, Keyed!Outcome, Keyed!Free
    <3>7. Seen(k)' = [out.payment EXCEPT !.lost = 0] /\ out.pc = "submit"
      BY <3>5, SeenRecord
    <3>8. Place(call[c]) = "next" /\ Place(call'[c]) = "submit"
      BY <1>1, <2>2 DEF Place
    <3> HIDE DEF out
    <3> QED
      BY <1>2, <2>4, <3>6, <3>7, <3>8, Reaches
  <2> QED
    BY <2>3, <2>4
<1> QED
  BY <1>3, <1>4

\* The provider's transfer is one more of the payment.
LEMMA AcceptSeen ==
  ASSUME LossyInv, NEW c \in Callers, Accept(c), NEW k \in Keys
  PROVE  Comes(c, k, "submit", Keyed!Submits(Seen(k))) \/ Unseen(k)
<1> PICK j \in Keys : j = call[c].key
  BY BusyKey DEF LossyInv, TypeInv, Accept
<1>1. /\ call \in [Callers -> CallType] /\ chain \in Seq(Keys)
      /\ call[c].pc = "submit" /\ UNCHANGED row
      /\ chain' = Append(chain, j)
  BY DEF LossyInv, TypeInv, CallsOK, Accept
<1>2. Others(c)
  BY OthersKept DEF LossyInv, Step
<1>3. call'[c].pc = "answer" /\ call'[c].key = j
  BY <1>1 DEF Accept, CallType
<1>4. CASE j # k
  <2>1. Made(k)' = Made(k)
    BY <1>1, <1>4 DEF Made
  <2>2. Seen(k)' = Seen(k)
    BY <1>1, <2>1 DEF Seen, RowSeen
  <2> QED
    BY <1>2, <1>3, <1>4, <2>2, UnseenStep
<1>5. CASE j = k
  <2>1. Cardinality(Made(k))' = Cardinality(Made(k)) + 1
    BY <1>1, <1>5, OneMore
  <2>2. Seen(k)' = [Seen(k) EXCEPT !.made = @ + 1]
    BY <1>1, <2>1 DEF Seen, RowSeen
  <2> DEFINE out == [pc |-> "accepted", payment |-> [Seen(k) EXCEPT !.made = @ + 1]]
  <2>3. out \in Keyed!Submits(Seen(k))
    BY DEF Keyed!Submits, Keyed!Outcome
  <2>4. Seen(k)' = [out.payment EXCEPT !.lost = 0] /\ out.pc = "accepted"
    BY <2>2, SeenRecord
  <2>5. Place(call[c]) = "submit" /\ Place(call'[c]) = "accepted"
    BY <1>1, <1>3 DEF Place
  <2> HIDE DEF out
  <2> QED
    BY <1>2, <1>5, <2>3, <2>4, <2>5, Reaches
<1> QED
  BY <1>4, <1>5

\* A refusal leaves a FAILED payment, and so does an answer that was lost.
LEMMA UnclaimSeen ==
  ASSUME LossyInv, NEW c \in Callers, Unclaim(c), NEW k \in Keys
  PROVE  \/ Comes(c, k, "submit", Keyed!Submits(Seen(k)))
         \/ Comes(c, k, "accepted", Keyed!Answers(Seen(k)))
         \/ Unseen(k)
<1> PICK j \in Keys : j = call[c].key
  BY BusyKey DEF LossyInv, TypeInv, Unclaim
<1>1. /\ call \in [Callers -> CallType] /\ row \in [Keys -> RowType]
      /\ call[c].pc = "unclaim" /\ UNCHANGED chain
      /\ row' = [row EXCEPT ![j].status = "FAILED", ![j].submitted = FALSE]
  BY DEF LossyInv, TypeInv, CallsOK, RowsOK, Unclaim
<1>2. Others(c)
  BY OthersKept DEF LossyInv, Step
<1>3. call'[c].pc = "idle"
  BY <1>1 DEF Unclaim, Finish, IdleCall
<1>4. CASE j # k
  <2>1. row'[k] = row[k]
    BY <1>1, <1>4
  <2>2. Seen(k)' = Seen(k)
    BY <1>1, <2>1, SameSeen
  <2> QED
    BY <1>2, <1>3, <2>2, UnseenStep DEF Place
<1>5. CASE j = k
  <2>1. row'[k].status = "FAILED" /\ ~row'[k].submitted
    BY <1>1, <1>5 DEF RowType
  <2>2. RowSeen(row'[k]) = "FAILED"
    BY <2>1 DEF RowSeen
  <2>3. Made(k)' = Made(k)
    BY <1>1 DEF Made
  <2>4. Seen(k)' = [Seen(k) EXCEPT !.row = "FAILED"]
    BY <2>2, <2>3 DEF Seen, RowSeen
  <2>5. Place(call'[c]) = "done"
    BY <1>3 DEF Place
  <2>6. CASE call[c].transfer = 0
    <3> DEFINE out == [pc |-> "failed", payment |-> [Seen(k) EXCEPT !.row = "FAILED"]]
    <3>1. out \in Keyed!Submits(Seen(k))
      BY DEF Keyed!Submits, Keyed!Outcome
    <3>2. Seen(k)' = [out.payment EXCEPT !.lost = 0] /\ out.pc = "failed"
      BY <2>4, SeenRecord
    <3>3. Place(call[c]) = "submit"
      BY <1>1, <2>6 DEF Place
    <3> HIDE DEF out
    <3> QED
      BY <1>2, <1>5, <2>5, <3>1, <3>2, <3>3, Reaches
  <2>7. CASE call[c].transfer # 0
    <3> DEFINE out == [pc |-> "failed",
                       payment |-> [Seen(k) EXCEPT !.row = "FAILED", !.lost = @ + 1]]
    <3>0. Seen(k).lost < 1
      BY DEF Seen
    <3>1. out \in Keyed!Answers(Seen(k))
      BY <3>0 DEF Keyed!Answers, Keyed!Unanswered, Keyed!Outcome
    <3>2. Seen(k)' = [out.payment EXCEPT !.lost = 0] /\ out.pc = "failed"
      BY <2>4, SeenRecord
    <3>3. Place(call[c]) = "accepted"
      BY <1>1, <2>7 DEF Place
    <3> HIDE DEF out
    <3> QED
      BY <1>2, <1>5, <2>5, <3>1, <3>2, <3>3, Reaches
  <2> QED
    BY <2>6, <2>7
<1> QED
  BY <1>4, <1>5

\* The first of the confirmation's writes is the one that is seen.
LEMMA MarkSeen ==
  ASSUME LossyInv, NEW c \in Callers, MarkConfirmed(c), NEW k \in Keys
  PROVE  Comes(c, k, "accepted", Keyed!Answers(Seen(k))) \/ Unseen(k)
<1> PICK j \in Keys : j = call[c].key
  BY BusyKey DEF LossyInv, TypeInv, MarkConfirmed
<1>1. /\ call \in [Callers -> CallType] /\ row \in [Keys -> RowType]
      /\ call[c].pc = "confirm" /\ UNCHANGED chain
      /\ row' = [row EXCEPT ![j].status = "CONFIRMED"]
  BY DEF LossyInv, TypeInv, CallsOK, RowsOK, MarkConfirmed
<1>2. Others(c)
  BY OthersKept DEF LossyInv, Step
<1>3. call'[c].pc = "txHash"
  BY <1>1 DEF MarkConfirmed, Goto, CallType
<1>4. CASE j # k
  <2>1. row'[k] = row[k]
    BY <1>1, <1>4
  <2>2. Seen(k)' = Seen(k)
    BY <1>1, <2>1, SameSeen
  <2> QED
    BY <1>2, <1>3, <2>2, UnseenStep DEF Place
<1>5. CASE j = k
  <2>1. RowSeen(row'[k]) = "CONFIRMED"
    BY <1>1, <1>5 DEF RowType, RowSeen
  <2>2. Made(k)' = Made(k)
    BY <1>1 DEF Made
  <2>3. Seen(k)' = Keyed!Confirmed(Seen(k))
    BY <2>1, <2>2 DEF Seen, RowSeen, Keyed!Confirmed
  <2> DEFINE out == [pc |-> "sent", payment |-> Keyed!Confirmed(Seen(k))]
  <2>4. out \in Keyed!Answers(Seen(k))
    BY DEF Keyed!Answers, Keyed!Outcome
  <2>5. Seen(k)' = [out.payment EXCEPT !.lost = 0] /\ out.pc = "sent"
    BY <2>3, SeenRecord DEF Keyed!Confirmed
  <2>6. Place(call[c]) = "accepted" /\ Place(call'[c]) = "done"
    BY <1>1, <1>3 DEF Place
  <2> HIDE DEF out
  <2> QED
    BY <1>2, <1>5, <2>4, <2>5, <2>6, Reaches
<1> QED
  BY <1>4, <1>5

\* The sweep confirms a payment in flight that was made.
LEMMA SweepSeen ==
  ASSUME LossyInv, (\E j \in Keys : Pick(j)) \/ SweepStep \/ SweepCrash, NEW k \in Keys
  PROVE  \/ /\ Keyed!Sweepable(Seen(k)) /\ Seen(k)' = Keyed!Confirmed(Seen(k))
            /\ UNCHANGED call
         \/ Unseen(k)
<1>1. UNCHANGED <<call, chain>>
  BY SweepEffect DEF LossyInv
<1>2. row \in [Keys -> RowType]
  BY DEF LossyInv, TypeInv, RowsOK
<1>3. ASSUME RowSeen(row'[k]) = RowSeen(row[k]) PROVE Unseen(k)
  <2>1. Seen(k)' = Seen(k)
    BY <1>1, <1>3, SameSeen
  <2> QED
    BY <1>1, <2>1 DEF Unseen
<1>4. CASE UNCHANGED row
  BY <1>3, <1>4
<1>5. ASSUME NEW known \in BOOLEAN, ConfirmFromMatch(known), row' # row
      PROVE  \/ /\ Keyed!Sweepable(Seen(k)) /\ Seen(k)' = Keyed!Confirmed(Seen(k))
                /\ UNCHANGED call
             \/ Unseen(k)
  <2> PICK j \in Keys : j = sweep.key
    BY <1>5 DEF ConfirmFromMatch, LossyInv, TypeInv, SweepOK
  <2>1. /\ sweep.pc = "claim" /\ row[j].status = "PENDING"
        /\ \E hash : row' = [row EXCEPT ![j].status = "CONFIRMED", ![j].txHash = hash,
                                        ![j].circleTransactionId = -sweep.match]
    BY <1>5 DEF ConfirmFromMatch
  <2>2. row'[j].status = "CONFIRMED" /\ \A i \in Keys : i # j => row'[i] = row[i]
    BY <1>2, <2>1 DEF RowType
  <2>3. CASE j # k
    BY <1>3, <2>2, <2>3
  <2>4. CASE j = k
    <3>1. Sent(k)
      BY <2>1, <2>4 DEF LossyInv, SeenInv, OwnMatch, Sent
    <3>2. row[k].submitted
      BY <2>1, <2>4, <3>1 DEF LossyInv, SeenInv, Unclaimed
    <3>3. RowSeen(row[k]) = "CLAIMED" /\ RowSeen(row'[k]) = "CONFIRMED"
      BY <2>1, <2>2, <2>4, <3>2 DEF RowSeen
    <3>4. Cardinality(Made(k)) > 0
      BY <3>1, MadeMeansSent
    <3>5. Made(k)' = Made(k)
      BY <1>1 DEF Made
    <3>6. Seen(k).row = "CLAIMED" /\ Seen(k).made > 0
      BY <3>3, <3>4 DEF Seen
    <3>7. Seen(k)' = Keyed!Confirmed(Seen(k))
      BY <3>3, <3>5 DEF Seen, RowSeen, Keyed!Confirmed
    <3> QED
      BY <1>1, <3>6, <3>7 DEF Keyed!Sweepable
  <2> QED
    BY <2>3, <2>4
<1>6. CASE (\E j \in Keys : Pick(j)) \/ List \/ SweepDebit \/ SweepCrash
  BY <1>4, <1>6 DEF Pick, List, SweepDebit, SweepCrash
<1> QED
  BY <1>4, <1>5, <1>6 DEF SweepStep

LEMMA KeyedStep ==
  ASSUME LossyInv, [Next]_vars, NEW k \in Keys
  PROVE  KeyedNext(k) \/ UNCHANGED vars
<1>1. ASSUME NEW c \in Callers, Step(c) \/ Crash(c) \/ (\E j \in Keys : Begin(c, j))
      PROVE  \/ Comes(c, k, "next", Keyed!Calls(Seen(k)))
             \/ Comes(c, k, "submit", Keyed!Submits(Seen(k)))
             \/ Comes(c, k, "accepted", Keyed!Answers(Seen(k)))
             \/ Unseen(k)
  BY <1>1, QuietStep, ClaimSeen, AcceptSeen, UnclaimSeen, MarkSeen DEF Step
<1>2. CASE (\E j \in Keys : Pick(j)) \/ SweepStep \/ SweepCrash
  BY <1>2, SweepSeen DEF KeyedNext
<1> QED
  BY <1>1, <1>2 DEF Next, KeyedNext

\* sendPayment and the sweep implement, for each key, the payment that payroll
\* and recurring transfers are built on, whether or not answers are lost: every
\* step is one of KeyedPayment's outcomes, of one caller or of the sweep, or is
\* not seen of it.
THEOREM KeyedPaymentImplemented ==
  ASSUME Distinguishable PROVE Spec => ImplementsKeyedPayment
<1>1. Init => \A k \in Keys : Seen(k) = Keyed!Unpaid
  <2> SUFFICES ASSUME Init, NEW k \in Keys PROVE Seen(k) = Keyed!Unpaid
    OBVIOUS
  <2>1. RowSeen(row[k]) = "NONE"
    BY DEF Init, NoRow, RowSeen
  <2>2. Made(k) = {}
    BY DEF Init, Made
  <2>3. Cardinality(Made(k)) = 0
    BY <2>2, FS_EmptySet
  <2> QED
    BY <2>1, <2>3 DEF Seen, Keyed!Unpaid
<1>2. LossyInv /\ [Next]_vars => LossyInv'
  BY LossyStep
<1>3. LossyInv /\ [Next]_vars => [\A k \in Keys : KeyedNext(k)]_vars
  BY KeyedStep
<1> QED
  BY <1>1, <1>2, <1>3, LossyInit, PTL DEF Spec, ImplementsKeyedPayment
=============================================================================
