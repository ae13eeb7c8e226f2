---------------------- MODULE IdempotentRequestProofs ----------------------
(***************************************************************************)
(* Proofs about IdempotentRequest, for any requests, payloads and buckets, *)
(* any number of repetitions, and any interleaving with crashes and        *)
(* expiry.                                                                 *)
(*                                                                         *)
(* PayInv: the payment of a key is SENDING as long as a request holds it,  *)
(* and free (absent or FAILED) only while no transfer of it was answered.  *)
(* AnswerInv: what is answered, stored or about to be is settled: for a    *)
(* payment it is the confirmed one (which is final, by PayInv), for a      *)
(* deposit all its buckets are booked, because what a request has still to *)
(* debit is what the deposit named less what is booked.                    *)
(***************************************************************************)
EXTENDS IdempotentRequest, TLAPS

RecordType ==
  [status : {"ABSENT", "PENDING", "COMPLETED", "FAILED"},
   hash : Payloads \cup {NoPayload}, response : Nat, id : Nat, expired : BOOLEAN]

PaymentType ==
  [status : {"ABSENT", "SENDING", "CONFIRMED", "FAILED"}, transfer : Nat]

RequestType ==
  [pc : RequestPcs, payload : Payloads \cup {NoPayload}, transfer : Nat,
   left : SUBSET Buckets, seen : Nat]

\* A request that runs has a payload.
TypeInv ==
  /\ TypeOK
  /\ \A r \in Requests : request[r].pc # "idle" => request[r].payload \in Payloads

-----------------------------------------------------------------------------
(* Types. *)

LEMMA TypeInit == Init => TypeInv
<1> SUFFICES ASSUME Init PROVE TypeInv
  OBVIOUS
<1>1. NoRecord \in RecordType /\ NoPayment \in PaymentType /\ IdleRequest \in RequestType
  BY DEF NoRecord, NoPayment, IdleRequest, RecordType, PaymentType, RequestType, RequestPcs
<1> QED
  BY <1>1, DebitsAssumption, RequestsAssumption
     DEF Init, TypeInv, TypeOK, RecordType, PaymentType, RequestType, IdleRequest

\* What a request takes from a bucket is a number.
LEMMA TakenNat ==
  ASSUME endpoint \in Endpoints, NEW p \in Payloads, NEW b \in Buckets
  PROVE  Taken(p, b) \in Nat
  BY DebitsAssumption DEF Taken

\* What a step of a request leaves behind.
StepTypes(r) ==
  /\ record' \in RecordType
  /\ payment' \in PaymentType
  /\ effects' \in Seq(Payloads)
  /\ lost' \subseteq Nat
  /\ balance' \in [Buckets -> Nat]
  /\ booked' \subseteq Nat \X Buckets
  /\ answers' \subseteq [payload : Payloads, transfer : Nat]
  /\ \E q \in RequestType :
       /\ request' = [request EXCEPT ![r] = q]
       /\ q.pc # "idle" => q.payload \in Payloads

\* Moving a request to another place keeps the rest of it.
LEMMA GotoType ==
  ASSUME TypeInv, NEW r \in Requests, NEW pc \in RequestPcs, Goto(r, pc),
         request[r].pc # "idle"
  PROVE  \E q \in RequestType :
           /\ request' = [request EXCEPT ![r] = q]
           /\ q.pc # "idle" => q.payload \in Payloads
<1> DEFINE q == [request[r] EXCEPT !.pc = pc]
<1>1. request[r] \in RequestType /\ request[r].payload \in Payloads
  BY DEF TypeInv, TypeOK, RequestType
<1>2. q \in RequestType /\ q.payload \in Payloads
  BY <1>1 DEF RequestType
<1>3. request' = [request EXCEPT ![r] = q]
  BY DEF Goto
<1> QED
  BY <1>2, <1>3

LEMMA LookType ==
  ASSUME TypeInv, NEW r \in Requests, NEW pc \in RequestPcs, Look(r, pc),
         request[r].pc # "idle"
  PROVE  \E q \in RequestType :
           /\ request' = [request EXCEPT ![r] = q]
           /\ q.pc # "idle" => q.payload \in Payloads
<1> DEFINE q == [request[r] EXCEPT !.pc = pc, !.seen = record.id]
<1>1. request[r] \in RequestType /\ request[r].payload \in Payloads /\ record.id \in Nat
  BY DEF TypeInv, TypeOK, RequestType
<1>2. q \in RequestType /\ q.payload \in Payloads
  BY <1>1 DEF RequestType
<1>3. request' = [request EXCEPT ![r] = q]
  BY DEF Look
<1> QED
  BY <1>2, <1>3

LEMMA FinishType ==
  ASSUME NEW r \in Requests, Finish(r)
  PROVE  \E q \in RequestType :
           /\ request' = [request EXCEPT ![r] = q]
           /\ q.pc # "idle" => q.payload \in Payloads
<1>1. IdleRequest \in RequestType /\ IdleRequest.pc = "idle"
  BY DEF IdleRequest, RequestType, RequestPcs
<1> QED
  BY <1>1 DEF Finish

LEMMA RespondType ==
  ASSUME TypeInv, NEW r \in Requests, NEW t \in Nat, Respond(r, t),
         request[r].pc # "idle"
  PROVE  /\ record' \in RecordType
         /\ answers' \subseteq [payload : Payloads, transfer : Nat]
         /\ \E q \in RequestType :
              /\ request' = [request EXCEPT ![r] = q]
              /\ q.pc # "idle" => q.payload \in Payloads
<1>1. record \in RecordType /\ request[r].payload \in Payloads
      /\ answers \subseteq [payload : Payloads, transfer : Nat]
  BY DEF TypeInv, TypeOK, RecordType
<1>2. CASE record.status = "ABSENT"
  BY <1>1, <1>2, GotoType DEF Respond, RequestPcs
<1>3. CASE record.status # "ABSENT"
  <2>1. record' \in RecordType
    BY <1>1, <1>3 DEF Respond, RecordType
  <2>2. answers' \subseteq [payload : Payloads, transfer : Nat]
    BY <1>1, <1>3 DEF Respond
  <2> QED
    BY <1>3, <2>1, <2>2, FinishType DEF Respond
<1> QED
  BY <1>2, <1>3

\* One step of one request, whatever it is at.
LEMMA StepType ==
  ASSUME TypeInv, NEW r \in Requests, Step(r)
  PROVE  StepTypes(r) /\ begun' = begun
<1>1. /\ record \in RecordType /\ payment \in PaymentType
      /\ effects \in Seq(Payloads) /\ lost \subseteq Nat
      /\ balance \in [Buckets -> Nat]
      /\ booked \subseteq Nat \X Buckets
      /\ answers \subseteq [payload : Payloads, transfer : Nat]
      /\ request[r] \in RequestType /\ endpoint \in Endpoints
      /\ request[r].pc # "idle" => request[r].payload \in Payloads
  BY DEF TypeInv, TypeOK, RecordType, PaymentType, RequestType
<1>2. CASE Find(r)
  <2>1. request[r].pc # "idle" /\ request[r].payload \in Payloads
    BY <1>1, <1>2 DEF Find
  <2>2. answers' \subseteq [payload : Payloads, transfer : Nat]
    BY <1>1, <1>2, <2>1 DEF Find, RecordType
  <2>3. CASE record.expired
    <3>1. \E q \in RequestType :
            /\ request' = [request EXCEPT ![r] = q]
            /\ q.pc # "idle" => q.payload \in Payloads
      BY <1>2, <2>1, <2>3, LookType DEF Find, RequestPcs
    <3> QED
      BY <1>1, <1>2, <2>2, <3>1 DEF Find, StepTypes
  <2>4. CASE ~record.expired
    <3>1. Finish(r) \/ Goto(r, "fail") \/ Look(r, "reserve")
      BY <1>2, <2>4 DEF Find
    <3>2. \E q \in RequestType :
            /\ request' = [request EXCEPT ![r] = q]
            /\ q.pc # "idle" => q.payload \in Payloads
      BY <2>1, <3>1, FinishType, GotoType, LookType DEF RequestPcs
    <3> QED
      BY <1>1, <1>2, <2>2, <3>2 DEF Find, StepTypes
  <2> QED
    BY <2>3, <2>4
<1>3. CASE Delete(r)
  <2>1. record' \in RecordType
    BY <1>1, <1>3 DEF Delete, NoRecord, RecordType
  <2> QED
    BY <1>1, <1>3, <2>1, LookType DEF Delete, StepTypes, RequestPcs
<1>4. CASE Reserve(r)
  <2> DEFINE id == IF record.status = "ABSENT" THEN record.id + 1 ELSE record.id
  <2>2. request[r].payload \in Payloads /\ id \in Nat
    BY <1>1, <1>4 DEF Reserve, RecordType
  <2>3. record' = [record EXCEPT !.status = "PENDING", !.hash = request[r].payload,
                                 !.expired = FALSE, !.id = id]
    BY <1>4 DEF Reserve
  <2>1. record' \in RecordType
    BY <1>1, <2>2, <2>3 DEF RecordType
  <2> QED
    BY <1>1, <1>4, <2>1, GotoType DEF Reserve, StepTypes, RequestPcs
<1>17. CASE ReserveCollides(r)
  BY <1>1, <1>17, GotoType DEF ReserveCollides, StepTypes, RequestPcs
<1>5. CASE Complete(r)
  <2>1. request[r].pc # "idle" /\ request[r].transfer \in Nat
    BY <1>1, <1>5 DEF Complete, Worked, RequestType
  <2> QED
    BY <1>1, <1>5, <2>1, RespondType DEF Complete, StepTypes
<1>6. CASE Fail(r)
  <2>1. record' \in RecordType
    BY <1>1, <1>6 DEF Fail, RecordType
  <2> QED
    BY <1>1, <1>6, <2>1, FinishType DEF Fail, StepTypes
<1>7. CASE Claim(r)
  <2>1. payment' \in PaymentType /\ request[r].pc # "idle"
    BY <1>1, <1>7 DEF Claim, PaymentType
  <2>2. CASE Covered(request[r].payload) /\ ~InFlight /\ Paid
    <3> DEFINE q == [request[r] EXCEPT !.pc = "complete", !.transfer = payment.transfer]
    <3>1. request' = [request EXCEPT ![r] = q]
      BY <1>7, <2>2 DEF Claim
    <3>2. q \in RequestType /\ q.payload \in Payloads
      BY <1>1, <2>1 DEF RequestType, PaymentType, RequestPcs
    <3> QED
      BY <1>1, <1>7, <2>1, <3>1, <3>2 DEF Claim, StepTypes
  <2>3. CASE ~(Covered(request[r].payload) /\ ~InFlight /\ Paid)
    <3>1. Goto(r, "fail") \/ Goto(r, "provider")
      BY <1>7, <2>3 DEF Claim
    <3>2. \E q \in RequestType :
            /\ request' = [request EXCEPT ![r] = q]
            /\ q.pc # "idle" => q.payload \in Payloads
      BY <2>1, <3>1, GotoType DEF RequestPcs
    <3> QED
      BY <1>1, <1>7, <2>1, <3>2 DEF Claim, StepTypes
  <2> QED
    BY <2>2, <2>3
<1>8. CASE Confirm(r)
  <2>1. payment' \in PaymentType
    BY <1>1, <1>8 DEF Confirm, PaymentType, RequestType
  <2> QED
    BY <1>1, <1>8, <2>1, GotoType DEF Confirm, StepTypes, RequestPcs
<1>9. CASE DeriveFails(r)
  BY <1>1, <1>9, RespondType DEF DeriveFails, StepTypes
<1>10. CASE Check(r)
  <2>1. Goto(r, "provider") \/ Goto(r, "fail")
    BY <1>10 DEF Check
  <2>2. \E q \in RequestType :
          /\ request' = [request EXCEPT ![r] = q]
          /\ q.pc # "idle" => q.payload \in Payloads
    BY <1>10, <2>1, GotoType DEF Check, RequestPcs
  <2> QED
    BY <1>1, <1>10, <2>2 DEF Check, StepTypes
<1>11. CASE Accept(r)
  <2> DEFINE q == [request[r] EXCEPT !.pc = IF endpoint = "send" THEN "confirm" ELSE "book",
                     !.transfer = Len(effects) + 1, !.left = Named(request[r].payload)]
  <2>1. request' = [request EXCEPT ![r] = q]
    BY <1>11 DEF Accept
  <2>2. Named(request[r].payload) \subseteq Buckets
    BY DEF Named
  <2>3. request[r].payload \in Payloads /\ Len(effects) + 1 \in Nat
    BY <1>1, <1>11 DEF Accept
  <2>4. q \in RequestType /\ q.payload \in Payloads
    BY <1>1, <2>2, <2>3 DEF RequestType, RequestPcs
  <2>5. effects' \in Seq(Payloads)
    BY <1>1, <1>11, <2>3 DEF Accept
  <2> QED
    BY <1>1, <1>11, <2>1, <2>4, <2>5 DEF Accept, StepTypes
<1>12. CASE Refuse(r)
  <2>1. payment' \in PaymentType
    BY <1>1, <1>12 DEF Refuse, ProviderError, PaymentType
  <2> QED
    BY <1>1, <1>12, <2>1, GotoType DEF Refuse, ProviderError, StepTypes, RequestPcs
<1>13. CASE LoseAnswer(r)
  <2>1. effects' \in Seq(Payloads)
    BY <1>1, <1>13 DEF LoseAnswer
  <2>2. payment' \in PaymentType
    BY <1>1, <1>13 DEF LoseAnswer, ProviderError, PaymentType
  <2>3. lost' \subseteq Nat
    <3>1. Len(effects) + 1 \in Nat /\ lost' = lost \cup {Len(effects) + 1}
      BY <1>1, <1>13 DEF LoseAnswer
    <3> QED
      BY <1>1, <3>1
  <2> QED
    BY <1>1, <1>13, <2>1, <2>2, <2>3, GotoType
       DEF LoseAnswer, ProviderError, StepTypes, RequestPcs
<1>14. CASE Book(r)
  <2>1. PICK b \in request[r].left :
          IF Short(r, b)
          THEN Goto(r, "fail") /\ UNCHANGED <<booked, balance>>
          ELSE /\ booked' = booked \cup {<<request[r].transfer, b>>}
               /\ balance' = [balance EXCEPT ![b] = @ - Taken(request[r].payload, b)]
               /\ request' = [request EXCEPT ![r].left = @ \ {b}]
    BY <1>14 DEF Book
  <2>2. request[r].pc # "idle" /\ b \in Buckets /\ request[r].transfer \in Nat
    BY <1>1, <1>14 DEF Book, RequestType
  <2>3. CASE Short(r, b)
    BY <1>1, <1>14, <2>1, <2>2, <2>3, GotoType DEF Book, StepTypes, RequestPcs
  <2>4. CASE ~Short(r, b)
    <3> DEFINE q == [request[r] EXCEPT !.left = @ \ {b}]
    <3>1. request' = [request EXCEPT ![r] = q]
      BY <2>1, <2>4
    <3>2. q \in RequestType /\ q.payload \in Payloads
      BY <1>1, <2>2 DEF RequestType
    <3>3. balance[b] - Taken(request[r].payload, b) \in Nat
      BY <1>1, <2>2, <2>4, TakenNat DEF Short
    <3>4. balance' \in [Buckets -> Nat] /\ booked' \subseteq Nat \X Buckets
      BY <1>1, <2>1, <2>2, <2>4, <3>3
    <3> QED
      BY <1>1, <1>14, <3>1, <3>2, <3>4 DEF Book, StepTypes
  <2> QED
    BY <2>3, <2>4
<1>15. CASE Booked(r)
  BY <1>1, <1>15, GotoType DEF Booked, StepTypes, RequestPcs
<1>16. begun' = begun
  BY DEF Step, Find, Delete, Reserve, ReserveCollides, Complete, Fail, Claim, Confirm, DeriveFails, Check,
     Accept, Refuse, LoseAnswer, Book, Booked
<1> QED
  BY <1>2, <1>3, <1>4, <1>5, <1>6, <1>7, <1>8, <1>9, <1>10, <1>11, <1>12, <1>13, <1>14,
     <1>15, <1>16, <1>17 DEF Step

LEMMA EndpointKept == [Next]_vars => endpoint' = endpoint
  BY DEF Next, Step, Begin, Find, Delete, Reserve, ReserveCollides, Complete, Fail, Claim,
     Confirm,
     DeriveFails, Check, Accept, Refuse, LoseAnswer, Book, Booked, Crash, Expire, vars

LEMMA TypeNext == TypeInv /\ [Next]_vars => TypeInv'
<1> SUFFICES ASSUME TypeInv, [Next]_vars PROVE TypeInv'
  OBVIOUS
<1>1. request \in [Requests -> RequestType] /\ endpoint' = endpoint
  BY EndpointKept DEF TypeInv, TypeOK, RequestType
<1>2. ASSUME NEW r \in Requests, StepTypes(r), begun' \in 0..MaxRequests
      PROVE  TypeInv'
  <2>1. request' \in [Requests -> RequestType]
    BY <1>1, <1>2 DEF StepTypes
  <2>2. \A q \in Requests : request'[q].pc # "idle" => request'[q].payload \in Payloads
    BY <1>1, <1>2 DEF StepTypes, TypeInv
  <2> QED
    BY <1>1, <1>2, <2>1, <2>2
       DEF StepTypes, TypeInv, TypeOK, RecordType, PaymentType, RequestType
<1>3. ASSUME NEW r \in Requests, NEW p \in Payloads, Begin(r, p)
      PROVE  TypeInv'
  <2> DEFINE q == [IdleRequest EXCEPT !.pc = "find", !.payload = p]
  <2>1. q \in RequestType /\ q.payload \in Payloads
    BY DEF IdleRequest, RequestType, RequestPcs
  <2>2. request' = [request EXCEPT ![r] = q] /\ begun' \in 0..MaxRequests
    BY <1>3, RequestsAssumption DEF Begin, TypeInv, TypeOK
  <2>3. StepTypes(r)
    BY <1>3, <2>1, <2>2 DEF Begin, StepTypes, TypeInv, TypeOK, RecordType, PaymentType
  <2> QED
    BY <1>2, <2>2, <2>3
<1>4. ASSUME NEW r \in Requests, Step(r)
      PROVE  TypeInv'
  BY <1>1, <1>2, <1>4, StepType DEF TypeInv, TypeOK
<1>5. ASSUME NEW r \in Requests, Crash(r)
      PROVE  TypeInv'
  <2>1. StepTypes(r) /\ begun' \in 0..MaxRequests
    BY <1>5, FinishType DEF Crash, StepTypes, TypeInv, TypeOK, RecordType, PaymentType
  <2> QED
    BY <1>2, <2>1
<1>6. CASE Expire
  <2>1. record' \in RecordType
    BY <1>6 DEF Expire, TypeInv, TypeOK, RecordType
  <2> QED
    BY <1>1, <1>6, <2>1 DEF Expire, TypeInv, TypeOK, RecordType
<1>7. CASE UNCHANGED vars
  BY <1>7 DEF vars, TypeInv, TypeOK
<1> QED
  BY <1>3, <1>4, <1>5, <1>6, <1>7 DEF Next

\* The key layer and both kinds of work keep every variable in its type; no
\* interleaving of deposits overdraws a bucket.
THEOREM TypeCorrect == Spec => []TypeOK
<1>1. TypeInv => TypeOK
  BY DEF TypeInv
<1> QED
  BY <1>1, TypeInit, TypeNext, PTL DEF Spec

-----------------------------------------------------------------------------
(* Payments. *)

Holds(r) == request[r].pc \in {"provider", "confirm"}

\* No transfer was answered.
AllLost == \A i \in DOMAIN effects : i \in lost

\* A payment is SENDING for as long as a request holds it, one request holds
\* it at a time, and no transfer was answered while it is free or still to be
\* sent.
PayInv ==
  /\ \A r \in Requests : Holds(r) => payment.status = "SENDING"
  /\ \A q, r \in Requests : Holds(q) /\ Holds(r) => q = r
  /\ payment.status \in {"ABSENT", "FAILED"} => AllLost
  /\ \A r \in Requests : request[r].pc = "provider" => AllLost
  /\ OnlyUnansweredRepeated

\* Steps of the key layer and the debits do not touch the payment, nor who
\* holds it.
LEMMA PayFrame ==
  ASSUME PayInv, UNCHANGED <<payment, effects, lost>>,
         \A r \in Requests : Holds(r)' => Holds(r) /\ request'[r].pc = request[r].pc
  PROVE  PayInv'
  BY DEF PayInv, Holds, AllLost, OnlyUnansweredRepeated

LEMMA PayNext ==
  ASSUME TypeInv, endpoint = "send", PayInv, [Next]_vars
  PROVE  PayInv'
<1>1. /\ request \in [Requests -> RequestType]
      /\ payment \in PaymentType /\ effects \in Seq(Payloads)
  BY DEF TypeInv, TypeOK, RequestType, PaymentType
<1>3. ASSUME NEW r \in Requests, NEW p \in Payloads, Begin(r, p)
      PROVE  PayInv'
  <2>1. UNCHANGED <<payment, effects, lost>>
    BY <1>3 DEF Begin
  <2>2. \A g \in Requests : Holds(g)' => Holds(g) /\ request'[g].pc = request[g].pc
    BY <1>1, <1>3 DEF Holds, Begin, IdleRequest
  <2> QED
    BY <2>1, <2>2, PayFrame
<1>4. ASSUME NEW r \in Requests,
             Find(r) \/ Delete(r) \/ Reserve(r) \/ ReserveCollides(r) \/ Complete(r) \/ Fail(r)
               \/ Booked(r) \/ Book(r) \/ Crash(r)
      PROVE  PayInv'
  <2>1. UNCHANGED <<payment, effects, lost>>
    BY <1>4 DEF Find, Delete, Reserve, ReserveCollides, Complete, Fail, Booked, Book, Crash
  <2>2. ASSUME request' = [request EXCEPT ![r] = IdleRequest]
        PROVE  PayInv'
    <3>1. \A g \in Requests : Holds(g)' => Holds(g) /\ request'[g].pc = request[g].pc
      BY <1>1, <2>2 DEF Holds, IdleRequest
    <3> QED
      BY <2>1, <3>1, PayFrame
  <2>3. ASSUME NEW pc, pc \notin {"provider", "confirm"}, Goto(r, pc)
        PROVE  PayInv'
    <3>1. \A g \in Requests : Holds(g)' => Holds(g) /\ request'[g].pc = request[g].pc
      BY <1>1, <2>3 DEF Holds, Goto
    <3> QED
      BY <2>1, <3>1, PayFrame
  <2>8. ASSUME NEW pc, pc \notin {"provider", "confirm"}, Look(r, pc)
        PROVE  PayInv'
    <3>1. request'[r].pc = pc /\ \A g \in Requests \ {r} : request'[g] = request[g]
      BY <1>1, <2>8 DEF Look, RequestType
    <3>2. \A g \in Requests : Holds(g)' => Holds(g) /\ request'[g].pc = request[g].pc
      BY <2>8, <3>1 DEF Holds
    <3> QED
      BY <2>1, <3>2, PayFrame
  <2>4. CASE Find(r)
    <3>1. \/ Finish(r) \/ Goto(r, "fail") \/ Look(r, "reserve") \/ Look(r, "delete")
      BY <2>4 DEF Find
    <3> QED
      BY <3>1, <2>2, <2>3, <2>8 DEF Finish
  <2>5. CASE Delete(r) \/ Reserve(r) \/ ReserveCollides(r) \/ Booked(r)
    BY <2>5, <2>3, <2>8 DEF Delete, Reserve, ReserveCollides, Booked
  <2>6. CASE Complete(r) \/ Fail(r) \/ Crash(r)
    BY <2>6, <2>2, <2>3 DEF Complete, Respond, Fail, Crash, Finish
  <2>7. CASE Book(r)
    <3>1. PICK b \in request[r].left :
            \/ Goto(r, "fail")
            \/ request' = [request EXCEPT ![r].left = @ \ {b}]
      BY <2>7 DEF Book
    <3>2. ASSUME request' = [request EXCEPT ![r].left = @ \ {b}]
          PROVE  PayInv'
      <4>1. \A g \in Requests : request'[g].pc = request[g].pc
        BY <1>1, <3>2 DEF RequestType
      <4> QED
        BY <2>1, <4>1, PayFrame DEF Holds
    <3> QED
      BY <3>1, <3>2, <2>3
  <2> QED
    BY <1>4, <2>4, <2>5, <2>6, <2>7
<1>5. ASSUME NEW r \in Requests, Claim(r)
      PROVE  PayInv'
  <2>1. UNCHANGED <<effects, lost>> /\ request[r].pc = "work"
    BY <1>5 DEF Claim
  <2>2. CASE Covered(request[r].payload) /\ ~InFlight /\ ~Paid
    <3>1. payment' = [payment EXCEPT !.status = "SENDING"] /\ Goto(r, "provider")
      BY <1>5, <2>2 DEF Claim
    <3>2. payment.status \in {"ABSENT", "FAILED"} /\ payment'.status = "SENDING"
      BY <1>1, <2>2, <3>1 DEF InFlight, Paid, PaymentType
    <3>3. \A g \in Requests : ~Holds(g)
      BY <3>2 DEF PayInv
    <3>4. \A g \in Requests : Holds(g)' => g = r
      BY <1>1, <3>1, <3>3 DEF Holds, Goto
    <3>5. AllLost' /\ OnlyUnansweredRepeated'
      BY <2>1, <3>2 DEF PayInv, AllLost, OnlyUnansweredRepeated
    <3> QED
      BY <2>1, <3>2, <3>4, <3>5 DEF PayInv, Holds
  <2>3. CASE ~(Covered(request[r].payload) /\ ~InFlight /\ ~Paid)
    <3>1. payment' = payment
      BY <1>5, <2>3 DEF Claim
    <3>2. \/ Goto(r, "fail")
          \/ request' = [request EXCEPT ![r].pc = "complete",
                                        ![r].transfer = payment.transfer]
      BY <1>5, <2>3 DEF Claim
    <3>3. \A g \in Requests : Holds(g)' => Holds(g) /\ request'[g].pc = request[g].pc
      <4>1. CASE Goto(r, "fail")
        BY <1>1, <4>1 DEF Goto, Holds
      <4>2. CASE request' = [request EXCEPT ![r].pc = "complete",
                                            ![r].transfer = payment.transfer]
        BY <1>1, <4>2 DEF Holds, RequestType
      <4> QED
        BY <3>2, <4>1, <4>2
    <3> QED
      BY <2>1, <3>1, <3>3, PayFrame
  <2> QED
    BY <2>2, <2>3
<1>6. ASSUME NEW r \in Requests, Confirm(r)
      PROVE  PayInv'
  <2>1. /\ Holds(r) /\ payment'.status = "CONFIRMED" /\ UNCHANGED <<effects, lost>>
        /\ Goto(r, "book")
    BY <1>6 DEF Confirm, Holds
  <2>2. \A g \in Requests : ~Holds(g)'
    BY <1>1, <2>1 DEF PayInv, Holds, Goto
  <2> QED
    BY <2>1, <2>2 DEF PayInv, Holds, OnlyUnansweredRepeated
<1>7. ASSUME NEW r \in Requests, Accept(r)
      PROVE  PayInv'
  <2>1. /\ Holds(r) /\ request[r].pc = "provider" /\ payment' = payment
        /\ request[r].payload \in Payloads
    BY <1>7 DEF Accept, Holds, TypeInv
  <2>2. OnlyUnansweredRepeated'
    <3>1. /\ \A i \in 1..Len(effects) : i \in lost
          /\ lost' = lost /\ effects' = Append(effects, request[r].payload)
      BY <1>1, <1>7, <2>1 DEF Accept, PayInv, AllLost
    <3> QED
      BY <1>1, <2>1, <3>1 DEF OnlyUnansweredRepeated
  <2>3. request'[r].pc = "confirm" /\ \A g \in Requests \ {r} : request'[g] = request[g]
    BY <1>1, <1>7 DEF Accept
  <2>4. payment.status = "SENDING"
    BY <2>1 DEF PayInv
  <2>5. \A g \in Requests : Holds(g)' => g = r
    BY <2>1, <2>3 DEF PayInv, Holds
  <2> QED
    BY <2>1, <2>2, <2>3, <2>4, <2>5 DEF PayInv, Holds
<1>8. ASSUME NEW r \in Requests, Refuse(r) \/ LoseAnswer(r)
      PROVE  PayInv'
  <2>1. /\ Holds(r) /\ request[r].pc = "provider"
        /\ Goto(r, "fail") /\ payment'.status = "FAILED"
    BY <1>1, <1>8 DEF Refuse, LoseAnswer, ProviderError, Holds, PaymentType
  <2>2. AllLost' /\ OnlyUnansweredRepeated'
    <3>1. \A i \in 1..Len(effects) : i \in lost
      BY <1>1, <2>1 DEF PayInv, AllLost
    <3>2. CASE Refuse(r)
      BY <1>1, <3>1, <3>2 DEF Refuse, AllLost, OnlyUnansweredRepeated
    <3>3. CASE LoseAnswer(r)
      <4>1. /\ request[r].payload \in Payloads
            /\ effects' = Append(effects, request[r].payload)
            /\ lost' = lost \cup {Len(effects) + 1}
        BY <3>3 DEF LoseAnswer, TypeInv
      <4>2. DOMAIN effects' = 1..(Len(effects) + 1)
        BY <1>1, <4>1
      <4>3. \A i \in DOMAIN effects' : i \in lost'
        BY <1>1, <3>1, <4>1, <4>2
      <4> QED
        BY <4>3 DEF AllLost, OnlyUnansweredRepeated
    <3> QED
      BY <1>8, <3>2, <3>3
  <2>3. \A g \in Requests : ~Holds(g)'
    BY <1>1, <2>1 DEF PayInv, Holds, Goto
  <2> QED
    BY <2>1, <2>2, <2>3 DEF PayInv, Holds
<1>9. CASE Expire \/ UNCHANGED vars
  BY <1>9, PayFrame DEF Expire, vars, Holds
<1> QED
  BY <1>3, <1>4, <1>5, <1>6, <1>7, <1>8, <1>9
     DEF Next, Step, DeriveFails, Check

-----------------------------------------------------------------------------
(* Answers. *)

AllBooked(t) ==
  /\ t \in DOMAIN effects
  /\ \A b \in Named(effects[t]) : <<t, b>> \in booked

\* What a 200 may name: the confirmed payment, a deposit booked in full.
Settled(t) == IF endpoint = "send" THEN Paid /\ t = payment.transfer ELSE AllBooked(t)

\* A request that debits: what a deposit has still to book is all that misses.
Booking(r) ==
  IF endpoint = "send" THEN Settled(request[r].transfer)
  ELSE /\ request[r].transfer \in DOMAIN effects
       /\ effects[request[r].transfer] = request[r].payload
       /\ \A b \in Named(request[r].payload) \ request[r].left :
            <<request[r].transfer, b>> \in booked

\* What a request owes for where it stands.
RequestInv(r) ==
  /\ request[r].pc = "complete" => Settled(request[r].transfer)
  /\ request[r].pc = "book" => Booking(r)
  /\ request[r].pc = "confirm" => endpoint = "send"

\* What is answered, stored or about to be is settled.
AnswerInv ==
  /\ \A r \in Requests : RequestInv(r)
  /\ record.response # 0 => Settled(record.response)
  /\ \A a \in answers : Settled(a.transfer)

\* Transfers are only added, and what is booked stays booked.
LEMMA EffectsGrow ==
  ASSUME TypeInv, [Next]_vars
  PROVE  /\ booked \subseteq booked'
         /\ effects' = effects \/ \E p \in Payloads : effects' = Append(effects, p)
<1>1. ASSUME NEW r \in Requests, Step(r)
      PROVE  /\ booked \subseteq booked'
             /\ effects' = effects \/ \E p \in Payloads : effects' = Append(effects, p)
  <2>1. CASE Accept(r) \/ LoseAnswer(r)
    <3>1. request[r].payload \in Payloads
      BY <2>1 DEF Accept, LoseAnswer, TypeInv
    <3> QED
      BY <2>1, <3>1 DEF Accept, LoseAnswer
  <2>2. CASE Book(r)
    BY <2>2 DEF Book
  <2> QED
    BY <1>1, <2>1, <2>2 DEF Step, Find, Delete, Reserve, ReserveCollides, Complete, Fail, Claim, Confirm,
       DeriveFails, Check, Refuse, Booked
<1> QED
  BY <1>1 DEF Next, Begin, Crash, Expire, vars

\* A confirmed payment is final: only the holder of a SENDING one writes to it.
LEMMA PaymentStays ==
  ASSUME TypeInv, endpoint = "send", PayInv, Paid, [Next]_vars
  PROVE  payment' = payment
<1>1. \A r \in Requests : ~Holds(r)
  BY DEF PayInv, Paid
<1> QED
  BY <1>1 DEF Next, Step, Begin, Find, Delete, Reserve, ReserveCollides, Complete, Fail, Claim,
     Confirm,
     DeriveFails, Check, Accept, Refuse, LoseAnswer, Book, Booked, Crash, Expire, vars, Holds

LEMMA SettledStays ==
  ASSUME TypeInv, endpoint = "send" => PayInv, [Next]_vars, NEW t, Settled(t)
  PROVE  Settled(t)'
<1>1. endpoint' = endpoint
  BY EndpointKept
<1>2. CASE endpoint = "send"
  BY <1>1, <1>2, PaymentStays DEF Settled, Paid
<1>3. CASE endpoint # "send"
  <2>1. t \in DOMAIN effects /\ effects \in Seq(Payloads)
    BY <1>3 DEF Settled, AllBooked, TypeInv, TypeOK
  <2>2. t \in DOMAIN effects' /\ effects'[t] = effects[t] /\ booked \subseteq booked'
    BY <2>1, EffectsGrow
  <2>3. \A p : Named(p)' = Named(p)
    BY <1>1 DEF Named, Taken
  <2> QED
    BY <1>1, <1>3, <2>2, <2>3 DEF Settled, AllBooked
<1> QED
  BY <1>2, <1>3

\* What a request owes stays paid while others move.
LEMMA RequestStays ==
  ASSUME TypeInv, endpoint = "send" => PayInv, [Next]_vars,
         NEW g, RequestInv(g), request'[g] = request[g]
  PROVE  RequestInv(g)'
<1>1. endpoint' = endpoint
  BY EndpointKept
<1>2. (request[g].pc = "complete" => Settled(request[g].transfer))'
  BY SettledStays DEF RequestInv
<1>3. ASSUME request[g].pc = "book"
      PROVE  Booking(g)'
  <2>1. Booking(g)
    BY <1>3 DEF RequestInv
  <2>2. CASE endpoint = "send"
    BY <1>1, <2>1, <2>2, SettledStays DEF Booking
  <2>3. CASE endpoint # "send"
    <3> DEFINE t == request[g].transfer
    <3>1. t \in DOMAIN effects /\ effects[t] = request[g].payload /\ effects \in Seq(Payloads)
      BY <2>1, <2>3 DEF Booking, TypeInv, TypeOK
    <3>2. t \in DOMAIN effects' /\ effects'[t] = effects[t] /\ booked \subseteq booked'
      BY <3>1, EffectsGrow
    <3>3. Named(request[g].payload)' = Named(request[g].payload)
      BY <1>1 DEF Named, Taken
    <3> QED
      BY <1>1, <2>1, <2>3, <3>1, <3>2, <3>3 DEF Booking
  <2> QED
    BY <2>2, <2>3
<1> QED
  BY <1>1, <1>2, <1>3 DEF RequestInv

\* A step of one request keeps AnswerInv if what it leaves behind is in order.
LEMMA AnswerFrame ==
  ASSUME TypeInv, endpoint = "send" => PayInv, AnswerInv, [Next]_vars,
         NEW r \in Requests, \A g \in Requests \ {r} : request'[g] = request[g],
         RequestInv(r)',
         record'.response \in {0, record.response} \/ Settled(record.response)',
         \A a \in answers' : a \in answers \/ Settled(a.transfer)'
  PROVE  AnswerInv'
<1>1. \A g \in Requests : RequestInv(g)'
  BY RequestStays DEF AnswerInv
<1>2. record'.response # 0 => Settled(record.response)'
  BY SettledStays DEF AnswerInv
<1>3. \A a \in answers' : Settled(a.transfer)'
  BY SettledStays DEF AnswerInv
<1> QED
  BY <1>1, <1>2, <1>3 DEF AnswerInv

LEMMA RespondKeeps ==
  ASSUME TypeInv, endpoint = "send" => PayInv, AnswerInv, [Next]_vars,
         NEW r \in Requests, NEW t, t = 0 \/ Settled(t), Respond(r, t)
  PROVE  AnswerInv'
<1>1. request \in [Requests -> RequestType] /\ record \in RecordType
  BY DEF TypeInv, TypeOK, RequestType, RecordType
<1>2. CASE record.status = "ABSENT"
  <2>1. Goto(r, "fail") /\ UNCHANGED <<record, answers>>
    BY <1>2 DEF Respond
  <2>2. \A g \in Requests \ {r} : request'[g] = request[g]
    BY <1>1, <2>1 DEF Goto
  <2>3. RequestInv(r)'
    BY <1>1, <2>1 DEF Goto, RequestInv
  <2> QED
    BY <2>1, <2>2, <2>3, AnswerFrame
<1>3. CASE record.status # "ABSENT"
  <2>1. /\ record'.response = t
        /\ \A a \in answers' : a \in answers \/ (a.transfer = t /\ t # 0)
        /\ request' = [request EXCEPT ![r] = IdleRequest]
    <3>1. /\ record' = [record EXCEPT !.status = "COMPLETED", !.response = t]
          /\ answers' = IF t = 0 THEN answers
                        ELSE answers \cup {[payload |-> request[r].payload, transfer |-> t]}
          /\ request' = [request EXCEPT ![r] = IdleRequest]
      BY <1>3 DEF Respond, Finish
    <3>2. record'.response = t
      BY <1>1, <3>1 DEF RecordType
    <3>3. \A a \in answers' : a \in answers \/ (a.transfer = t /\ t # 0)
      BY <3>1
    <3> QED
      BY <3>1, <3>2, <3>3
  <2>2. \A g \in Requests \ {r} : request'[g] = request[g]
    BY <1>1, <2>1
  <2>3. RequestInv(r)'
    BY <1>1, <2>1 DEF IdleRequest, RequestInv
  <2>4. t = 0 \/ Settled(t)'
    BY SettledStays
  <2>5. record'.response \in {0, record.response} \/ Settled(record.response)'
    BY <2>1, <2>4
  <2>6. \A a \in answers' : a \in answers \/ Settled(a.transfer)'
    BY <2>1, <2>4
  <2> QED
    BY <2>2, <2>3, <2>5, <2>6, AnswerFrame
<1> QED
  BY <1>2, <1>3
\* A request that moves on to where it owes nothing.
LEMMA MoveKeeps ==
  ASSUME TypeInv, endpoint = "send" => PayInv, AnswerInv, [Next]_vars,
         NEW r \in Requests, NEW q \in RequestType,
         request' = [request EXCEPT ![r] = q],
         q.pc \notin {"book", "complete", "confirm"},
         record'.response \in {0, record.response},
         \A a \in answers' : a \in answers \/ Settled(a.transfer)'
  PROVE  AnswerInv'
<1>1. request \in [Requests -> RequestType]
  BY DEF TypeInv, TypeOK, RequestType
<1>2. request'[r] = q /\ \A g \in Requests \ {r} : request'[g] = request[g]
  BY <1>1
<1>3. RequestInv(r)'
  BY <1>2 DEF RequestInv
<1> QED
  BY <1>2, <1>3, AnswerFrame

LEMMA GotoKeeps ==
  ASSUME TypeInv, endpoint = "send" => PayInv, AnswerInv, [Next]_vars,
         NEW r \in Requests, NEW pc \in RequestPcs \ {"book", "complete", "confirm"},
         Goto(r, pc), record'.response \in {0, record.response}, answers' = answers
  PROVE  AnswerInv'
<1>1. request \in [Requests -> RequestType]
  BY DEF TypeInv, TypeOK, RequestType
<1> DEFINE q == [request[r] EXCEPT !.pc = pc]
<1>2. request' = [request EXCEPT ![r] = q]
  BY DEF Goto
<1>3. q \in RequestType /\ q.pc = pc
  BY <1>1 DEF RequestType
<1> HIDE DEF q
<1> QED
  BY <1>2, <1>3, MoveKeeps

LEMMA LookKeeps ==
  ASSUME TypeInv, endpoint = "send" => PayInv, AnswerInv, [Next]_vars,
         NEW r \in Requests, NEW pc \in RequestPcs \ {"book", "complete", "confirm"},
         Look(r, pc), record'.response \in {0, record.response}, answers' = answers
  PROVE  AnswerInv'
<1>1. request \in [Requests -> RequestType] /\ record.id \in Nat
  BY DEF TypeInv, TypeOK, RequestType
<1> DEFINE q == [request[r] EXCEPT !.pc = pc, !.seen = record.id]
<1>2. request' = [request EXCEPT ![r] = q]
  BY DEF Look
<1>3. q \in RequestType /\ q.pc = pc
  BY <1>1 DEF RequestType
<1> HIDE DEF q
<1> QED
  BY <1>2, <1>3, MoveKeeps

LEMMA FinishKeeps ==
  ASSUME TypeInv, endpoint = "send" => PayInv, AnswerInv, [Next]_vars,
         NEW r \in Requests, Finish(r),
         record'.response \in {0, record.response},
         \A a \in answers' : a \in answers \/ Settled(a.transfer)'
  PROVE  AnswerInv'
<1>1. IdleRequest \in RequestType /\ IdleRequest.pc = "idle"
  BY DEF IdleRequest, RequestType, RequestPcs
<1> QED
  BY <1>1, MoveKeeps DEF Finish

\* The step of a request.
LEMMA AnswerStep ==
  ASSUME TypeInv, endpoint = "send" => PayInv, AnswerInv, [Next]_vars,
         NEW r \in Requests, Step(r)
  PROVE  AnswerInv'
<1>1. /\ request \in [Requests -> RequestType] /\ record \in RecordType
      /\ payment \in PaymentType /\ effects \in Seq(Payloads) /\ endpoint' = endpoint
      /\ \A pc : pc \in RequestPcs \ {"book", "complete", "confirm"} <=>
           pc \in {"idle", "find", "delete", "reserve", "work", "provider", "fail"}
  BY EndpointKept DEF TypeInv, TypeOK, RequestType, RecordType, PaymentType, RequestPcs
<1>2. CASE Find(r)
  <2>1. record' = record
    BY <1>2 DEF Find
  <2>2. CASE record.expired
    BY <1>1, <1>2, <2>1, <2>2, LookKeeps DEF Find
  <2>3. CASE ~record.expired /\ record.status = "COMPLETED" /\ record.hash = request[r].payload
    <3>1. /\ Finish(r)
          /\ answers' = IF record.response = 0 THEN answers
                        ELSE answers \cup {[payload |-> request[r].payload,
                                            transfer |-> record.response]}
      BY <1>2, <2>3 DEF Find
    <3>2. record.response # 0 => Settled(record.response)'
      BY <2>1, SettledStays DEF AnswerInv
    <3>3. \A a \in answers' : a \in answers \/ Settled(a.transfer)'
      BY <2>1, <3>1, <3>2
    <3> QED
      BY <2>1, <3>1, <3>3, FinishKeeps
  <2>4. CASE ~record.expired /\ ~(record.status = "COMPLETED" /\ record.hash = request[r].payload)
    <3>1. (Goto(r, "fail") \/ Look(r, "reserve")) /\ answers' = answers
      BY <1>2, <2>4 DEF Find
    <3> QED
      BY <1>1, <2>1, <3>1, GotoKeeps, LookKeeps
  <2> QED
    BY <2>2, <2>3, <2>4
<1>3. CASE Delete(r)
  <2>1. record'.response \in {0, record.response}
    BY <1>3 DEF Delete, NoRecord
  <2> QED
    BY <1>1, <1>3, <2>1, LookKeeps DEF Delete
<1>4. CASE Reserve(r)
  <2>1. record'.response = record.response
    BY <1>1, <1>4 DEF Reserve, RecordType
  <2> QED
    BY <1>1, <1>4, <2>1, GotoKeeps DEF Reserve
<1>15. CASE ReserveCollides(r)
  BY <1>1, <1>15, GotoKeeps DEF ReserveCollides
<1>5. CASE Complete(r)
  <2>1. Settled(request[r].transfer) /\ Respond(r, request[r].transfer)
    BY <1>5 DEF Complete, Worked, AnswerInv, RequestInv
  <2> QED
    BY <2>1, RespondKeeps
<1>6. CASE Fail(r)
  <2>1. record'.response = record.response /\ answers' = answers
    BY <1>1, <1>6 DEF Fail, RecordType
  <2> QED
    BY <1>6, <2>1, FinishKeeps DEF Fail
<1>7. CASE Claim(r)
  <2>1. CASE Covered(request[r].payload) /\ ~InFlight /\ Paid
    <3>1. /\ endpoint = "send" /\ UNCHANGED <<payment, record, answers>>
          /\ request' = [request EXCEPT ![r].pc = "complete", ![r].transfer = payment.transfer]
      BY <1>7, <2>1 DEF Claim
    <3>2. /\ request'[r].transfer = payment.transfer
          /\ request'[r].pc = "complete"
          /\ \A g \in Requests \ {r} : request'[g] = request[g]
      BY <1>1, <3>1 DEF RequestType
    <3>3. RequestInv(r)'
      BY <1>1, <2>1, <3>1, <3>2 DEF RequestInv, Settled, Paid
    <3> QED
      BY <3>1, <3>2, <3>3, AnswerFrame
  <2>2. CASE ~(Covered(request[r].payload) /\ ~InFlight /\ Paid)
    <3>1. (Goto(r, "fail") \/ Goto(r, "provider")) /\ UNCHANGED <<record, answers>>
      BY <1>7, <2>2 DEF Claim
    <3> QED
      BY <1>1, <3>1, GotoKeeps
  <2> QED
    BY <2>1, <2>2
<1>8. CASE Confirm(r)
  <2>1. /\ request[r].pc = "confirm" /\ endpoint = "send" /\ UNCHANGED <<record, answers>>
        /\ payment' = [status |-> "CONFIRMED", transfer |-> request[r].transfer]
        /\ Goto(r, "book")
    BY <1>8 DEF Confirm, AnswerInv, RequestInv
  <2>2. /\ request'[r].pc = "book" /\ request'[r].transfer = request[r].transfer
        /\ \A g \in Requests \ {r} : request'[g] = request[g]
    BY <1>1, <2>1 DEF Goto, RequestType
  <2>3. RequestInv(r)'
    BY <1>1, <2>1, <2>2 DEF RequestInv, Booking, Settled, Paid
  <2> QED
    BY <2>1, <2>2, <2>3, AnswerFrame
<1>9. CASE DeriveFails(r)
  BY <1>9, RespondKeeps DEF DeriveFails
<1>10. CASE Check(r)
  <2>1. (Goto(r, "fail") \/ Goto(r, "provider")) /\ UNCHANGED <<record, answers>>
    BY <1>10 DEF Check
  <2> QED
    BY <1>1, <2>1, GotoKeeps
<1>11. CASE Refuse(r) \/ LoseAnswer(r)
  BY <1>1, <1>11, GotoKeeps DEF Refuse, LoseAnswer, ProviderError
<1>12. CASE Accept(r)
  <2>1. /\ request[r].payload \in Payloads /\ UNCHANGED <<record, answers, booked>>
        /\ effects' = Append(effects, request[r].payload)
    BY <1>12 DEF Accept, TypeInv
  <2>2. /\ request'[r].pc = IF endpoint = "send" THEN "confirm" ELSE "book"
        /\ request'[r].transfer = Len(effects) + 1
        /\ request'[r].left = Named(request[r].payload)
        /\ request'[r].payload = request[r].payload
        /\ \A g \in Requests \ {r} : request'[g] = request[g]
    <3> DEFINE q == [request[r] EXCEPT !.pc = IF endpoint = "send" THEN "confirm" ELSE "book",
                       !.transfer = Len(effects) + 1, !.left = Named(request[r].payload)]
    <3>1. request' = [request EXCEPT ![r] = q]
      BY <1>12 DEF Accept
    <3>2. /\ q.pc = (IF endpoint = "send" THEN "confirm" ELSE "book")
          /\ q.transfer = Len(effects) + 1 /\ q.left = Named(request[r].payload)
          /\ q.payload = request[r].payload
      BY <1>1 DEF RequestType
    <3> HIDE DEF q
    <3>3. request'[r] = q /\ \A g \in Requests \ {r} : request'[g] = request[g]
      BY <1>1, <3>1
    <3> QED
      BY <3>2, <3>3
  <2>3. RequestInv(r)'
    <3>1. CASE endpoint = "send"
      BY <1>1, <2>2, <3>1 DEF RequestInv
    <3>2. CASE endpoint # "send"
      <4>1. /\ Len(effects) + 1 \in DOMAIN effects'
            /\ effects'[Len(effects) + 1] = request[r].payload
        BY <1>1, <2>1
      <4>2. \A p : Named(p)' = Named(p)
        BY <1>1 DEF Named, Taken
      <4>3. Booking(r)'
        BY <1>1, <2>2, <3>2, <4>1, <4>2 DEF Booking
      <4> QED
        BY <2>2, <3>2, <4>3 DEF RequestInv
    <3> QED
      BY <3>1, <3>2
  <2> QED
    BY <2>1, <2>2, <2>3, AnswerFrame
<1>13. CASE Book(r)
  <2>1. PICK b \in request[r].left :
          \/ Goto(r, "fail")
          \/ /\ booked' = booked \cup {<<request[r].transfer, b>>}
             /\ request' = [request EXCEPT ![r].left = @ \ {b}]
    BY <1>13 DEF Book
  <2>2. /\ request[r].pc = "book" /\ UNCHANGED <<record, payment, effects, answers>>
    BY <1>13 DEF Book
  <2>3. CASE Goto(r, "fail")
    BY <1>1, <2>2, <2>3, GotoKeeps
  <2>4. CASE /\ booked' = booked \cup {<<request[r].transfer, b>>}
             /\ request' = [request EXCEPT ![r].left = @ \ {b}]
    <3>1. /\ request'[r].pc = "book" /\ request'[r].transfer = request[r].transfer
          /\ request'[r].payload = request[r].payload
          /\ request'[r].left = request[r].left \ {b}
          /\ \A g \in Requests \ {r} : request'[g] = request[g]
      BY <1>1, <2>2, <2>4 DEF RequestType
    <3>2. \A p : Named(p)' = Named(p)
      BY <1>1 DEF Named, Taken
    <3>3. Booking(r)
      BY <2>2 DEF AnswerInv, RequestInv
    <3>4. CASE endpoint = "send"
      <4>1. Booking(r)'
        BY <1>1, <2>2, <3>1, <3>3, <3>4 DEF Booking, Settled, Paid
      <4> QED
        BY <2>2, <3>1, <4>1, AnswerFrame DEF RequestInv
    <3>5. CASE endpoint # "send"
      <4>1. Booking(r)'
        BY <1>1, <2>2, <2>4, <3>1, <3>2, <3>3, <3>5 DEF Booking
      <4> QED
        BY <2>2, <3>1, <4>1, AnswerFrame DEF RequestInv
    <3> QED
      BY <3>4, <3>5
  <2> QED
    BY <2>1, <2>3, <2>4
<1>14. CASE Booked(r)
  <2>1. /\ request[r].pc = "book" /\ request[r].left = {} /\ Goto(r, "complete")
        /\ UNCHANGED <<record, payment, effects, booked, answers>>
    BY <1>14 DEF Booked
  <2>2. /\ request'[r].pc = "complete" /\ request'[r].transfer = request[r].transfer
        /\ \A g \in Requests \ {r} : request'[g] = request[g]
    BY <1>1, <2>1 DEF Goto, RequestType
  <2>3. Booking(r)
    BY <2>1 DEF AnswerInv, RequestInv
  <2>4. Settled(request[r].transfer)
    <3>1. CASE endpoint = "send"
      BY <2>3, <3>1 DEF Booking
    <3>2. CASE endpoint # "send"
      BY <2>1, <2>3, <3>2 DEF Booking, Settled, AllBooked
    <3> QED
      BY <3>1, <3>2
  <2>5. (request[r].pc = "complete" => Settled(request[r].transfer))'
    BY <2>2, <2>4, SettledStays
  <2>6. RequestInv(r)'
    BY <2>2, <2>5 DEF RequestInv
  <2> QED
    BY <2>1, <2>2, <2>6, AnswerFrame
<1> QED
  BY <1>2, <1>3, <1>4, <1>5, <1>6, <1>7, <1>8, <1>9, <1>10, <1>11, <1>12, <1>13, <1>14,
     <1>15 DEF Step

LEMMA AnswerNext ==
  ASSUME TypeInv, endpoint = "send" => PayInv, AnswerInv, [Next]_vars
  PROVE  AnswerInv'
<1>1. ASSUME NEW r \in Requests, NEW p \in Payloads, Begin(r, p)
      PROVE  AnswerInv'
  <2> DEFINE q == [IdleRequest EXCEPT !.pc = "find", !.payload = p]
  <2>1. request' = [request EXCEPT ![r] = q] /\ UNCHANGED <<record, answers>>
    BY <1>1 DEF Begin
  <2>2. q \in RequestType /\ q.pc = "find"
    BY DEF IdleRequest, RequestType, RequestPcs
  <2> HIDE DEF q
  <2> QED
    BY <2>1, <2>2, MoveKeeps
<1>2. ASSUME NEW r \in Requests, Step(r)
      PROVE  AnswerInv'
  BY <1>2, AnswerStep
<1>3. ASSUME NEW r \in Requests, Crash(r)
      PROVE  AnswerInv'
  BY <1>3, FinishKeeps DEF Crash
<1>4. CASE Expire \/ UNCHANGED vars
  <2>1. UNCHANGED <<request, answers>> /\ record'.response = record.response
    BY <1>4 DEF Expire, vars, TypeInv, TypeOK
  <2>2. \A g \in Requests : RequestInv(g)'
    BY <2>1, RequestStays DEF AnswerInv
  <2>3. record.response # 0 => Settled(record.response)'
    BY <2>1, SettledStays DEF AnswerInv
  <2>4. \A a \in answers : Settled(a.transfer)'
    BY SettledStays DEF AnswerInv
  <2> QED
    BY <2>1, <2>2, <2>3, <2>4 DEF AnswerInv
<1> QED
  BY <1>1, <1>2, <1>3, <1>4 DEF Next

AllInv == TypeInv /\ (endpoint = "send" => PayInv) /\ AnswerInv

LEMMA AllInvariant == Spec => []AllInv
<1>1. Init => AllInv
  <2> SUFFICES ASSUME Init PROVE PayInv /\ AnswerInv
    BY TypeInit DEF AllInv
  <2>1. PayInv
    BY DEF Init, PayInv, AllLost, OnlyUnansweredRepeated, Holds, IdleRequest, NoPayment
  <2>2. AnswerInv
    BY DEF Init, AnswerInv, RequestInv, IdleRequest, NoRecord
  <2> QED
    BY <2>1, <2>2
<1>2. AllInv /\ [Next]_vars => AllInv'
  BY TypeNext, PayNext, AnswerNext, EndpointKept DEF AllInv
<1> QED
  BY <1>1, <1>2, PTL DEF Spec

\* However often, however concurrently and with whatever payload a payment's
\* key is used, and whatever the key layer lets through, it is paid again only
\* if the provider's answer to the time before was lost.
THEOREM PaysAgainOnlyIfLost == Spec => []PaidAgainOnlyIfLost
<1>1. AllInv => PaidAgainOnlyIfLost
  BY DEF AllInv, PayInv, PaidAgainOnlyIfLost
<1> QED
  BY <1>1, AllInvariant, PTL

\* Whatever repetition of a payment's key answers 200, replays included, names
\* the one confirmed payment.
THEOREM AnswersAgree == Spec => []OneAnswer
<1>1. AllInv => OneAnswer
  BY DEF AllInv, AnswerInv, Settled, OneAnswer
<1> QED
  BY <1>1, AllInvariant, PTL

\* No repetition of a deposit's key answers 200 before every bucket of the
\* deposit it names is debited.
THEOREM OkIsBooked == Spec => []OkMeansBooked
<1>1. AllInv => OkMeansBooked
  BY DEF AllInv, AnswerInv, Settled, AllBooked, OkMeansBooked
<1> QED
  BY <1>1, AllInvariant, PTL
=============================================================================
