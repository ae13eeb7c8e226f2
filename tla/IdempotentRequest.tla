------------------------- MODULE IdempotentRequest -------------------------
(***************************************************************************)
(* One Idempotency-Key and the HTTP requests that carry it to an endpoint: *)
(* the reservation layer of lib/transfers/idempotency.ts around the two    *)
(* kinds of work that the routes put behind it.                            *)
(*                                                                         *)
(*   "send"     POST /api/transfers/send: sendPayment, which has a guard   *)
(*              of its own (a payment per key, claimed once; its protocol  *)
(*              is the module SendPayment);                                *)
(*   "deposit"  POST /api/wallet/unified-balance/deposit:                  *)
(*              fundUnifiedBalance, which has none: it moves USDC into     *)
(*              Circle Gateway and then debits the buckets the user chose, *)
(*              one recordEntry after the other.                           *)
(*                                                                         *)
(* A client may repeat a request at any time, also while an earlier one is *)
(* still running, and may reuse the key for another payload.  A request    *)
(* may die at any statement, and the provider's answer may be lost after   *)
(* it has made the transfer: the caller then sees an error like any other. *)
(* effects[i] is the payload that transfer i was made for; lost, a history *)
(* variable, are the transfers whose answer was lost.                      *)
(***************************************************************************)
EXTENDS Integers, Sequences, FiniteSets

CONSTANTS
  Endpoints,     \* "send", "deposit": where the key may be used
  Requests,      \* concurrent requests
  Payloads,      \* what the key may be sent with
  Buckets,
  Debits,        \* Debits[e][p][b]: what payload p takes from b at endpoint e
  Funds,         \* Funds[b]: what bucket b holds
  NoPayload,
  MayExpire,     \* can the key grow older than its 24 hours?
  MaxRequests    \* bound: requests begun

VARIABLES
  endpoint,  \* the endpoint the requests are for
  record,    \* the IdempotencyKey row (absent: with the id of the last one)
  payment,   \* the OnchainTransaction row of the key ("send")
  effects,   \* the transfers made, in order
  lost,      \* those of them that were never answered
  balance,   \* balance[b]
  booked,    \* the <<transfer, bucket>> pairs debited
  request,   \* request[r]: the HTTP request r runs
  answers,   \* the 200 answers given: payload asked, transfer named
  begun      \* requests begun

vars ==
  <<endpoint, record, payment, effects, lost, balance, booked, request, answers, begun>>

ASSUME EndpointsAssumption == Endpoints \subseteq {"send", "deposit"} /\ MayExpire \in BOOLEAN
ASSUME PayloadsAssumption == NoPayload \notin Payloads
ASSUME DebitsAssumption ==
  /\ Debits \in [Endpoints -> [Payloads -> [Buckets -> Nat]]]
  /\ Funds \in [Buckets -> Nat]
ASSUME RequestsAssumption == MaxRequests \in Nat

-----------------------------------------------------------------------------
NoRecord == [status |-> "ABSENT", hash |-> NoPayload, response |-> 0, id |-> 0,
             expired |-> FALSE]

NoPayment == [status |-> "ABSENT", transfer |-> 0]

IdleRequest == [pc |-> "idle", payload |-> NoPayload, transfer |-> 0, left |-> {},
                seen |-> 0]

Init ==
  /\ endpoint \in Endpoints
  /\ record = NoRecord
  /\ payment = NoPayment
  /\ effects = << >>
  /\ lost = {}
  /\ balance = Funds
  /\ booked = {}
  /\ request = [r \in Requests |-> IdleRequest]
  /\ answers = {}
  /\ begun = 0

Goto(r, pc) == request' = [request EXCEPT ![r].pc = pc]

Finish(r) == request' = [request EXCEPT ![r] = IdleRequest]

Taken(p, b) == Debits[endpoint][p][b]

\* The buckets a payload names.
Named(p) == {b \in Buckets : Taken(p, b) > 0}

-----------------------------------------------------------------------------
(* The layer. *)

Begin(r, p) ==
  /\ request[r].pc = "idle"
  /\ begun < MaxRequests
  /\ begun' = begun + 1
  /\ request' = [request EXCEPT ![r] = [IdleRequest EXCEPT !.pc = "find", !.payload = p]]
  /\ UNCHANGED <<endpoint, record, payment, effects, lost, balance, booked, answers>>

\* A request goes on knowing which row it has seen last.
Look(r, pc) == request' = [request EXCEPT ![r].pc = pc, ![r].seen = record.id]

\* Expired, COMPLETED (replayed, or refused for another payload), PENDING
\* (refused); absent or FAILED, it is reserved.
Find(r) ==
  LET p == request[r].payload
      replay == record.status = "COMPLETED" /\ record.hash = p
  IN  /\ request[r].pc = "find"
      /\ IF record.expired
         THEN Look(r, "delete") /\ UNCHANGED answers
         ELSE IF replay
         THEN /\ answers' = IF record.response = 0 THEN answers
                            ELSE answers \cup {[payload |-> p, transfer |-> record.response]}
              /\ Finish(r)
         ELSE IF record.status \in {"COMPLETED", "PENDING"}
         THEN Goto(r, "fail") /\ UNCHANGED answers
         ELSE Look(r, "reserve") /\ UNCHANGED answers
      /\ UNCHANGED <<endpoint, record, payment, effects, lost, balance, booked, begun>>

\* The delete is by row id; if the row has been replaced it finds nothing.
Delete(r) ==
  /\ request[r].pc = "delete"
  /\ record' = IF record.id = request[r].seen THEN [NoRecord EXCEPT !.id = record.id]
               ELSE record
  /\ Look(r, "reserve")
  /\ UNCHANGED <<endpoint, payment, effects, lost, balance, booked, answers, begun>>

\* The upsert: it updates whatever row it finds, a PENDING one too, and leaves
\* an old response where it is.
Reserve(r) ==
  /\ request[r].pc = "reserve"
  /\ record' = [record EXCEPT !.status = "PENDING", !.hash = request[r].payload,
                              !.expired = FALSE,
                              !.id = IF record.status = "ABSENT" THEN @ + 1 ELSE @]
  /\ Goto(r, "work")
  /\ UNCHANGED <<endpoint, payment, effects, lost, balance, booked, answers, begun>>

\* An insert that loses to another's since the row was looked for: P2002, a
\* DuplicateRequestError.
ReserveCollides(r) ==
  /\ request[r].pc = "reserve"
  /\ record.status # "ABSENT" /\ record.id # request[r].seen
  /\ Goto(r, "fail")
  /\ UNCHANGED <<endpoint, record, payment, effects, lost, balance, booked, answers, begun>>

\* The response is stored on whatever row there is, and sent; with no row the
\* update throws.
Respond(r, transfer) ==
  IF record.status = "ABSENT"
  THEN Goto(r, "fail") /\ UNCHANGED <<record, answers>>
  ELSE /\ record' = [record EXCEPT !.status = "COMPLETED", !.response = transfer]
       /\ answers' = IF transfer = 0 THEN answers
                     ELSE answers \cup {[payload |-> request[r].payload,
                                         transfer |-> transfer]}
       /\ Finish(r)

\* Mutant: the response is stored before the buckets are debited.
Worked_Early(r) == request[r].pc \in {"book", "complete"}

Worked(r) == request[r].pc = "complete"

Complete(r) ==
  /\ Worked(r)
  /\ Respond(r, request[r].transfer)
  /\ UNCHANGED <<endpoint, payment, effects, lost, balance, booked, begun>>

\* The catch block, for every error: also for the refusal of a duplicate.
Fail(r) ==
  /\ request[r].pc = "fail"
  /\ record' = IF record.status = "ABSENT" THEN record
               ELSE [record EXCEPT !.status = "FAILED"]
  /\ Finish(r)
  /\ UNCHANGED <<endpoint, payment, effects, lost, balance, booked, answers, begun>>

-----------------------------------------------------------------------------
(* sendPayment, in short. *)

\* Mutant: a payment in flight is paid again.
InFlight_Never == FALSE

InFlight == payment.status = "SENDING"

\* Mutant: a retry does not look for the payment it repeats.
Paid_Never == FALSE

Paid == payment.status = "CONFIRMED"

Covered(p) == \A b \in Buckets : Taken(p, b) <= balance[b]

\* Its balance check, its lookup and its claim.
Claim(r) ==
  /\ request[r].pc = "work" /\ endpoint = "send"
  /\ IF ~Covered(request[r].payload) \/ InFlight
     THEN Goto(r, "fail") /\ UNCHANGED payment
     ELSE IF Paid
     THEN /\ request' = [request EXCEPT ![r].pc = "complete",
                                        ![r].transfer = payment.transfer]
          /\ UNCHANGED payment
     ELSE /\ payment' = [payment EXCEPT !.status = "SENDING"]
          /\ Goto(r, "provider")
  /\ UNCHANGED <<endpoint, record, effects, lost, balance, booked, answers, begun>>

\* The transfer's answer is written to the row.
Confirm(r) ==
  /\ request[r].pc = "confirm"
  /\ payment' = [status |-> "CONFIRMED", transfer |-> request[r].transfer]
  /\ Goto(r, "book")
  /\ UNCHANGED <<endpoint, record, effects, lost, balance, booked, answers, begun>>

-----------------------------------------------------------------------------
(* fundUnifiedBalance. *)

\* The wallet cannot be registered on the chain: the 502 is stored as the
\* response of the key.
DeriveFails(r) ==
  /\ request[r].pc = "work" /\ endpoint = "deposit"
  /\ Respond(r, 0)
  /\ UNCHANGED <<endpoint, payment, effects, lost, balance, booked, begun>>

\* Every bucket's balance is read before anything moves.
Check(r) ==
  /\ request[r].pc = "work" /\ endpoint = "deposit"
  /\ Goto(r, IF Covered(request[r].payload) THEN "provider" ELSE "fail")
  /\ UNCHANGED <<endpoint, record, payment, effects, lost, balance, booked, answers, begun>>

\* The provider makes the transfer.
Accept(r) ==
  /\ request[r].pc = "provider"
  /\ effects' = Append(effects, request[r].payload)
  /\ request' = [request EXCEPT
       ![r].pc = IF endpoint = "send" THEN "confirm" ELSE "book",
       ![r].transfer = Len(effects) + 1, ![r].left = Named(request[r].payload)]
  /\ UNCHANGED <<endpoint, record, payment, lost, balance, booked, answers, begun>>

\* What an error of the provider's leaves behind: the payment's row is FAILED,
\* and free for a retry to claim.
ProviderError(r) ==
  /\ payment' = IF endpoint = "send" THEN [payment EXCEPT !.status = "FAILED"]
                ELSE payment
  /\ Goto(r, "fail")

\* The provider refuses.
Refuse(r) ==
  /\ request[r].pc = "provider"
  /\ ProviderError(r)
  /\ UNCHANGED <<endpoint, record, effects, lost, balance, booked, answers, begun>>

\* The provider makes the transfer and its answer is lost: an error all the
\* same, for either endpoint.
LoseAnswer(r) ==
  /\ request[r].pc = "provider"
  /\ effects' = Append(effects, request[r].payload)
  /\ lost' = lost \cup {Len(effects) + 1}
  /\ ProviderError(r)
  /\ UNCHANGED <<endpoint, record, balance, booked, answers, begun>>

Short(r, b) == balance[b] < Taken(request[r].payload, b)

\* recordEntry, bucket by bucket; one that another request has drained since
\* ends the request with an error, whatever is already booked.
Book(r) ==
  /\ request[r].pc = "book"
  /\ \E b \in request[r].left :
       IF Short(r, b)
       THEN Goto(r, "fail") /\ UNCHANGED <<booked, balance>>
       ELSE /\ booked' = booked \cup {<<request[r].transfer, b>>}
            /\ balance' = [balance EXCEPT ![b] = @ - Taken(request[r].payload, b)]
            /\ request' = [request EXCEPT ![r].left = @ \ {b}]
  /\ UNCHANGED <<endpoint, record, payment, effects, lost, answers, begun>>

Booked(r) ==
  /\ request[r].pc = "book" /\ request[r].left = {}
  /\ Goto(r, "complete")
  /\ UNCHANGED <<endpoint, record, payment, effects, lost, balance, booked, answers, begun>>

-----------------------------------------------------------------------------
\* The process dies.
Crash(r) ==
  /\ request[r].pc # "idle"
  /\ Finish(r)
  /\ UNCHANGED <<endpoint, record, payment, effects, lost, balance, booked, answers, begun>>

\* 24 hours have passed since the key was last reserved.
Expire ==
  /\ MayExpire
  /\ record.status # "ABSENT" /\ ~record.expired
  /\ record' = [record EXCEPT !.expired = TRUE]
  /\ UNCHANGED <<endpoint, payment, effects, lost, balance, booked, request, answers, begun>>

Step(r) ==
  \/ Find(r) \/ Delete(r) \/ Reserve(r) \/ ReserveCollides(r) \/ Complete(r) \/ Fail(r)
  \/ Claim(r) \/ Confirm(r)
  \/ DeriveFails(r) \/ Check(r) \/ Accept(r) \/ Refuse(r) \/ LoseAnswer(r)
  \/ Book(r) \/ Booked(r)

Next ==
  \/ \E r \in Requests, p \in Payloads : Begin(r, p)
  \/ \E r \in Requests : Step(r) \/ Crash(r)
  \/ Expire

Spec == Init /\ [][Next]_vars

-----------------------------------------------------------------------------
(* Properties. *)

RequestPcs == {"idle", "find", "delete", "reserve", "work", "provider", "confirm",
               "book", "complete", "fail"}

\* Every variable keeps the shape the code gives it; no bucket is overdrawn.
TypeOK ==
  /\ endpoint \in Endpoints
  /\ record \in [status : {"ABSENT", "PENDING", "COMPLETED", "FAILED"},
                 hash : Payloads \cup {NoPayload}, response : Nat, id : Nat,
                 expired : BOOLEAN]
  /\ payment \in [status : {"ABSENT", "SENDING", "CONFIRMED", "FAILED"}, transfer : Nat]
  /\ effects \in Seq(Payloads)
  /\ lost \subseteq Nat
  /\ balance \in [Buckets -> Nat]
  /\ booked \subseteq Nat \X Buckets
  /\ request \in [Requests ->
       [pc : RequestPcs, payload : Payloads \cup {NoPayload}, transfer : Nat,
        left : SUBSET Buckets, seen : Nat]]
  /\ answers \subseteq [payload : Payloads, transfer : Nat]
  /\ begun \in 0..MaxRequests

\* Every transfer but the last went unanswered.
OnlyUnansweredRepeated == \A i \in DOMAIN effects : i < Len(effects) => i \in lost

\* However often and however concurrently a payment is requested with one key,
\* also after the key layer has let a repetition through, it leaves again only
\* if the provider never answered for the time before: no race, expiry, refusal
\* or crash pays a second time.  (A lost answer does: send.ts frees the row.)
PaidAgainOnlyIfLost == endpoint = "send" => OnlyUnansweredRepeated

\* What idempotency.ts says it guards against, for all work behind it: the
\* reservation is "race-safe across concurrent requests" and stops a
\* "double-submission from a slow/retrying UI".
MadeAgainOnlyIfLost == OnlyUnansweredRepeated

\* Every answer of 200 to a deposit, replays included, names a deposit whose
\* buckets have all been debited: no repetition of the key answers 200 early.
\* (A payment's retry may: the process can die between CONFIRMED and the debit.)
OkMeansBooked ==
  endpoint = "deposit" => \A a \in answers :
    /\ a.transfer \in DOMAIN effects
    /\ \A b \in Named(effects[a.transfer]) : <<a.transfer, b>> \in booked

\* sendPayment's own guard keeps a key's answers together: all of them, across
\* races, expiry, re-reservations and payloads, name the one confirmed payment.
OneAnswer ==
  endpoint = "send" => \A a \in answers : Paid /\ a.transfer = payment.transfer

\* What is reserved is exclusive: "race-safe across concurrent requests".
Working(r) == request[r].pc \in {"work", "provider", "confirm", "book", "complete"}
OneInFlight == \A q, r \in Requests : Working(q) /\ Working(r) => q = r

\* A COMPLETED key is replayed until it expires, not run again.
CompletedStays ==
  [][record.status = "COMPLETED" /\ ~record.expired => record'.status = "COMPLETED"]_vars

\* A key used "with a different request payload" is refused: nobody is told 200
\* of a transfer made for another payload.
AnswersAsked ==
  \A a \in answers : effects[a.transfer] = a.payload

\* "A genuinely failed attempt can be retried with the same key": a response
\* that is replayed is the response to work done.
ErrorsRetryable == record.status = "COMPLETED" => record.response # 0
=============================================================================
