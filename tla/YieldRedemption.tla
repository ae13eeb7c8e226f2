--------------------------- MODULE YieldRedemption ---------------------------
(***************************************************************************)
(* The USYC positions of one bucket: lib/savings/yield.ts (deployToYield,  *)
(* requestRedemption and the submission of its requests to Circle) and     *)
(* jobs/confirmYieldRedemption.ts (the job that polls a conversion and     *)
(* books its outcome).                                                     *)
(*                                                                         *)
(* Circle settles a conversion on its own time.  The job may run several   *)
(* times at once for one request (a stalled job is delivered again), and   *)
(* several requests may draw on one position.  A position is rewritten     *)
(* from the value its transaction read at the start; what is credited      *)
(* twice is stopped by recordEntry, which returns the entry it finds for   *)
(* the same bucket and reference (LedgerEngine).                           *)
(*                                                                         *)
(* One USYC is one USDC: a net asset value only scales what is credited.   *)
(* retryRedemptionSubmission has no caller and is left out, and so are the *)
(* job's answers to a request that was never submitted, which is not       *)
(* queued.                                                                 *)
(***************************************************************************)
EXTENDS Integers, Sequences, FiniteSetsExt

CONSTANTS
  Clicks,       \* concurrent calls of requestRedemption
  Deployers,    \* concurrent calls of deployToYield
  YieldWorkers, \* concurrent runs of the confirmation job
  DeployAmount, \* USYC of one deployment
  MaxPositions, \* bound: deployments
  MaxRequests,  \* bound: redemption requests
  Attempts,     \* attempts of a confirmation job: 20
  MaxLosses     \* bound: crashes, lost answers and failed transactions

VARIABLES
  positions,    \* YieldPosition rows, in order of deployedAt
  requests,     \* YieldRedemptionRequest rows, in order of creation
  conversion,   \* conversion[r]: Circle's order for the key of request r
  submission,   \* submission[r]: the stage of submitRedemptionToCircle
  credited,     \* credited[r]: YIELD_REDEMPTION credits that name r
  tries,        \* tries[r]: attempts left of r's queued job
  click,        \* click[c]: the call of requestRedemption that c makes
  deployer,     \* deployer[d]: the call of deployToYield that d makes
  confirmer,    \* confirmer[w]: the run of the job that w makes
  losses        \* crashes, lost answers and failed transactions so far

yieldVars == <<positions, requests, conversion, submission, credited, tries,
               click, deployer, confirmer, losses>>

ASSUME YieldAssumption ==
  /\ DeployAmount \in Nat \ {0} /\ Attempts \in Nat \ {0}
  /\ MaxPositions \in Nat /\ MaxRequests \in Nat /\ MaxLosses \in Nat

-----------------------------------------------------------------------------
NoClick == [pc |-> "idle", seen |-> << >>, take |-> << >>]

NoConfirmer == [pc |-> "idle", request |-> 0, usyc |-> 0]

\* One position was deployed earlier.
YieldInit ==
  /\ positions = <<[usyc |-> DeployAmount, status |-> "ACTIVE"]>>
  /\ requests = << >>
  /\ conversion = << >>
  /\ submission = << >>
  /\ credited = << >>
  /\ tries = << >>
  /\ click = [c \in Clicks |-> NoClick]
  /\ deployer = [d \in Deployers |-> "idle"]
  /\ confirmer = [w \in YieldWorkers |-> NoConfirmer]
  /\ losses = 0

Live == {"PENDING", "PROCESSING"}

RequestsOf(p) == {r \in DOMAIN requests : requests[r].position = p}

Amounts(R) == MapThenSumSet(LAMBDA r : requests[r].amount, R)

\* What a live request holds of a position is not available to another.
Held(p) == Amounts({r \in RequestsOf(p) : requests[r].status \in Live})

-----------------------------------------------------------------------------
(* deployToYield *)

\* The bucket is debited, in a transaction of its own; too little refuses it.
Debit(d) ==
  /\ deployer[d] = "idle"
  /\ deployer' = [deployer EXCEPT ![d] = "convert"]
  /\ UNCHANGED <<positions, requests, conversion, submission, credited, tries,
                 click, confirmer, losses>>

\* createUsycConversion is accepted; or it throws, converted or not.
Convert(d) ==
  /\ deployer[d] = "convert"
  /\ \/ deployer' = [deployer EXCEPT ![d] = "create"]
     \/ deployer' = [deployer EXCEPT ![d] = "reverse"]
  /\ UNCHANGED <<positions, requests, conversion, submission, credited, tries,
                 click, confirmer, losses>>

CreatePosition(d) ==
  /\ deployer[d] = "create"
  /\ Len(positions) < MaxPositions
  /\ positions' = Append(positions, [usyc |-> DeployAmount, status |-> "ACTIVE"])
  /\ deployer' = [deployer EXCEPT ![d] = "idle"]
  /\ UNCHANGED <<requests, conversion, submission, credited, tries, click, confirmer, losses>>

\* The debit is given back by an ADJUSTMENT.
Reverse(d) ==
  /\ deployer[d] = "reverse"
  /\ deployer' = [deployer EXCEPT ![d] = "idle"]
  /\ UNCHANGED <<positions, requests, conversion, submission, credited, tries,
                 click, confirmer, losses>>

\* The process dies: the debit stays, with or without a conversion.
DeployerDies(d) ==
  /\ deployer[d] # "idle"
  /\ losses < MaxLosses
  /\ losses' = losses + 1
  /\ deployer' = [deployer EXCEPT ![d] = "idle"]
  /\ UNCHANGED <<positions, requests, conversion, submission, credited, tries,
                 click, confirmer>>

-----------------------------------------------------------------------------
(* requestRedemption: three reads or writes, none of them in a transaction. *)

ReadPositions(c) ==
  /\ click[c].pc = "idle"
  /\ click' = [click EXCEPT ![c] =
       [pc |-> "sum", take |-> << >>,
        seen |-> [p \in DOMAIN positions |->
                    IF positions[p].status = "ACTIVE" THEN positions[p].usyc ELSE 0]]]
  /\ UNCHANGED <<positions, requests, conversion, submission, credited, tries,
                 deployer, confirmer, losses>>

\* Available: the positions that were read less what is held of them by now.
Available(seen) == [p \in DOMAIN seen |-> Max({0, seen[p] - Held(p)})]

\* Oldest positions first, until n is covered.
Fifo(available, n) ==
  [p \in DOMAIN available |->
     Min({available[p],
          Max({0, n - MapThenSumSet(LAMBDA q : available[q], 1..(p - 1))})})]

ReadHeld(c) ==
  LET available == Available(click[c].seen)
      total == MapThenSumSet(LAMBDA p : available[p], DOMAIN available)
  IN  /\ click[c].pc = "sum"
      /\ \/ \E n \in 1..total :
              click' = [click EXCEPT ![c] =
                [pc |-> "create", seen |-> << >>, take |-> Fifo(available, n)]]
         \/ click' = [click EXCEPT ![c] = NoClick]
      /\ UNCHANGED <<positions, requests, conversion, submission, credited,
                     tries, deployer, confirmer, losses>>

\* One row per position touched, each submitted without being awaited.
CreateRequest(c) ==
  LET touched == {p \in DOMAIN click[c].take : click[c].take[p] > 0}
      p == Min(touched)
  IN  /\ click[c].pc = "create"
      /\ IF touched = {}
         THEN /\ click' = [click EXCEPT ![c] = NoClick]
              /\ UNCHANGED <<requests, conversion, submission, credited, tries>>
         ELSE /\ Len(requests) < MaxRequests
              /\ requests' = Append(requests,
                   [position |-> p, amount |-> click[c].take[p], status |-> "PENDING"])
              /\ conversion' = Append(conversion, "none")
              /\ submission' = Append(submission, "convert")
              /\ credited' = Append(credited, 0)
              /\ tries' = Append(tries, 0)
              /\ click' = [click EXCEPT ![c].take[p] = 0]
      /\ UNCHANGED <<positions, deployer, confirmer, losses>>

-----------------------------------------------------------------------------
(* submitRedemptionToCircle, which runs on its own for each request. *)

SubmitTo(r, stage) == submission' = [submission EXCEPT ![r] = stage]

SubmitRequest(r) ==
  /\ submission[r] = "convert"
  /\ conversion' = [conversion EXCEPT ![r] = "settling"]
  /\ SubmitTo(r, "record")
  /\ UNCHANGED <<positions, requests, credited, tries, click, deployer, confirmer, losses>>

\* The conversion id is stored with PROCESSING.
RecordSubmission(r) ==
  /\ submission[r] = "record"
  /\ requests' = [requests EXCEPT ![r].status = "PROCESSING"]
  /\ SubmitTo(r, "enqueue")
  /\ UNCHANGED <<positions, conversion, credited, tries, click, deployer, confirmer, losses>>

QueueConfirmation(r) ==
  /\ submission[r] = "enqueue"
  /\ tries' = [tries EXCEPT ![r] = Attempts]
  /\ SubmitTo(r, "over")
  /\ UNCHANGED <<positions, requests, conversion, credited, click, deployer, confirmer, losses>>

\* An error or a crash at any stage: logged, and nothing takes the request up
\* again.  The order may have been placed although its answer is lost.
SubmissionLost(r) ==
  /\ submission[r] # "over"
  /\ losses < MaxLosses
  /\ losses' = losses + 1
  /\ \/ UNCHANGED conversion
     \/ /\ submission[r] = "convert"
        /\ conversion' = [conversion EXCEPT ![r] = "settling"]
  /\ SubmitTo(r, "over")
  /\ UNCHANGED <<positions, requests, credited, tries, click, deployer, confirmer>>

\* Circle decides.
Settle(r, outcome) ==
  /\ conversion[r] = "settling"
  /\ conversion' = [conversion EXCEPT ![r] = outcome]
  /\ UNCHANGED <<positions, requests, submission, credited, tries, click,
                 deployer, confirmer, losses>>

-----------------------------------------------------------------------------
(* confirmYieldRedemption *)

\* Reads the request; one that is decided ends the job.
StartConfirm(w, r) ==
  /\ confirmer[w].pc = "idle"
  /\ tries[r] > 0
  /\ IF requests[r].status \in {"COMPLETED", "FAILED"}
     THEN tries' = [tries EXCEPT ![r] = 0] /\ UNCHANGED confirmer
     ELSE /\ confirmer' = [confirmer EXCEPT ![w] = [NoConfirmer EXCEPT !.pc = "poll", !.request = r]]
          /\ UNCHANGED tries
  /\ UNCHANGED <<positions, requests, conversion, submission, credited, click, deployer, losses>>

TryAgain(w) == tries' = [tries EXCEPT ![confirmer[w].request] = IF @ > 0 THEN @ - 1 ELSE 0]

\* Asks Circle: settled, failed, or not yet, which throws.
Poll(w) ==
  LET state == conversion[confirmer[w].request]
  IN  /\ confirmer[w].pc = "poll"
      /\ IF state = "settling"
         THEN TryAgain(w) /\ confirmer' = [confirmer EXCEPT ![w] = NoConfirmer]
         ELSE /\ confirmer' = [confirmer EXCEPT ![w].pc = IF state = "complete" THEN "begin" ELSE "fail"]
              /\ UNCHANGED tries
      /\ UNCHANGED <<positions, requests, conversion, submission, credited,
                     click, deployer, losses>>

MarkFailed(w) ==
  LET r == confirmer[w].request
  IN  /\ confirmer[w].pc = "fail"
      /\ requests' = [requests EXCEPT ![r].status = "FAILED"]
      /\ tries' = [tries EXCEPT ![r] = 0]
      /\ confirmer' = [confirmer EXCEPT ![w] = NoConfirmer]
      /\ UNCHANGED <<positions, conversion, submission, credited, click, deployer, losses>>

\* Mutant: the transaction does not look at the status again.
AlreadyHandled_Unread(r) == FALSE

AlreadyHandled(r) == requests[r].status = "COMPLETED"

\* finalizeSuccessfulRedemption: the transaction reads request and position ...
BeginFinalize(w) ==
  LET r == confirmer[w].request
  IN  /\ confirmer[w].pc = "begin"
      /\ IF AlreadyHandled(r)
         THEN /\ confirmer' = [confirmer EXCEPT ![w] = NoConfirmer]
              /\ tries' = [tries EXCEPT ![r] = 0]
         ELSE /\ confirmer' = [confirmer EXCEPT ![w].pc = "commit",
                                                ![w].usyc = positions[requests[r].position].usyc]
              /\ UNCHANGED tries
      /\ UNCHANGED <<positions, requests, conversion, submission, credited,
                     click, deployer, losses>>

\* Mutant: every run of the job credits under a reference of its own.
Recorded_FreshReference(n) == n + 1

\* recordEntry of a reference the bucket has seen returns the entry it has.
Recorded(n) == 1

\* ... then, from the lock that recordEntry takes of the bucket to the commit,
\* credits it and writes the position and the request.
CommitFinalize(w) ==
  LET r == confirmer[w].request
      left == Max({0, confirmer[w].usyc - requests[r].amount})
  IN  /\ confirmer[w].pc = "commit"
      /\ credited' = [credited EXCEPT ![r] = Recorded(@)]
      /\ positions' = [positions EXCEPT ![requests[r].position] =
                         [usyc |-> left, status |-> IF left = 0 THEN "REDEEMED" ELSE "ACTIVE"]]
      /\ requests' = [requests EXCEPT ![r].status = "COMPLETED"]
      /\ tries' = [tries EXCEPT ![r] = 0]
      /\ confirmer' = [confirmer EXCEPT ![w] = NoConfirmer]
      /\ UNCHANGED <<conversion, submission, click, deployer, losses>>

\* The process dies or a query fails, and the transaction rolls back.
ConfirmFails(w) ==
  /\ confirmer[w].pc # "idle"
  /\ losses < MaxLosses
  /\ losses' = losses + 1
  /\ TryAgain(w)
  /\ confirmer' = [confirmer EXCEPT ![w] = NoConfirmer]
  /\ UNCHANGED <<positions, requests, conversion, submission, credited, click, deployer>>

-----------------------------------------------------------------------------
DeployStep(d) == Debit(d) \/ Convert(d) \/ CreatePosition(d) \/ Reverse(d) \/ DeployerDies(d)

ClickStep(c) == ReadPositions(c) \/ ReadHeld(c) \/ CreateRequest(c)

RequestStep(r) ==
  \/ SubmitRequest(r)
  \/ RecordSubmission(r)
  \/ QueueConfirmation(r)
  \/ SubmissionLost(r)
  \/ \E outcome \in {"complete", "failed"} : Settle(r, outcome)

ConfirmStep(w) ==
  \/ \E r \in DOMAIN requests : StartConfirm(w, r)
  \/ Poll(w)
  \/ MarkFailed(w)
  \/ BeginFinalize(w)
  \/ CommitFinalize(w)
  \/ ConfirmFails(w)

YieldNext ==
  \/ \E d \in Deployers : DeployStep(d)
  \/ \E c \in Clicks : ClickStep(c)
  \/ \E r \in DOMAIN requests : RequestStep(r)
  \/ \E w \in YieldWorkers : ConfirmStep(w)

YieldSpec == YieldInit /\ [][YieldNext]_yieldVars

-----------------------------------------------------------------------------
YieldTypeOK ==
  /\ positions \in Seq([usyc : Nat, status : {"ACTIVE", "REDEEMED"}])
  /\ requests \in Seq([position : Nat, amount : Nat,
                       status : {"PENDING", "PROCESSING", "COMPLETED", "FAILED"}])
  /\ \A r \in DOMAIN requests : requests[r].position \in DOMAIN positions
  /\ conversion \in Seq({"none", "settling", "complete", "failed"})
  /\ submission \in Seq({"convert", "record", "enqueue", "over"})
  /\ credited \in Seq(Nat) /\ tries \in Seq(Nat)
  /\ Len(conversion) = Len(requests) /\ Len(submission) = Len(requests)
  /\ Len(credited) = Len(requests) /\ Len(tries) = Len(requests)
  /\ \A c \in Clicks : click[c].pc \in {"idle", "sum", "create"}
  /\ deployer \in [Deployers -> {"idle", "convert", "create", "reverse"}]
  /\ confirmer \in [YieldWorkers ->
       [pc : {"idle", "poll", "fail", "begin", "commit"}, request : Nat, usyc : Nat]]
  /\ losses \in Nat

\* What a request says is what Circle did and what the bucket was given: a
\* COMPLETED one is settled and credited exactly once, any other is not
\* credited, and a FAILED one was not settled, however often the job runs.
OutcomeMatchesCircle ==
  \A r \in DOMAIN requests :
    /\ requests[r].status = "COMPLETED" => conversion[r] = "complete" /\ credited[r] = 1
    /\ requests[r].status # "COMPLETED" => credited[r] = 0
    /\ requests[r].status = "FAILED" => conversion[r] = "failed"

\* No USYC is taken off a position without a completed request for it: the
\* positions are written back from what was read before other runs of the job
\* committed, which may leave too much on them but never too little.
PositionKeepsRest ==
  \A p \in DOMAIN positions :
    positions[p].usyc + Amounts({r \in RequestsOf(p) : requests[r].status = "COMPLETED"})
      >= DeployAmount

\* "Two concurrent redeem clicks must never both succeed against the same
\* USYC" (lib/savings/yield.ts:219-222): what Circle was asked to redeem of a
\* position is no more than was deployed.
RedeemedOnce ==
  \A p \in DOMAIN positions :
    Amounts({r \in RequestsOf(p) : requests[r].status # "FAILED"}) <= DeployAmount

=============================================================================
