--------------------------- MODULE AgreementMirror ---------------------------
(***************************************************************************)
(* One agreement of lib/onchain-agreements/service.ts.  The agreement      *)
(* itself lives in a contract (external: lib/docs/ONCHAIN_ARCHITECTURE.md  *)
(* sections 4-9); the database keeps a mirror of it.  An operation reads   *)
(* the mirror's row, submits a transaction with the operator's key, and    *)
(* then records, in one database transaction, that it did; the process may *)
(* die between the two.  The transaction is mined later, in the order of   *)
(* submission, and may revert although it passed the estimation of its     *)
(* gas.  syncAgreementFromChain reads the chain and copies what it read,   *)
(* the agreement first and then its condition or its stream.               *)
(*                                                                         *)
(* One condition and one stream stand for them all.  Left out: the time    *)
(* gates of the contract, the approval before a deposit, and what no code  *)
(* reads back, the log of actions and the columns lastTx*; what else the   *)
(* record of an operation changes is Mirrored.                             *)
(***************************************************************************)
EXTENDS Integers, Sequences

CONSTANTS
  Copiers,       \* concurrent calls of syncAgreementFromChain
  Principal,     \* what has to be deposited before the agreement is activated
  MaxOperations, \* bound: transactions submitted
  MaxPending     \* bound: transactions submitted and not mined

VARIABLES
  chain,     \* the contract's agreement
  mempool,   \* transactions submitted and not mined, oldest first
  mirror,    \* OnchainAgreement, its OnchainCondition and its OnchainStream
  pending,   \* calls that have a record to make of their transaction
  copying,   \* copying[s]: the sync s and what it has read
  operations \* transactions submitted so far

mirrorVars == <<chain, mempool, mirror, pending, copying, operations>>

ASSUME MirrorAssumption ==
  Principal \in Nat \ {0} /\ MaxOperations \in Nat /\ MaxPending \in Nat

Modules == {"NONE", "CONDITIONAL", "STREAM"}

Terminal == {"SETTLED", "CANCELLED", "EXPIRED"}

Statuses == {"NONE", "CREATED", "FUNDED", "ACTIVE"} \cup Terminal

\* The operations with nothing to record.  GRANT_AUTH and REVOKE_AUTH, which
\* change nothing that is mirrored either, are left out.
Plain == {"FUND", "ACTIVATE", "CANCEL", "EXPIRE", "RELEASE", "RELEASE_CONDITION",
          "CLAIM_STREAM"}

Recording == {"REGISTER_CONDITION", "AUTHORIZE_CONDITION", "CREATE_STREAM", "CANCEL_STREAM"}

NotCopying == [pc |-> "idle", seen |-> {}]

MirrorInit ==
  /\ chain \in [module : Modules, status : {"NONE"}, deposited : {0}, released : {0},
                condition : {"none"}, stream : {"none"}]
  /\ mempool = <<>>
  /\ mirror = [status |-> "NONE", deposited |-> 0, released |-> 0,
               condition |-> "none", authorized |-> FALSE, paidOut |-> FALSE,
               stream |-> "none"]
  /\ pending = {}
  /\ copying = [s \in Copiers |-> NotCopying]
  /\ operations = 0

-----------------------------------------------------------------------------
(* External: the contracts.  What reverts when it is mined would have been *)
(* refused by the estimation of its gas at that moment.                    *)

Early(c) == c.status \in {"CREATED", "FUNDED"}

Payable(c) == c.status = "ACTIVE" /\ c.released < c.deposited

Succeeds(op, c) ==
  \/ op = "CREATE" /\ c.status = "NONE"
  \/ op = "FUND" /\ Early(c) /\ c.deposited < Principal
  \/ op = "ACTIVATE" /\ c.status = "FUNDED" /\ c.deposited = Principal
  \/ op = "CANCEL" /\ (Early(c) \/ c.status = "ACTIVE")
  \/ op = "EXPIRE" /\ c.status = "ACTIVE"
  \/ op = "RELEASE" /\ Payable(c)
  \/ op = "REGISTER_CONDITION" /\ Early(c) /\ c.module = "CONDITIONAL" /\ c.condition = "none"
  \/ op = "AUTHORIZE_CONDITION" /\ c.condition = "registered"
  \/ op = "RELEASE_CONDITION" /\ Payable(c) /\ c.condition = "authorized"
  \/ op = "CREATE_STREAM" /\ Early(c) /\ c.module = "STREAM" /\ c.stream = "none"
  \/ op = "CLAIM_STREAM" /\ Payable(c) /\ c.stream = "running"
  \/ op = "CANCEL_STREAM" /\ c.status = "ACTIVE" /\ c.stream = "running"

Releasing(c) ==
  [c EXCEPT !.released = c.released + 1,
            !.status = IF c.released + 1 = c.deposited THEN "SETTLED" ELSE c.status]

\* A cancelled stream pays out what has accrued and refunds the rest.
Outcomes(op, c) ==
  CASE op = "CREATE" -> {[c EXCEPT !.status = "CREATED"]}
    [] op = "FUND" -> {[c EXCEPT !.status = "FUNDED", !.deposited = c.deposited + 1]}
    [] op = "ACTIVATE" -> {[c EXCEPT !.status = "ACTIVE"]}
    [] op = "CANCEL" -> {[c EXCEPT !.status = "CANCELLED"]}
    [] op = "EXPIRE" -> {[c EXCEPT !.status = "EXPIRED"]}
    [] op \in {"RELEASE", "CLAIM_STREAM"} -> {Releasing(c)}
    [] op = "REGISTER_CONDITION" -> {[c EXCEPT !.condition = "registered"]}
    [] op = "AUTHORIZE_CONDITION" -> {[c EXCEPT !.condition = "authorized"]}
    [] op = "RELEASE_CONDITION" -> {[Releasing(c) EXCEPT !.condition = "released"]}
    [] op = "CREATE_STREAM" -> {[c EXCEPT !.stream = "running"]}
    [] op = "CANCEL_STREAM" ->
         {[c EXCEPT !.stream = "cancelled", !.status = "CANCELLED", !.released = r] :
            r \in c.released .. c.deposited}

\* The oldest transaction is mined; one that reverts changes nothing.
Mine ==
  /\ mempool # <<>>
  /\ mempool' = Tail(mempool)
  /\ IF Succeeds(Head(mempool), chain)
     THEN chain' \in Outcomes(Head(mempool), chain) ELSE UNCHANGED chain
  /\ UNCHANGED <<mirror, pending, copying, operations>>

-----------------------------------------------------------------------------
(* The operations.  A call is what it has submitted, and what its record   *)
(* of it depends on: whether the row it read had a stream.                 *)

Call(ops) == [ops |-> ops, stream |-> mirror.stream # "none"]

\* The transaction of op is sent if the estimation of its gas succeeds.
Sent(op) ==
  /\ operations < MaxOperations /\ Len(mempool) < MaxPending
  /\ Succeeds(op, chain)
  /\ mempool' = Append(mempool, op)
  /\ operations' = operations + 1

\* createAgreementMirror and the first half of createStreamAgreement, whose id is new.
SubmitCreate ==
  /\ mirror.status = "NONE" /\ ~\E c \in pending : "CREATE" \in c.ops
  /\ operations = 0 /\ Sent("CREATE")
  /\ pending' = pending \cup {Call({"CREATE"})}
  /\ UNCHANGED <<chain, mirror, copying>>

\* The second half waits until the agreement is mined (createTx.wait).
SubmitItsStream ==
  /\ Call({"CREATE"}) \in pending
  /\ Sent("CREATE_STREAM")
  /\ pending' = (pending \ {Call({"CREATE"})}) \cup {Call({"CREATE", "CREATE_STREAM"})}
  /\ UNCHANGED <<chain, mirror, copying>>

Submit(op) ==
  /\ mirror.status # "NONE"
  /\ op = "CLAIM_STREAM" => mirror.stream # "none"
  /\ Sent(op)
  /\ pending' = IF op \in Plain THEN pending ELSE pending \cup {Call({op})}
  /\ UNCHANGED <<chain, mirror, copying>>

\* Mutant: the end of a stream's agreement is written when it is submitted.
Mirrored_Eagerly(c) ==
  CASE c.ops = {"CREATE"} -> [mirror EXCEPT !.status = "CREATED"]
    [] c.ops = {"CANCEL_STREAM"} -> [mirror EXCEPT !.status = "CANCELLED"]
    [] OTHER -> mirror

\* What the record of a call changes; a row that is there already makes it fail.
Mirrored(c) ==
  CASE "CREATE" \in c.ops ->
         [mirror EXCEPT !.status = "CREATED",
                        !.stream = IF "CREATE_STREAM" \in c.ops THEN "running" ELSE "none"]
    [] c.ops = {"REGISTER_CONDITION"} -> [mirror EXCEPT !.condition = "registered"]
    [] c.ops = {"AUTHORIZE_CONDITION"} ->
         [mirror EXCEPT !.authorized = mirror.condition # "none"]
    [] c.ops = {"CREATE_STREAM"} -> [mirror EXCEPT !.stream = "running"]
    [] c.ops = {"CANCEL_STREAM"} ->
         IF c.stream THEN [mirror EXCEPT !.stream = "cancelled"] ELSE mirror
    [] OTHER -> mirror

RowExists(c) ==
  \/ c.ops = {"REGISTER_CONDITION"} /\ mirror.condition # "none"
  \/ c.ops = {"CREATE_STREAM"} /\ mirror.stream # "none"

Record(c) ==
  /\ c \in pending
  /\ pending' = pending \ {c}
  /\ mirror' = IF RowExists(c) THEN mirror ELSE Mirrored(c)
  /\ UNCHANGED <<chain, mempool, copying, operations>>

\* The process dies, or the database is out of reach.
Forget(c) ==
  /\ c \in pending
  /\ pending' = pending \ {c}
  /\ UNCHANGED <<chain, mempool, mirror, copying, operations>>

-----------------------------------------------------------------------------
(* syncAgreementFromChain. *)

ReadAgreement(s) ==
  /\ copying[s].pc = "idle" /\ mirror.status # "NONE"
  /\ chain.status # "NONE"
  /\ copying' = [copying EXCEPT ![s] = [pc |-> "agreement", seen |-> {chain}]]
  /\ UNCHANGED <<chain, mempool, mirror, pending, operations>>

CopyAgreement(s) ==
  /\ copying[s].pc = "agreement"
  /\ \E c \in copying[s].seen :
       mirror' = [mirror EXCEPT !.status = c.status, !.deposited = c.deposited,
                                !.released = c.released]
  /\ copying' = [copying EXCEPT ![s] = [pc |-> "module", seen |-> {}]]
  /\ UNCHANGED <<chain, mempool, pending, operations>>

ReadModule(s) ==
  /\ copying[s].pc = "module"
  /\ copying' = [copying EXCEPT ![s] = [pc |-> "part", seen |-> {chain}]]
  /\ UNCHANGED <<chain, mempool, mirror, pending, operations>>

\* A condition is inserted or overwritten, a stream only overwritten.
CopyModule(s) ==
  /\ copying[s].pc = "part"
  /\ \E c \in copying[s].seen :
       mirror' =
         CASE c.condition # "none" ->
                [mirror EXCEPT !.condition = "registered",
                               !.authorized = c.condition \in {"authorized", "released"},
                               !.paidOut = c.condition = "released"]
           [] c.condition = "none" /\ c.stream # "none" /\ mirror.stream # "none" ->
                [mirror EXCEPT !.stream = c.stream]
           [] OTHER -> mirror
  /\ copying' = [copying EXCEPT ![s] = NotCopying]
  /\ UNCHANGED <<chain, mempool, pending, operations>>

\* An error, which the second part of a sync swallows, or a crash.
StopCopying(s) ==
  /\ copying[s].pc # "idle"
  /\ copying' = [copying EXCEPT ![s] = NotCopying]
  /\ UNCHANGED <<chain, mempool, mirror, pending, operations>>

-----------------------------------------------------------------------------
CallStep ==
  \/ SubmitCreate \/ SubmitItsStream
  \/ \E op \in Plain \cup Recording : Submit(op)
  \/ \E c \in pending : Record(c) \/ Forget(c)

CopyStep ==
  \E s \in Copiers :
    \/ ReadAgreement(s) \/ CopyAgreement(s)
    \/ ReadModule(s) \/ CopyModule(s)
    \/ StopCopying(s)

MirrorNext == Mine \/ CallStep \/ CopyStep

MirrorSpec == MirrorInit /\ [][MirrorNext]_mirrorVars

-----------------------------------------------------------------------------
Agreement ==
  [module : Modules, status : Statuses, deposited : Nat, released : Nat,
   condition : {"none", "registered", "authorized", "released"},
   stream : {"none", "running", "cancelled"}]

Mirror ==
  [status : Statuses, deposited : Nat, released : Nat,
   condition : {"none", "registered"}, authorized : BOOLEAN, paidOut : BOOLEAN,
   stream : {"none", "running", "cancelled"}]

\* The type invariant of the mirror of agreements.
MirrorTypeOK ==
  /\ chain \in Agreement /\ mirror \in Mirror
  /\ mempool \in Seq({"CREATE"} \cup Plain \cup Recording)
  /\ copying \in [Copiers -> [pc : {"idle", "agreement", "module", "part"},
                              seen : SUBSET Agreement]]
  /\ operations \in Nat

\* Whether an agreement that is t may have been s before.
Precedes(s, t) ==
  \/ s = t
  \/ s \in {"NONE", "CREATED"}
  \/ s = "FUNDED" /\ t \in {"ACTIVE"} \cup Terminal
  \/ s = "ACTIVE" /\ t \in Terminal

\* The mirror, late as it may be, is never ahead of the chain in what is
\* money: the status past CREATED, the deposits, what has been released, the
\* condition that has been paid out.  Transactions that are submitted and
\* revert, and syncs that copy out of order, do not make it so
\* (service.ts 329-341, 366-376, 832-873).
MirrorNotAhead ==
  /\ Precedes(mirror.status, chain.status)
  /\ mirror.deposited <= chain.deposited /\ mirror.released <= chain.released
  /\ mirror.paidOut => chain.condition = "released"

\* service.ts 11-15 leaves the flag "authorized" to an indexer that has seen
\* the event.
AuthorizedOnChain ==
  mirror.authorized => chain.condition \in {"authorized", "released"}

\* service.ts 4-9: an operation submits and records "atomically".
AgreementsRecorded ==
  chain.status # "NONE" => mirror.status # "NONE" \/ pending # {}
=============================================================================
