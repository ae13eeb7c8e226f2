---------------------------- MODULE LedgerEngine ----------------------------
(***************************************************************************)
(* The append-only ledger of lib/ledger/engine.ts, as Postgres runs it.    *)
(*                                                                         *)
(* A worker (an API route, a webhook handler, a background job) runs one   *)
(* interactive transaction at a time: it takes row locks on the accounts   *)
(* it is about to write (SELECT ... FOR UPDATE), reads the latest balance, *)
(* looks the idempotency key up, inserts the entry and commits.  Each      *)
(* database statement is one step, so transactions interleave between      *)
(* statements; a connection may be lost at any of them, which rolls the    *)
(* transaction back, and callers may repeat an operation at any time.      *)
(*                                                                         *)
(* entries[a] holds the committed rows of account a in commit order.  The  *)
(* code never sees that order: it sorts by createdAt, a millisecond stamp  *)
(* of the clock of the host that ran the insert, so that rows may tie, or  *)
(* carry stamps in another order than they were committed in.  What the    *)
(* engine promises of balances holds as long as they do not.               *)
(***************************************************************************)
EXTENDS Integers, Sequences, RowSums

CONSTANTS
  Workers,      \* concurrent transactions
  Accounts,     \* ledger account ids; naturals, so that they can be sorted
  Missing,      \* ids among them that no row of LedgerAccount has
  Ops,          \* the operations callers may request (and repeat)
  Free,         \* no transaction holds the row lock
  NoEntry,      \* no uncommitted row
  NoOp,         \* no operation in progress
  Skew,         \* Skew[w]: how far the clock of w's host is ahead, in ticks
  Elapsed,      \* ticks that may pass from one insert to the next
  MaxAttempts   \* bound: operations begun, retries included

VARIABLES
  entries,      \* entries[a]: committed LedgerEntry rows of a, in commit order
  lock,         \* lock[a]: the transaction that holds a's row lock
  tx,           \* tx[w]: the transaction w runs
  now,          \* true time, in ticks of createdAt
  attempts,     \* operations begun
  audit         \* the reconcileAccount call in progress

vars == <<entries, lock, tx, now, attempts, audit>>

-----------------------------------------------------------------------------
(* Operations, as the two exported functions build them. *)

Post(acct, amount, dir, ref, allowNegative) ==
  [acct |-> acct, amount |-> amount, dir |-> dir, ref |-> ref,
   allowNegative |-> allowNegative]

RecordEntry(acct, amount, dir, ref, allowNegative) ==
  [locks |-> << >>, posts |-> <<Post(acct, amount, dir, ref, allowNegative)>>]

\* Mutant: the rows are locked in the order the caller names them.
LockOrder_AsGiven(from, to) == <<from, to>>

\* Both rows are locked in id order before the first entry is recorded.
LockOrder(from, to) == IF from < to THEN <<from, to>> ELSE <<to, from>>

TransferBetweenLedgerAccounts(from, to, amount, ref) ==
  [locks |-> LockOrder(from, to),
   posts |-> <<Post(from, amount, "DEBIT", ref, FALSE),
               Post(to, amount, "CREDIT", ref, FALSE)>>]

IsPost(p) ==
  /\ p.acct \in Accounts
  /\ p.amount \in Nat \ {0}
  /\ p.dir \in DIRECTIONS
  /\ p.allowNegative \in BOOLEAN

(***************************************************************************)
(* What the code checks before it opens a transaction: positive amounts,   *)
(* and a transfer (a debit and a credit) between two different accounts.   *)
(***************************************************************************)
IsOp(op) ==
  /\ op.locks \in Seq(Accounts)
  /\ DOMAIN op.posts = 1..Len(op.posts) /\ Len(op.posts) \in {1, 2}
  /\ \A i \in DOMAIN op.posts : IsPost(op.posts[i])
  /\ \A i, j \in DOMAIN op.posts : i # j =>
       op.posts[i].acct # op.posts[j].acct /\ op.posts[i].dir # op.posts[j].dir

ASSUME AccountsAssumption == Accounts \subseteq Nat
ASSUME OpsAssumption == NoOp \notin Ops /\ \A op \in Ops : IsOp(op)
ASSUME FreeAssumption == Free \notin Workers
ASSUME ClockAssumption ==
  Skew \in [Workers -> Nat] /\ Elapsed \subseteq Nat /\ MaxAttempts \in Nat

Key(row) == <<row.ref, row.dir>>

Refs == UNION {{op.posts[i].ref : i \in DOMAIN op.posts} : op \in Ops}

Entry == [amount : Nat \ {0}, dir : DIRECTIONS, ref : Refs,
          balanceAfter : Int, createdAt : Nat]

ASSUME NoEntryAssumption == NoEntry \notin Entry

-----------------------------------------------------------------------------
(* Queries. *)

Rows(a) == {entries[a][i] : i \in DOMAIN entries[a]}

\* findFirst ... orderBy createdAt desc: any of the rows with the newest stamp.
Newest(a) ==
  {e \in Rows(a) : \A f \in Rows(a) : f.createdAt <= e.createdAt}

\* latest?.balanceAfter ?? 0n
SnapshotBalances(a) ==
  IF entries[a] = << >> THEN {0} ELSE {e.balanceAfter : e \in Newest(a)}

KeyCommitted(key) == \E a \in Accounts : \E e \in Rows(a) : Key(e) = key

\* The balance after the last committed entry, in commit order.
TailBalance(a) ==
  IF entries[a] = << >> THEN 0 ELSE entries[a][Len(entries[a])].balanceAfter

\* reconcileAccount's recomputation from the full history.
ComputedBalance(a) == Total(entries[a])

-----------------------------------------------------------------------------
NoWrites == [a \in Accounts |-> NoEntry]

IdleTx ==
  [pc |-> "idle", op |-> NoOp, locks |-> << >>, i |-> 0, bal |-> 0,
   writes |-> NoWrites]

IdleAudit == [pc |-> "idle", acct |-> 0, computed |-> 0, mismatch |-> FALSE]

Init ==
  /\ entries = [a \in Accounts |-> << >>]
  /\ lock = [a \in Accounts |-> Free]
  /\ tx = [w \in Workers |-> IdleTx]
  /\ now = 0
  /\ attempts = 0
  /\ audit = IdleAudit

Current(w) == tx[w].op.posts[tx[w].i]

\* A caller (or its retry) opens a transaction for op.
Begin(w, op) ==
  /\ tx[w].pc = "idle"
  /\ attempts < MaxAttempts
  /\ attempts' = attempts + 1
  /\ tx' = [tx EXCEPT ![w] =
       [IdleTx EXCEPT !.pc = IF op.locks = << >> THEN "lock" ELSE "prelock",
                      !.op = op, !.locks = op.locks, !.i = 1]]
  /\ UNCHANGED <<entries, lock, now, audit>>

\* Mutant: a plain SELECT, which neither waits nor locks.
Acquire_PlainSelect(w, a) ==
  /\ w \in Workers /\ a \in Accounts
  /\ lock' = lock

\* A FOR UPDATE statement: waits until the row is free or already ours; where
\* there is no row, it locks nothing.
Acquire(w, a) ==
  \/ a \in Missing /\ lock' = lock
  \/ a \notin Missing /\ lock[a] \in {Free, w} /\ lock' = [lock EXCEPT ![a] = w]

\* transferBetweenLedgerAccounts: the two locks taken up front.
LockPair(w) ==
  /\ tx[w].pc = "prelock"
  /\ Acquire(w, Head(tx[w].locks))
  /\ tx' = [tx EXCEPT ![w].locks = Tail(@),
                      ![w].pc = IF Tail(tx[w].locks) = << >> THEN "lock"
                                ELSE "prelock"]
  /\ UNCHANGED <<entries, now, attempts, audit>>

LockAndGetBalance(w) ==
  LET a == Current(w).acct
  IN  /\ tx[w].pc = "lock"
      /\ a \notin Missing
      /\ Acquire(w, a)
      /\ \E b \in SnapshotBalances(a) :
           tx' = [tx EXCEPT ![w].bal = b, ![w].pc = "find"]
      /\ UNCHANGED <<entries, now, attempts, audit>>

\* Mutant: the debit's recordEntry is not given the transfer's transaction.
Advance_OwnTransaction(w) == IF tx[w].i > 0 THEN "commit" ELSE "lock"

\* Where the transaction goes once the current posting is settled.
Advance(w) == IF tx[w].i = Len(tx[w].op.posts) THEN "commit" ELSE "lock"

\* The idempotent short-circuit: the key is looked up on any account.
FindExisting(w) ==
  /\ tx[w].pc = "find"
  /\ IF KeyCommitted(Key(Current(w)))
     THEN tx' = [tx EXCEPT ![w].pc = Advance(w),
                           ![w].i = IF Advance(w) = "lock" THEN @ + 1 ELSE @]
     ELSE tx' = [tx EXCEPT ![w].pc = "create"]
  /\ UNCHANGED <<entries, lock, now, attempts, audit>>

\* Mutant: the balance before the entry is checked.
Overdraws_OldBalance(w) ==
  /\ tx[w].bal < 0
  /\ ~Current(w).allowNegative

Overdraws(w) ==
  /\ tx[w].bal + Delta(Current(w)) < 0
  /\ ~Current(w).allowNegative

\* Another transaction holds an uncommitted row with this key: INSERT waits.
KeyPending(w, key) ==
  \E v \in Workers \ {w} : \E a \in Accounts :
    tx[v].writes[a] # NoEntry /\ Key(tx[v].writes[a]) = key

\* Mutant: the unique index is per account.
DuplicateKey_PerAccount(w) ==
  \E e \in Rows(Current(w).acct) : Key(e) = Key(Current(w))

\* The unique index (referenceType, referenceId, direction) refuses the row.
DuplicateKey(w) == KeyCommitted(Key(Current(w)))

Row(w) ==
  [amount |-> Current(w).amount, dir |-> Current(w).dir,
   ref |-> Current(w).ref, balanceAfter |-> tx[w].bal + Delta(Current(w)),
   createdAt |-> now + Skew[w]]

Create(w) ==
  /\ tx[w].pc = "create"
  /\ ~Overdraws(w)
  /\ ~KeyPending(w, Key(Current(w)))
  /\ ~DuplicateKey(w)
  /\ tx' = [tx EXCEPT ![w].writes[Current(w).acct] = Row(w),
                      ![w].pc = Advance(w),
                      ![w].i = IF Advance(w) = "lock" THEN @ + 1 ELSE @]
  /\ \E ticks \in Elapsed : now' = now + ticks
  /\ UNCHANGED <<entries, lock, attempts, audit>>

\* Every lock of w is dropped, and w is ready for its next operation.
Release(w) ==
  /\ lock' = [a \in Accounts |-> IF lock[a] = w THEN Free ELSE lock[a]]
  /\ tx' = [tx EXCEPT ![w] = IdleTx]

\* LedgerError: LedgerAccount not found.
NotFound(w) ==
  /\ tx[w].pc = "lock"
  /\ Current(w).acct \in Missing
  /\ Release(w)
  /\ UNCHANGED <<entries, now, attempts, audit>>

\* InsufficientBalanceError, or P2002 from the unique index, thrown by create.
Reject(w) ==
  /\ tx[w].pc = "create"
  /\ \/ Overdraws(w)
     \/ ~KeyPending(w, Key(Current(w))) /\ DuplicateKey(w)
  /\ Release(w)
  /\ UNCHANGED <<entries, now, attempts, audit>>

Commit(w) ==
  /\ tx[w].pc = "commit"
  /\ entries' = [a \in Accounts |->
       IF tx[w].writes[a] = NoEntry THEN entries[a]
       ELSE Append(entries[a], tx[w].writes[a])]
  /\ Release(w)
  /\ UNCHANGED <<now, attempts, audit>>

\* Mutant: no transaction around the statements: a crash keeps what was written.
Rollback_KeepsWrites(w) ==
  /\ tx[w].pc # "idle"
  /\ entries' = [a \in Accounts |->
       IF tx[w].writes[a] = NoEntry THEN entries[a]
       ELSE Append(entries[a], tx[w].writes[a])]
  /\ Release(w)
  /\ UNCHANGED <<now, attempts, audit>>

\* The process dies, the connection drops or the transaction times out.
Rollback(w) ==
  /\ tx[w].pc # "idle"
  /\ Release(w)
  /\ UNCHANGED <<entries, now, attempts, audit>>

-----------------------------------------------------------------------------
(* reconcileAccount: two queries with no transaction around them. *)

AuditHistory(a) ==
  /\ audit.pc = "idle"
  /\ audit' = [pc |-> "snapshot", acct |-> a, computed |-> ComputedBalance(a),
               mismatch |-> audit.mismatch]
  /\ UNCHANGED <<entries, lock, tx, now, attempts>>

AuditSnapshot ==
  /\ audit.pc = "snapshot"
  /\ \E b \in SnapshotBalances(audit.acct) :
       audit' = [IdleAudit EXCEPT !.mismatch = b # audit.computed]
  /\ UNCHANGED <<entries, lock, tx, now, attempts>>

-----------------------------------------------------------------------------
Step(w) ==
  \/ LockPair(w)
  \/ LockAndGetBalance(w)
  \/ NotFound(w)
  \/ FindExisting(w)
  \/ Create(w)
  \/ Reject(w)
  \/ Commit(w)

Next ==
  \/ \E w \in Workers : (\E op \in Ops : Begin(w, op)) \/ Step(w) \/ Rollback(w)
  \/ \E a \in Accounts : AuditHistory(a)
  \/ AuditSnapshot

Spec == Init /\ [][Next]_vars

\* The database serves every waiting transaction; nothing forces a caller to
\* ask, or a connection to break.
FairSpec == Spec /\ \A w \in Workers : WF_vars(Step(w))

-----------------------------------------------------------------------------
(* Properties. *)

\* Every variable keeps the shape the engine gives it.
TypeOK ==
  /\ entries \in [Accounts -> Seq(Entry)]
  /\ lock \in [Accounts -> Workers \cup {Free}]
  /\ tx \in [Workers ->
       [pc : {"idle", "prelock", "lock", "find", "create", "commit"},
        op : Ops \cup {NoOp}, locks : Seq(Accounts), i : {0, 1, 2},
        bal : Int, writes : [Accounts -> Entry \cup {NoEntry}]]]
  /\ now \in Nat
  /\ attempts \in 0..MaxAttempts
  /\ audit \in [pc : {"idle", "snapshot"}, acct : Accounts \cup {0},
                computed : Int, mismatch : BOOLEAN]

\* The stamps of a's rows follow the order in which they were committed.
Ordered(a) ==
  \A i, j \in DOMAIN entries[a] : i < j => entries[a][i].createdAt < entries[a][j].createdAt

\* The fast-path balance that getBalance reads equals the balance recomputed
\* from the full history, as long as the account's stamps are in order:
\* concurrent writers never lose an update.
NoDrift == \A a \in Accounts : Ordered(a) => SnapshotBalances(a) = {ComputedBalance(a)}

\* The same of every account: "the denormalized snapshot on the latest entry"
\* (engine.ts 161).  It fails where two rows tie, or clocks differ.
NeverDrifts == \A a \in Accounts : SnapshotBalances(a) = {ComputedBalance(a)}

\* An operation repeated after a lost answer, or requested twice at once, even
\* against two different accounts, is recorded once: (referenceType,
\* referenceId, direction) is never committed twice.
RecordedOnce ==
  \A a, b \in Accounts : \A i \in DOMAIN entries[a] : \A j \in DOMAIN entries[b] :
    Key(entries[a][i]) = Key(entries[b][j]) => a = b /\ i = j

\* An internal transfer is never seen half done: its debit is committed
\* exactly when its credit is.
TransferAtomic ==
  \A op \in Ops : Len(op.posts) = 2 =>
    (KeyCommitted(Key(op.posts[1])) <=> KeyCommitted(Key(op.posts[2])))

\* However many debits run at once, and whatever snapshot each of them read,
\* what an account really received never falls short of what it paid out, as
\* long as its stamps are in order.
NeverOverdrawn ==
  (\A op \in Ops : \A i \in DOMAIN op.posts : ~op.posts[i].allowNegative) =>
    \A a \in Accounts : Ordered(a) => ComputedBalance(a) >= 0

\* The engine implements the abstract ledger as long as stamps are in order: a
\* commit applies exactly the postings of its operation whose keys are new, at
\* once, and nothing else changes a balance or a key.
Abs == INSTANCE AbstractLedger WITH
         balance <- [a \in Accounts |-> TailBalance(a)],
         posted <- {Key(e) : e \in UNION {Rows(a) : a \in Accounts}}
ImplementsAbstractLedger ==
  /\ Abs!AbsInit
  /\ [][(\A a \in Accounts : Ordered(a)') => Abs!AbsNext]_(Abs!absVars)

\* Transactions over the same pair of accounts, in either direction, never wait
\* for each other forever (the stable lock order of the transfer).
TransactionsEnd == \A w \in Workers : tx[w].pc # "idle" ~> tx[w].pc = "idle"

\* What the engine says of its audit: "a mismatch means either a bug or an
\* entry written outside recordEntry()".
MismatchMeansDrift ==
  audit.mismatch => \E a \in Accounts : TailBalance(a) # ComputedBalance(a)
=============================================================================
