--------------------------- MODULE AbstractLedger ---------------------------
(***************************************************************************)
(* What the ledger engine (lib/ledger/engine.ts) promises its callers:     *)
(* a balance per bucket and a set of idempotency keys already used.  One   *)
(* database transaction applies, in one indivisible step, every posting    *)
(* of the requested operation whose key was not used before, and none of   *)
(* those steps overdraws a bucket.                                         *)
(***************************************************************************)
EXTENDS RowSums

CONSTANTS
  Accounts,   \* ledger account (bucket) ids
  Ops         \* operations callers request: [locks, posts]

VARIABLES
  balance,    \* balance[a]: what the bucket holds
  posted      \* keys <<referenceType, referenceId, direction>> already used

absVars == <<balance, posted>>

AbsKey(post) == <<post.ref, post.dir>>

\* The postings of an operation that a transaction would still have to make.
Fresh(op) == {i \in DOMAIN op.posts : AbsKey(op.posts[i]) \notin posted}

AbsInit ==
  /\ balance = [a \in Accounts |-> 0]
  /\ posted = {}

(***************************************************************************)
(* One committed transaction.  Callers never repeat an account inside one  *)
(* operation, so each bucket changes by at most one posting.               *)
(***************************************************************************)
Apply(op) ==
  /\ \A i \in Fresh(op) :
       op.posts[i].allowNegative
         \/ balance[op.posts[i].acct] + Delta(op.posts[i]) >= 0
  /\ posted' = posted \cup {AbsKey(op.posts[i]) : i \in Fresh(op)}
  /\ balance' = [a \in Accounts |->
       IF \E i \in Fresh(op) : op.posts[i].acct = a
       THEN balance[a]
              + Delta(op.posts[CHOOSE i \in Fresh(op) : op.posts[i].acct = a])
       ELSE balance[a]]

AbsNext == \E op \in Ops : Apply(op)

AbsSpec == AbsInit /\ [][AbsNext]_absVars
=============================================================================
