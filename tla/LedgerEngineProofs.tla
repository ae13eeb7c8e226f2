------------------------- MODULE LedgerEngineProofs -------------------------
(***************************************************************************)
(* Theorems about the ledger engine, for every set of workers, accounts    *)
(* and operations and any bound on the attempts.                           *)
(***************************************************************************)
EXTENDS LedgerEngine, SumProofs, TLAPS

-----------------------------------------------------------------------------
(* The sum over a history of rows is well defined on every finite history, *)
(* and adding a row adds its delta.                                        *)

\* What the recursive definition inside Total means for the first n rows.
SumsUpTo(rows, n, f) ==
  f = [k \in 0..n |-> IF k = 0 THEN 0 ELSE f[k - 1] + Delta(rows[k])]

\* Every history has its function of partial sums.
LEMMA SumsExist ==
  ASSUME NEW rows, NEW N \in Nat
  PROVE  \E f : SumsUpTo(rows, N, f)
<1> DEFINE S == {n \in 0..N : \E f : SumsUpTo(rows, n, f)}
<1>1. 0 \in S
  <2> DEFINE f == [k \in 0..0 |-> 0]
  <2>1. SumsUpTo(rows, 0, f)
    BY DEF SumsUpTo
  <2> QED
    BY <2>1
<1>2. ASSUME NEW n \in 0..N, n \in S, n < N
      PROVE  n + 1 \in S
  <2>1. PICK f : SumsUpTo(rows, n, f)
    BY <1>2
  <2> DEFINE g == [k \in 0..(n + 1) |->
                     IF k = n + 1 THEN f[n] + Delta(rows[n + 1]) ELSE f[k]]
  <2>2. \A k \in 0..n : f[k] = IF k = 0 THEN 0 ELSE f[k - 1] + Delta(rows[k])
    BY <2>1 DEF SumsUpTo
  <2>3. \A k \in 0..n : g[k] = f[k]
    OBVIOUS
  <2>4. \A k \in 0..(n + 1) :
           g[k] = IF k = 0 THEN 0 ELSE g[k - 1] + Delta(rows[k])
    BY <2>2, <2>3
  <2> HIDE DEF g
  <2>5. g = [k \in 0..(n + 1) |-> g[k]]
    BY DEF g
  <2>6. SumsUpTo(rows, n + 1, g)
    BY <2>4, <2>5 DEF SumsUpTo
  <2>7. n + 1 \in 0..N
    BY <1>2
  <2> QED
    BY <2>6, <2>7
<1>3. 0..N \subseteq S
  <2> HIDE DEF S
  <2> QED
    BY <1>1, <1>2, SetInduction
<1> QED
  BY <1>3

\* The recursive definition of Total picks such a function.
LEMMA TotalIsLastSum ==
  ASSUME NEW rows, Len(rows) \in Nat
  PROVE  \E f : SumsUpTo(rows, Len(rows), f) /\ Total(rows) = f[Len(rows)]
<1> DEFINE g == CHOOSE f : SumsUpTo(rows, Len(rows), f)
<1>1. SumsUpTo(rows, Len(rows), g)
  BY SumsExist
<1>2. Total(rows) = g[Len(rows)]
  BY DEF Total, SumsUpTo
<1> QED
  BY <1>1, <1>2

\* Two functions of partial sums agree as far as their histories do.
LEMMA SumsAgree ==
  ASSUME NEW r1, NEW r2, NEW N \in Nat, NEW n1 \in Nat, NEW n2 \in Nat,
         N <= n1, N <= n2, \A k \in 1..N : r1[k] = r2[k],
         NEW f, NEW g, SumsUpTo(r1, n1, f), SumsUpTo(r2, n2, g)
  PROVE  f[N] = g[N]
<1> DEFINE S == {n \in 0..N : f[n] = g[n]}
<1>1. \A k \in 0..n1 : f[k] = IF k = 0 THEN 0 ELSE f[k - 1] + Delta(r1[k])
  BY DEF SumsUpTo
<1>2. \A k \in 0..n2 : g[k] = IF k = 0 THEN 0 ELSE g[k - 1] + Delta(r2[k])
  BY DEF SumsUpTo
<1>3. 0 \in S
  BY <1>1, <1>2
<1>4. ASSUME NEW n \in 0..N, n \in S, n < N
      PROVE  n + 1 \in S
  <2>1. n + 1 \in 0..n1 /\ n + 1 \in 0..n2 /\ n + 1 \in 1..N /\ n + 1 # 0
    BY <1>4
  <2>2. f[n + 1] = f[n] + Delta(r1[n + 1]) /\ g[n + 1] = g[n] + Delta(r2[n + 1])
    BY <1>1, <1>2, <2>1
  <2> QED
    BY <1>4, <2>1, <2>2
<1>5. 0..N \subseteq S
  <2> HIDE DEF S
  <2> QED
    BY <1>3, <1>4, SetInduction
<1> QED
  BY <1>5

\* A history without rows adds up to nothing.
LEMMA TotalEmpty == Total(<< >>) = 0
<1>1. PICK f : SumsUpTo(<< >>, Len(<< >>), f) /\ Total(<< >>) = f[Len(<< >>)]
  BY TotalIsLastSum
<1> QED
  BY <1>1 DEF SumsUpTo

\* Appending a row adds its delta, whatever the history holds.
LEMMA TotalAppend ==
  ASSUME NEW T, NEW rows \in Seq(T), NEW e \in T
  PROVE  Total(Append(rows, e)) = Total(rows) + Delta(e)
<1> DEFINE more == Append(rows, e)
           N == Len(rows)
<1>1. N \in Nat /\ Len(more) = N + 1 /\ more[N + 1] = e
      /\ \A k \in 1..N : rows[k] = more[k]
  OBVIOUS
<1> HIDE DEF more
<1>2. PICK f : SumsUpTo(rows, N, f) /\ Total(rows) = f[N]
  BY <1>1, TotalIsLastSum
<1>3. PICK g : SumsUpTo(more, Len(more), g) /\ Total(more) = g[Len(more)]
  BY <1>1, TotalIsLastSum
<1> HIDE DEF N
<1>4. f[N] = g[N]
  <2>1. N <= N /\ N <= N + 1 /\ N + 1 \in Nat
    BY <1>1
  <2>2. SumsUpTo(more, N + 1, g)
    BY <1>1, <1>3
  <2> QED
    BY <1>1, <1>2, <2>1, <2>2, SumsAgree
<1>5. g[N + 1] = g[N] + Delta(e)
  BY <1>1, <1>3 DEF SumsUpTo
<1> QED
  BY <1>1, <1>2, <1>3, <1>4, <1>5 DEF more

\* A history of integer deltas adds up to an integer.
LEMMA TotalInt ==
  ASSUME NEW T, NEW rows \in Seq(T), \A e \in T : Delta(e) \in Int
  PROVE  Total(rows) \in Int
<1> DEFINE N == Len(rows)
<1>1. N \in Nat /\ \A k \in 1..N : Delta(rows[k]) \in Int
  OBVIOUS
<1>2. PICK f : SumsUpTo(rows, N, f) /\ Total(rows) = f[N]
  BY <1>1, TotalIsLastSum
<1> DEFINE S == {n \in 0..N : f[n] \in Int}
<1>3. \A k \in 0..N : f[k] = IF k = 0 THEN 0 ELSE f[k - 1] + Delta(rows[k])
  BY <1>2 DEF SumsUpTo
<1>4. 0 \in S
  BY <1>1, <1>3
<1>5. ASSUME NEW n \in 0..N, n \in S, n < N
      PROVE  n + 1 \in S
  <2>1. n + 1 \in 0..N /\ n + 1 \in 1..N /\ n + 1 # 0 /\ (n + 1) - 1 = n
    BY <1>1, <1>5
  <2>2. f[n + 1] = f[n] + Delta(rows[n + 1])
    BY <1>3, <2>1
  <2> QED
    BY <1>1, <1>5, <2>1, <2>2
<1>6. 0..N \subseteq S
  <2> HIDE DEF S
  <2> QED
    BY <1>1, <1>4, <1>5, SetInduction
<1> QED
  BY <1>1, <1>2, <1>6

-----------------------------------------------------------------------------
TxPc == {"idle", "prelock", "lock", "find", "create", "commit"}

TxRecord ==
  [pc : TxPc, op : Ops \cup {NoOp}, locks : Seq(Accounts), i : {0, 1, 2},
   bal : Int, writes : [Accounts -> Entry \cup {NoEntry}]]

-----------------------------------------------------------------------------
(* Facts about operations and rows. *)

\* An operation has one or two postings, numbered from 1.
LEMMA OpFacts ==
  ASSUME NEW op \in Ops
  PROVE  /\ op.locks \in Seq(Accounts)
         /\ Len(op.posts) \in {1, 2}
         /\ DOMAIN op.posts = 1..Len(op.posts)
         /\ 1 \in DOMAIN op.posts
         /\ DOMAIN op.posts \subseteq {1, 2}
         /\ \A i \in DOMAIN op.posts : IsPost(op.posts[i])
         /\ \A i, j \in DOMAIN op.posts : i # j =>
              op.posts[i].acct # op.posts[j].acct /\ op.posts[i].dir # op.posts[j].dir
<1>1. IsOp(op)
  BY OpsAssumption
<1>2. Len(op.posts) \in {1, 2} /\ DOMAIN op.posts = 1..Len(op.posts)
  BY <1>1 DEF IsOp
<1>3. 1 \in DOMAIN op.posts /\ DOMAIN op.posts \subseteq {1, 2}
  <2>1. \A n \in {1, 2} : 1 \in 1..n /\ 1..n \subseteq {1, 2}
    OBVIOUS
  <2> QED
    BY <1>2, <2>1, Zenon
<1> QED
  BY <1>1, <1>2, <1>3 DEF IsOp

\* What is known of posting i of an operation a caller may request.
LEMMA PostFacts ==
  ASSUME NEW op \in Ops, NEW i \in DOMAIN op.posts
  PROVE  /\ op.posts[i].acct \in Accounts
         /\ op.posts[i].amount \in Nat \ {0}
         /\ op.posts[i].dir \in DIRECTIONS
         /\ op.posts[i].ref \in Refs
         /\ op.posts[i].allowNegative \in BOOLEAN
         /\ Delta(op.posts[i]) \in Int
<1>1. op.posts[i].ref \in Refs
  BY DEF Refs
<1>2. IsPost(op.posts[i])
  BY OpFacts
<1>3. Delta(op.posts[i]) \in Int
  BY <1>2 DEF IsPost, Delta
<1> QED
  BY <1>1, <1>2, <1>3 DEF IsPost

\* The idle transaction is a transaction record.
LEMMA IdleTxType == IdleTx \in TxRecord
  BY DEF IdleTx, NoWrites, TxRecord, TxPc

-----------------------------------------------------------------------------
(* The type invariant, strengthened with where each transaction stands. *)

Stands(r) ==
  r.pc # "idle" =>
    /\ r.op \in Ops
    /\ r.i \in DOMAIN r.op.posts
    /\ r.pc = "prelock" => r.locks # << >>

TypeInv ==
  /\ entries \in [Accounts -> Seq(Entry)]
  /\ lock \in [Accounts -> Workers \cup {Free}]
  /\ tx \in [Workers -> TxRecord]
  /\ \A w \in Workers : Stands(tx[w])
  /\ now \in Nat
  /\ attempts \in 0..MaxAttempts
  /\ audit \in [pc : {"idle", "snapshot"}, acct : Accounts \cup {0},
                computed : Int, mismatch : BOOLEAN]

LEMMA TypeInvImpliesTypeOK == TypeInv => TypeOK
  BY DEF TypeInv, TypeOK, TxRecord, TxPc

LEMMA TypeInit == Init => TypeInv
<1> SUFFICES ASSUME Init PROVE TypeInv
  OBVIOUS
<1>1. tx \in [Workers -> TxRecord]
  BY IdleTxType DEF Init
<1>2. entries \in [Accounts -> Seq(Entry)]
  BY DEF Init
<1>3. \A w \in Workers : Stands(tx[w])
  BY DEF Init, Stands, IdleTx
<1>4. attempts \in 0..MaxAttempts
  BY ClockAssumption DEF Init
<1> QED
  BY <1>1, <1>2, <1>3, <1>4 DEF Init, TypeInv, IdleAudit

\* The rows of an account are entries.
LEMMA RowsType ==
  ASSUME TypeInv, NEW a \in Accounts
  PROVE  entries[a] \in Seq(Entry) /\ Rows(a) \subseteq Entry
  BY DEF TypeInv, Rows

\* Reading a snapshot yields an integer.
LEMMA SnapshotInt ==
  ASSUME TypeInv, NEW a \in Accounts
  PROVE  SnapshotBalances(a) \subseteq Int
<1>1. \A e \in Entry : e.balanceAfter \in Int
  BY DEF Entry
<1> QED
  BY <1>1, RowsType DEF SnapshotBalances, Newest

\* A recomputed balance is an integer.
LEMMA ComputedInt ==
  ASSUME TypeInv, NEW a \in Accounts
  PROVE  ComputedBalance(a) \in Int
<1>1. \A e \in Entry : Delta(e) \in Int
  BY DEF Entry, Delta
<1> QED
  BY <1>1, RowsType, TotalInt DEF ComputedBalance

\* The posting a transaction works on.
LEMMA CurrentFacts ==
  ASSUME TypeInv, NEW w \in Workers, tx[w].pc # "idle"
  PROVE  /\ tx[w].op \in Ops
         /\ tx[w].i \in DOMAIN tx[w].op.posts
         /\ Current(w).acct \in Accounts
         /\ Row(w) \in Entry
         /\ Delta(Current(w)) \in Int
<1>1. tx[w].op \in Ops /\ tx[w].i \in DOMAIN tx[w].op.posts
  BY DEF TypeInv, Stands
<1>2. /\ Current(w).acct \in Accounts
      /\ Current(w).amount \in Nat \ {0}
      /\ Current(w).dir \in DIRECTIONS
      /\ Current(w).ref \in Refs
      /\ Delta(Current(w)) \in Int
  BY <1>1, PostFacts DEF Current
<1>3. tx[w].bal \in Int /\ now + Skew[w] \in Nat
  BY ClockAssumption DEF TxRecord, TypeInv
<1>4. Row(w) \in Entry
  BY <1>2, <1>3 DEF Row, Entry
<1> QED
  BY <1>1, <1>2, <1>4

\* Moving on to the next posting, or to the commit, stays inside the operation.
NextPost(w) == IF Advance(w) = "lock" THEN tx[w].i + 1 ELSE tx[w].i

LEMMA AdvanceFacts ==
  ASSUME TypeInv, NEW w \in Workers, tx[w].pc # "idle"
  PROVE  /\ Advance(w) \in {"lock", "commit"}
         /\ NextPost(w) \in DOMAIN tx[w].op.posts
         /\ NextPost(w) \in {0, 1, 2}
<1>1. tx[w].op \in Ops /\ tx[w].i \in DOMAIN tx[w].op.posts
  BY CurrentFacts
<1>2. Len(tx[w].op.posts) \in {1, 2} /\ DOMAIN tx[w].op.posts = 1..Len(tx[w].op.posts)
  BY <1>1, OpFacts
<1>3. \A n \in {1, 2} : \A i \in 1..n : i # n => i + 1 \in 1..n /\ i + 1 \in {0, 1, 2}
  OBVIOUS
<1>4. \A n \in {1, 2} : \A i \in 1..n : i \in {0, 1, 2}
  OBVIOUS
<1> QED
  BY <1>1, <1>2, <1>3, <1>4, Zenon DEF Advance, NextPost

\* Replacing one transaction by another well-typed one keeps all of them so.
LEMMA TxUpdate ==
  ASSUME TypeInv, NEW w \in Workers, NEW r \in TxRecord, Stands(r),
         tx' = [tx EXCEPT ![w] = r]
  PROVE  tx' \in [Workers -> TxRecord] /\ \A v \in Workers : Stands(tx'[v])
  BY DEF TypeInv

\* Dropping the locks of w keeps the types.
LEMMA ReleaseType ==
  ASSUME TypeInv, NEW w \in Workers, Release(w)
  PROVE  /\ lock' \in [Accounts -> Workers \cup {Free}]
         /\ tx' \in [Workers -> TxRecord]
         /\ \A v \in Workers : Stands(tx'[v])
<1>1. Stands(IdleTx)
  BY DEF Stands, IdleTx
<1>2. tx' = [tx EXCEPT ![w] = IdleTx]
  BY DEF Release
<1>3. lock' \in [Accounts -> Workers \cup {Free}]
  BY DEF Release, TypeInv
<1> QED
  BY <1>1, <1>2, <1>3, TxUpdate, IdleTxType

\* Every step keeps the types, and every transaction inside its operation.
LEMMA TypeNext == TypeInv /\ [Next]_vars => TypeInv'
<1> SUFFICES ASSUME TypeInv, [Next]_vars PROVE TypeInv'
  OBVIOUS
<1> DEFINE TxOK == tx' \in [Workers -> TxRecord] /\ \A v \in Workers : Stands(tx'[v])
<1>0. \A w \in Workers : tx[w] \in TxRecord /\ Stands(tx[w])
  BY DEF TypeInv
<1>1. ASSUME NEW w \in Workers, NEW op \in Ops, Begin(w, op)
      PROVE  TypeInv'
  <2> DEFINE r == [IdleTx EXCEPT !.pc = IF op.locks = << >> THEN "lock" ELSE "prelock",
                                 !.op = op, !.locks = op.locks, !.i = 1]
  <2>1. op.locks \in Seq(Accounts) /\ 1 \in DOMAIN op.posts
    BY OpFacts
  <2>2. r \in TxRecord
    <3>1. \A pc \in TxPc : \A locks \in Seq(Accounts) :
            [IdleTx EXCEPT !.pc = pc, !.op = op, !.locks = locks, !.i = 1] \in TxRecord
      BY IdleTxType DEF TxRecord
    <3>2. (IF op.locks = << >> THEN "lock" ELSE "prelock") \in TxPc
      BY DEF TxPc
    <3> QED
      BY <2>1, <3>1, <3>2, Zenon
  <2>3. Stands(r)
    BY <2>1 DEF Stands, IdleTx
  <2>4. tx' = [tx EXCEPT ![w] = r]
    BY <1>1, Zenon DEF Begin
  <2>5. TxOK
    <3> HIDE DEF r
    <3> QED
      BY <2>2, <2>3, <2>4, TxUpdate
  <2>6. attempts' \in 0..MaxAttempts
    BY <1>1, ClockAssumption DEF Begin, TypeInv
  <2> QED
    BY <1>1, <2>5, <2>6 DEF Begin, TypeInv
<1>2. ASSUME NEW w \in Workers, LockPair(w)
      PROVE  TypeInv'
  <2> DEFINE r == [tx[w] EXCEPT !.locks = Tail(@),
                                !.pc = IF Tail(tx[w].locks) = << >> THEN "lock"
                                       ELSE "prelock"]
  <2>1. tx[w].locks \in Seq(Accounts) /\ tx[w].locks # << >>
    BY <1>0, <1>2 DEF LockPair, Stands, TxRecord
  <2>2. Head(tx[w].locks) \in Accounts /\ Tail(tx[w].locks) \in Seq(Accounts)
    BY <2>1
  <2>3. r \in TxRecord
    BY <1>0, <2>2 DEF TxRecord, TxPc
  <2>4. Stands(r)
    BY <1>0, <1>2 DEF Stands, LockPair, TxRecord
  <2>5. tx' = [tx EXCEPT ![w] = r]
    BY <1>2 DEF LockPair
  <2>6. TxOK
    <3> HIDE DEF r
    <3> QED
      BY <2>3, <2>4, <2>5, TxUpdate
  <2>7. lock' \in [Accounts -> Workers \cup {Free}]
    BY <1>2, <2>2 DEF LockPair, Acquire, TypeInv
  <2> QED
    BY <1>2, <2>6, <2>7 DEF LockPair, TypeInv
<1>3. ASSUME NEW w \in Workers, LockAndGetBalance(w)
      PROVE  TypeInv'
  <2>1. tx[w].pc = "lock" /\ Current(w).acct \in Accounts
    BY <1>3, CurrentFacts DEF LockAndGetBalance
  <2>2. PICK b \in SnapshotBalances(Current(w).acct) :
          tx' = [tx EXCEPT ![w].bal = b, ![w].pc = "find"]
    BY <1>3 DEF LockAndGetBalance
  <2>3. b \in Int
    BY <2>1, SnapshotInt
  <2> DEFINE r == [tx[w] EXCEPT !.bal = b, !.pc = "find"]
  <2>4. r \in TxRecord
    BY <1>0, <2>3 DEF TxRecord, TxPc
  <2>5. Stands(r)
    BY <1>0, <2>1 DEF Stands, TxRecord
  <2>6. TxOK
    <3>1. tx' = [tx EXCEPT ![w] = r]
      BY <2>2
    <3> HIDE DEF r
    <3> QED
      BY <2>4, <2>5, <3>1, TxUpdate
  <2>7. lock' \in [Accounts -> Workers \cup {Free}]
    BY <1>3, <2>1 DEF LockAndGetBalance, Acquire, TypeInv
  <2> QED
    BY <1>3, <2>6, <2>7 DEF LockAndGetBalance, TypeInv
<1>4. ASSUME NEW w \in Workers, FindExisting(w)
      PROVE  TypeInv'
  <2>1. tx[w].pc = "find"
    BY <1>4 DEF FindExisting
  <2>2. /\ Advance(w) \in {"lock", "commit"}
        /\ NextPost(w) \in DOMAIN tx[w].op.posts
        /\ NextPost(w) \in {0, 1, 2}
    BY <2>1, AdvanceFacts
  <2> DEFINE found == [tx[w] EXCEPT !.pc = Advance(w), !.i = NextPost(w)]
             new == [tx[w] EXCEPT !.pc = "create"]
  <2>3. found \in TxRecord /\ new \in TxRecord
    BY <1>0, <2>2 DEF TxRecord, TxPc
  <2>4. Stands(found) /\ Stands(new)
    BY <1>0, <2>1, <2>2 DEF Stands, TxRecord
  <2>5. tx' = [tx EXCEPT ![w] = found] \/ tx' = [tx EXCEPT ![w] = new]
    BY <1>4 DEF FindExisting, NextPost
  <2>6. TxOK
    <3> HIDE DEF found, new
    <3> QED
      BY <2>3, <2>4, <2>5, TxUpdate
  <2> QED
    BY <1>4, <2>6 DEF FindExisting, TypeInv
<1>5. ASSUME NEW w \in Workers, Create(w)
      PROVE  TypeInv'
  <2>1. tx[w].pc = "create"
    BY <1>5 DEF Create
  <2>2. /\ Advance(w) \in {"lock", "commit"}
        /\ NextPost(w) \in DOMAIN tx[w].op.posts
        /\ NextPost(w) \in {0, 1, 2}
        /\ Current(w).acct \in Accounts
        /\ Row(w) \in Entry
    BY <2>1, AdvanceFacts, CurrentFacts
  <2> DEFINE r == [tx[w] EXCEPT !.writes[Current(w).acct] = Row(w),
                                !.pc = Advance(w), !.i = NextPost(w)]
  <2>3. r \in TxRecord
    BY <1>0, <2>2 DEF TxRecord, TxPc
  <2>4. Stands(r)
    BY <1>0, <2>1, <2>2 DEF Stands, TxRecord
  <2>5. tx' = [tx EXCEPT ![w] = r]
    BY <1>5 DEF Create, NextPost
  <2>6. TxOK
    <3> HIDE DEF r
    <3> QED
      BY <2>3, <2>4, <2>5, TxUpdate
  <2>7. now' \in Nat
    BY <1>5, ClockAssumption DEF Create, TypeInv
  <2> QED
    BY <1>5, <2>6, <2>7 DEF Create, TypeInv
<1>6. ASSUME NEW w \in Workers, Reject(w) \/ NotFound(w)
      PROVE  TypeInv'
  BY <1>6, ReleaseType DEF Reject, NotFound, TypeInv
<1>7. ASSUME NEW w \in Workers, Commit(w)
      PROVE  TypeInv'
  <2>1. ASSUME NEW a \in Accounts
        PROVE  (IF tx[w].writes[a] = NoEntry THEN entries[a]
                ELSE Append(entries[a], tx[w].writes[a])) \in Seq(Entry)
    <3>1. tx[w].writes[a] \in Entry \cup {NoEntry} /\ entries[a] \in Seq(Entry)
      BY <1>0 DEF TxRecord, TypeInv
    <3> QED
      BY <3>1
  <2>2. entries' \in [Accounts -> Seq(Entry)]
    BY <1>7, <2>1 DEF Commit
  <2> QED
    BY <1>7, <2>2, ReleaseType DEF Commit, TypeInv
<1>8. ASSUME NEW w \in Workers, Rollback(w)
      PROVE  TypeInv'
  BY <1>8, ReleaseType DEF Rollback, TypeInv
<1>9. ASSUME NEW a \in Accounts, AuditHistory(a)
      PROVE  TypeInv'
  BY <1>9, ComputedInt DEF AuditHistory, TypeInv
<1>10. ASSUME AuditSnapshot
       PROVE  TypeInv'
  <2>1. audit' \in [pc : {"idle", "snapshot"}, acct : Accounts \cup {0},
                    computed : Int, mismatch : BOOLEAN]
    <3>1. PICK b \in SnapshotBalances(audit.acct) :
            audit' = [IdleAudit EXCEPT !.mismatch = (b # audit.computed)]
      BY <1>10 DEF AuditSnapshot
    <3>2. \A m \in BOOLEAN :
            [IdleAudit EXCEPT !.mismatch = m] \in
              [pc : {"idle", "snapshot"}, acct : Accounts \cup {0},
               computed : Int, mismatch : BOOLEAN]
      BY DEF IdleAudit
    <3>3. (b # audit.computed) \in BOOLEAN
      OBVIOUS
    <3> QED
      BY <3>1, <3>2, <3>3, Zenon
  <2> QED
    BY <1>10, <2>1 DEF AuditSnapshot, TypeInv
<1>11. CASE UNCHANGED vars
  BY <1>11 DEF vars, TypeInv
<1> QED
  BY <1>1, <1>2, <1>3, <1>4, <1>5, <1>6, <1>7, <1>8, <1>9, <1>10, <1>11
     DEF Next, Step

\* The engine keeps every variable in its type, whatever the transactions do.
THEOREM TypeCorrect == Spec => []TypeOK
<1>1. Spec => []TypeInv
  BY TypeInit, TypeNext, PTL DEF Spec
<1> QED
  BY <1>1, TypeInvImpliesTypeOK, PTL

-----------------------------------------------------------------------------
(***************************************************************************)
(* Idempotency.  A transaction that has settled a posting either found its *)
(* key committed or holds an uncommitted row for it; uncommitted keys are  *)
(* new, and no two transactions hold the same one.                         *)
(***************************************************************************)

RowOf(e, post) == e.amount = post.amount /\ e.dir = post.dir /\ e.ref = post.ref

\* The postings transaction r is done with.
DoneIn(r) == {j \in DOMAIN r.op.posts : r.pc = "commit" \/ j < r.i}

WritesOK(r) ==
  /\ r.pc = "idle" => \A a \in Accounts : r.writes[a] = NoEntry
  /\ r.pc # "idle" => \A a \in Accounts : r.writes[a] # NoEntry =>
       \E j \in DoneIn(r) : r.op.posts[j].acct = a /\ RowOf(r.writes[a], r.op.posts[j])

SettledIn(r) ==
  r.pc # "idle" => \A j \in DoneIn(r) :
    \/ KeyCommitted(Key(r.op.posts[j]))
    \/ r.writes[r.op.posts[j].acct] # NoEntry

FreshIn(r) ==
  \A a \in Accounts : r.writes[a] # NoEntry => ~KeyCommitted(Key(r.writes[a]))

\* No row of r has the key of a row of q.
Apart(r, q) ==
  \A a, b \in Accounts : r.writes[a] # NoEntry /\ q.writes[b] # NoEntry =>
    Key(r.writes[a]) # Key(q.writes[b])

KeyInv ==
  /\ RecordedOnce
  /\ \A w \in Workers : WritesOK(tx[w]) /\ SettledIn(tx[w]) /\ FreshIn(tx[w])
  /\ \A w, v \in Workers : w # v => Apart(tx[w], tx[v])

\* As long as nothing is committed, only the transaction that moves matters.
LEMMA KeyUpdate ==
  ASSUME TypeInv, KeyInv, NEW w \in Workers, NEW r,
         tx' = [tx EXCEPT ![w] = r], entries' = entries,
         WritesOK(r), SettledIn(r), FreshIn(r),
         \A v \in Workers : v # w => Apart(r, tx[v])
  PROVE  KeyInv'
<1>1. \A v \in Workers : tx'[v] = IF v = w THEN r ELSE tx[v]
  BY DEF TypeInv
<1>2. \A k : KeyCommitted(k)' <=> KeyCommitted(k)
  BY DEF KeyCommitted, Rows
<1>3. RecordedOnce'
  BY DEF KeyInv, RecordedOnce
<1>4. \A v \in Workers : Apart(tx[v], r) <=> Apart(r, tx[v])
  BY DEF Apart
<1>5. ASSUME NEW v \in Workers
      PROVE  WritesOK(tx[v])' /\ SettledIn(tx[v])' /\ FreshIn(tx[v])'
  <2>1. WritesOK(tx'[v]) /\ SettledIn(tx'[v]) /\ FreshIn(tx'[v])
    BY <1>1 DEF KeyInv
  <2> QED
    BY <1>2, <2>1 DEF WritesOK, SettledIn, FreshIn, DoneIn
<1>6. ASSUME NEW u \in Workers, NEW v \in Workers, u # v
      PROVE  Apart(tx[u], tx[v])'
  <2>1. Apart(tx'[u], tx'[v])
    BY <1>1, <1>4, <1>6 DEF KeyInv
  <2> QED
    BY <2>1 DEF Apart
<1> QED
  BY <1>3, <1>5, <1>6 DEF KeyInv

\* An idle transaction holds nothing.
LEMMA IdleKeys ==
  /\ WritesOK(IdleTx) /\ SettledIn(IdleTx) /\ FreshIn(IdleTx)
  /\ \A q : Apart(IdleTx, q) /\ Apart(q, IdleTx)
  BY DEF IdleTx, NoWrites, WritesOK, SettledIn, FreshIn, Apart

LEMMA KeyInit == Init => KeyInv
<1> SUFFICES ASSUME Init PROVE KeyInv
  OBVIOUS
<1>1. \A w \in Workers : tx[w] = IdleTx
  BY DEF Init
<1>2. RecordedOnce
  BY DEF Init, RecordedOnce
<1> QED
  BY <1>1, <1>2, IdleKeys DEF KeyInv

\* Postings of one operation have different keys, and so do its rows.
LEMMA OwnKeysDiffer ==
  ASSUME TypeInv, NEW w \in Workers, WritesOK(tx[w]),
         NEW a \in Accounts, NEW b \in Accounts, a # b,
         tx[w].writes[a] # NoEntry, tx[w].writes[b] # NoEntry
  PROVE  Key(tx[w].writes[a]) # Key(tx[w].writes[b])
<1>1. tx[w].pc # "idle" /\ tx[w].op \in Ops
  BY DEF WritesOK, TypeInv, Stands
<1>2. PICK j \in DoneIn(tx[w]) :
        tx[w].op.posts[j].acct = a /\ RowOf(tx[w].writes[a], tx[w].op.posts[j])
  BY <1>1 DEF WritesOK
<1>3. PICK k \in DoneIn(tx[w]) :
        tx[w].op.posts[k].acct = b /\ RowOf(tx[w].writes[b], tx[w].op.posts[k])
  BY <1>1 DEF WritesOK
<1>4. j # k /\ j \in DOMAIN tx[w].op.posts /\ k \in DOMAIN tx[w].op.posts
  BY <1>2, <1>3 DEF DoneIn
<1>5. tx[w].op.posts[j].dir # tx[w].op.posts[k].dir
  BY <1>1, <1>4, OpFacts
<1> QED
  BY <1>2, <1>3, <1>5 DEF RowOf, Key

\* What a commit adds to the history of an account.
LEMMA CommitRows ==
  ASSUME TypeInv, NEW w \in Workers, Commit(w), NEW a \in Accounts
  PROVE  /\ tx[w].writes[a] = NoEntry => entries'[a] = entries[a]
         /\ tx[w].writes[a] # NoEntry =>
              /\ tx[w].writes[a] \in Entry
              /\ entries'[a] = Append(entries[a], tx[w].writes[a])
              /\ DOMAIN entries'[a] = DOMAIN entries[a] \cup {Len(entries[a]) + 1}
              /\ entries'[a][Len(entries[a]) + 1] = tx[w].writes[a]
              /\ Len(entries[a]) + 1 \notin DOMAIN entries[a]
         /\ \A i \in DOMAIN entries[a] :
              i \in DOMAIN entries'[a] /\ entries'[a][i] = entries[a][i]
<1>1. entries[a] \in Seq(Entry) /\ tx[w].writes[a] \in Entry \cup {NoEntry}
  BY DEF TypeInv, TxRecord
<1>2. entries'[a] = IF tx[w].writes[a] = NoEntry THEN entries[a]
                    ELSE Append(entries[a], tx[w].writes[a])
  BY DEF Commit
<1> QED
  BY <1>1, <1>2

\* The keys committed after a commit: the old ones and those of its rows.
LEMMA CommitKeys ==
  ASSUME TypeInv, NEW w \in Workers, Commit(w), NEW k
  PROVE  KeyCommitted(k)' <=>
           \/ KeyCommitted(k)
           \/ \E a \in Accounts : tx[w].writes[a] # NoEntry /\ Key(tx[w].writes[a]) = k
<1>1. KeyCommitted(k) <=>
        \E a \in Accounts : \E i \in DOMAIN entries[a] : Key(entries[a][i]) = k
  BY DEF KeyCommitted, Rows
<1>2. KeyCommitted(k)' <=>
        \E a \in Accounts : \E i \in DOMAIN entries'[a] : Key(entries'[a][i]) = k
  BY DEF KeyCommitted, Rows, Key
<1>3. ASSUME KeyCommitted(k)
      PROVE  KeyCommitted(k)'
  BY <1>1, <1>2, <1>3, CommitRows
<1>4. ASSUME NEW a \in Accounts, tx[w].writes[a] # NoEntry, Key(tx[w].writes[a]) = k
      PROVE  KeyCommitted(k)'
  BY <1>2, <1>4, CommitRows
<1>5. ASSUME NEW a \in Accounts, NEW i \in DOMAIN entries'[a], Key(entries'[a][i]) = k
      PROVE  \/ KeyCommitted(k)
             \/ tx[w].writes[a] # NoEntry /\ Key(tx[w].writes[a]) = k
  BY <1>1, <1>5, CommitRows
<1> QED
  BY <1>2, <1>3, <1>4, <1>5

LEMMA KeyCommit ==
  ASSUME TypeInv, KeyInv, NEW w \in Workers, Commit(w)
  PROVE  KeyInv'
<1>0. \A v \in Workers : tx'[v] = IF v = w THEN IdleTx ELSE tx[v]
  BY DEF Commit, Release, TypeInv
<1>1. RecordedOnce'
  <2> DEFINE new(a, i) == i \notin DOMAIN entries[a]
  <2> SUFFICES ASSUME NEW a \in Accounts, NEW b \in Accounts,
                      NEW i \in DOMAIN entries'[a], NEW j \in DOMAIN entries'[b],
                      Key(entries'[a][i]) = Key(entries'[b][j])
               PROVE  a = b /\ i = j
    BY DEF RecordedOnce, Key
  <2>1. CASE ~new(a, i) /\ ~new(b, j)
    BY <2>1, CommitRows DEF KeyInv, RecordedOnce
  <2>2. CASE new(a, i) /\ new(b, j)
    <3>1. /\ tx[w].writes[a] # NoEntry /\ i = Len(entries[a]) + 1
          /\ entries'[a][i] = tx[w].writes[a]
      BY <2>2, CommitRows
    <3>2. /\ tx[w].writes[b] # NoEntry /\ j = Len(entries[b]) + 1
          /\ entries'[b][j] = tx[w].writes[b]
      BY <2>2, CommitRows
    <3>3. a = b
      BY <3>1, <3>2, OwnKeysDiffer DEF KeyInv
    <3> QED
      BY <3>1, <3>2, <3>3
  <2>3. CASE new(a, i) /\ ~new(b, j)
    <3>1. tx[w].writes[a] # NoEntry /\ entries'[a][i] = tx[w].writes[a]
      BY <2>3, CommitRows
    <3>2. KeyCommitted(Key(entries'[b][j]))
      BY <2>3, CommitRows DEF KeyCommitted, Rows
    <3> QED
      BY <3>1, <3>2 DEF KeyInv, FreshIn
  <2>4. CASE ~new(a, i) /\ new(b, j)
    <3>1. tx[w].writes[b] # NoEntry /\ entries'[b][j] = tx[w].writes[b]
      BY <2>4, CommitRows
    <3>2. KeyCommitted(Key(entries'[a][i]))
      BY <2>4, CommitRows DEF KeyCommitted, Rows
    <3> QED
      BY <3>1, <3>2 DEF KeyInv, FreshIn
  <2> QED
    BY <2>1, <2>2, <2>3, <2>4
<1>2. ASSUME NEW v \in Workers
      PROVE  WritesOK(tx[v])' /\ SettledIn(tx[v])' /\ FreshIn(tx[v])'
  <2>1. CASE v = w
    <3>1. tx'[v] = IdleTx
      BY <1>0, <2>1
    <3> QED
      BY <3>1 DEF IdleTx, NoWrites, WritesOK, SettledIn, FreshIn
  <2>2. CASE v # w
    <3>1. tx'[v] = tx[v]
      BY <1>0, <2>2
    <3>2. WritesOK(tx[v])'
      BY <3>1 DEF KeyInv, WritesOK, DoneIn
    <3>3. SettledIn(tx[v])'
      BY <3>1, CommitKeys DEF KeyInv, SettledIn, DoneIn
    <3>4. FreshIn(tx[v])'
      BY <2>2, <3>1, CommitKeys DEF KeyInv, FreshIn, Apart
    <3> QED
      BY <3>2, <3>3, <3>4
  <2> QED
    BY <2>1, <2>2
<1>3. ASSUME NEW u \in Workers, NEW v \in Workers, u # v
      PROVE  Apart(tx[u], tx[v])'
  <2>1. Apart(tx'[u], tx'[v])
    BY <1>0, <1>3, IdleKeys DEF KeyInv
  <2> QED
    BY <2>1 DEF Apart
<1> QED
  BY <1>1, <1>2, <1>3 DEF KeyInv

\* A step that changes no row of w, committed or not, and settles nothing.
LEMMA KeySame ==
  ASSUME TypeInv, KeyInv, NEW w \in Workers, NEW r,
         tx' = [tx EXCEPT ![w] = r], entries' = entries,
         tx[w].pc \notin {"idle", "commit"}, r.pc \notin {"idle", "commit"},
         r.op = tx[w].op, r.i = tx[w].i, r.writes = tx[w].writes
  PROVE  KeyInv'
<1>1. WritesOK(r) /\ SettledIn(r) /\ FreshIn(r)
  BY DEF KeyInv, WritesOK, SettledIn, FreshIn, DoneIn
<1>2. \A v \in Workers : v # w => Apart(r, tx[v])
  BY DEF KeyInv, Apart
<1> QED
  BY <1>1, <1>2, KeyUpdate

\* Once posting i is settled, the postings done are the old ones and i.
LEMMA DoneAdvance ==
  ASSUME TypeInv, NEW w \in Workers, tx[w].pc \in {"find", "create"},
         NEW r, r.op = tx[w].op, r.pc = Advance(w), r.i = NextPost(w)
  PROVE  /\ DoneIn(r) = DoneIn(tx[w]) \cup {tx[w].i}
         /\ \A j \in DoneIn(tx[w]) : j \in DOMAIN tx[w].op.posts /\ j # tx[w].i
<1>1. tx[w].op \in Ops /\ tx[w].i \in DOMAIN tx[w].op.posts
  BY CurrentFacts
<1>2. Len(tx[w].op.posts) \in {1, 2} /\ DOMAIN tx[w].op.posts = 1..Len(tx[w].op.posts)
  BY <1>1, OpFacts
<1>3. DoneIn(tx[w]) = {j \in DOMAIN tx[w].op.posts : j < tx[w].i}
  BY DEF DoneIn
<1>4. CASE tx[w].i = Len(tx[w].op.posts)
  BY <1>1, <1>2, <1>3, <1>4 DEF DoneIn, Advance
<1>5. CASE tx[w].i # Len(tx[w].op.posts)
  <2>1. r.pc = "lock" /\ r.i = tx[w].i + 1
    BY <1>5 DEF Advance, NextPost
  <2> QED
    BY <1>1, <1>2, <1>3, <2>1 DEF DoneIn
<1> QED
  BY <1>4, <1>5

LEMMA KeyFind ==
  ASSUME TypeInv, KeyInv, NEW w \in Workers, FindExisting(w)
  PROVE  KeyInv'
<1>1. tx[w].pc = "find" /\ entries' = entries /\ tx[w] \in TxRecord
  BY DEF FindExisting, TypeInv
<1>2. CASE ~KeyCommitted(Key(Current(w)))
  <2> DEFINE r == [tx[w] EXCEPT !.pc = "create"]
  <2>1. tx' = [tx EXCEPT ![w] = r]
    BY <1>2 DEF FindExisting
  <2>2. r.pc = "create" /\ r.op = tx[w].op /\ r.i = tx[w].i /\ r.writes = tx[w].writes
    BY <1>1 DEF TxRecord
  <2> HIDE DEF r
  <2> QED
    BY <1>1, <2>1, <2>2, KeySame
<1>3. CASE KeyCommitted(Key(Current(w)))
  <2> DEFINE r == [tx[w] EXCEPT !.pc = Advance(w), !.i = NextPost(w)]
  <2>1. tx' = [tx EXCEPT ![w] = r]
    BY <1>3 DEF FindExisting, NextPost
  <2>2. r.pc = Advance(w) /\ r.op = tx[w].op /\ r.i = NextPost(w)
        /\ r.writes = tx[w].writes
    BY <1>1 DEF TxRecord
  <2>3. r.pc # "idle"
    BY <2>2 DEF Advance
  <2> HIDE DEF r
  <2>4. DoneIn(r) = DoneIn(tx[w]) \cup {tx[w].i}
    BY <1>1, <2>2, DoneAdvance
  <2>5. WritesOK(r)
    BY <1>1, <2>2, <2>3, <2>4 DEF KeyInv, WritesOK
  <2>6. SettledIn(r)
    BY <1>1, <1>3, <2>2, <2>3, <2>4 DEF KeyInv, SettledIn, Current
  <2>7. FreshIn(r) /\ \A v \in Workers : v # w => Apart(r, tx[v])
    BY <2>2 DEF KeyInv, FreshIn, Apart
  <2> QED
    BY <1>1, <2>1, <2>5, <2>6, <2>7, KeyUpdate
<1> QED
  BY <1>2, <1>3

LEMMA KeyCreate ==
  ASSUME TypeInv, KeyInv, NEW w \in Workers, Create(w)
  PROVE  KeyInv'
<1> DEFINE a == Current(w).acct
           r == [tx[w] EXCEPT !.writes[a] = Row(w), !.pc = Advance(w), !.i = NextPost(w)]
<1>1. tx[w].pc = "create" /\ entries' = entries /\ tx[w] \in TxRecord
  BY DEF Create, TypeInv
<1>2. /\ tx[w].op \in Ops /\ tx[w].i \in DOMAIN tx[w].op.posts
      /\ a \in Accounts /\ Row(w) \in Entry
      /\ a = tx[w].op.posts[tx[w].i].acct
  BY <1>1, CurrentFacts DEF Current
<1>3. tx' = [tx EXCEPT ![w] = r]
  BY DEF Create, NextPost
<1>4. /\ r.pc = Advance(w) /\ r.pc # "idle" /\ r.op = tx[w].op /\ r.i = NextPost(w)
      /\ \A b \in Accounts : r.writes[b] = IF b = a THEN Row(w) ELSE tx[w].writes[b]
  BY <1>1 DEF TxRecord, Advance
<1>5. Row(w) # NoEntry /\ RowOf(Row(w), tx[w].op.posts[tx[w].i])
      /\ Key(Row(w)) = Key(Current(w))
  BY <1>2, NoEntryAssumption DEF Row, RowOf, Current, Key
<1> HIDE DEF r, a
<1>6. /\ DoneIn(r) = DoneIn(tx[w]) \cup {tx[w].i}
      /\ \A j \in DoneIn(tx[w]) : j \in DOMAIN tx[w].op.posts /\ j # tx[w].i
  BY <1>1, <1>4, DoneAdvance
<1>7. WritesOK(r)
  BY <1>1, <1>2, <1>4, <1>5, <1>6 DEF KeyInv, WritesOK
<1>8. SettledIn(r)
  <2>1. \A j \in DoneIn(tx[w]) : tx[w].op.posts[j].acct \in Accounts
                               /\ tx[w].op.posts[j].acct # a
    BY <1>2, <1>6, OpFacts, PostFacts
  <2>2. ASSUME NEW j \in DoneIn(r)
        PROVE  \/ KeyCommitted(Key(r.op.posts[j]))
               \/ r.writes[r.op.posts[j].acct] # NoEntry
    <3>1. CASE j \in DoneIn(tx[w])
      BY <1>1, <1>4, <2>1, <3>1 DEF KeyInv, SettledIn
    <3>2. CASE j = tx[w].i
      BY <1>2, <1>4, <1>5, <3>2
    <3> QED
      BY <1>6, <3>1, <3>2
  <2> QED
    BY <2>2 DEF SettledIn
<1>9. FreshIn(r)
  BY <1>4, <1>5 DEF KeyInv, FreshIn, Create, DuplicateKey
<1>10. ASSUME NEW v \in Workers, v # w
       PROVE  Apart(r, tx[v])
  <2>1. Apart(tx[w], tx[v])
    BY <1>10 DEF KeyInv
  <2>2. \A b \in Accounts : tx[v].writes[b] # NoEntry => Key(tx[v].writes[b]) # Key(Row(w))
    BY <1>5, <1>10 DEF Create, KeyPending
  <2> QED
    BY <1>4, <2>1, <2>2 DEF Apart
<1> QED
  BY <1>1, <1>3, <1>7, <1>8, <1>9, <1>10, KeyUpdate

LEMMA KeyNext == TypeInv /\ KeyInv /\ [Next]_vars => KeyInv'
<1> SUFFICES ASSUME TypeInv, KeyInv, [Next]_vars PROVE KeyInv'
  OBVIOUS
<1>0. \A w \in Workers : tx[w] \in TxRecord
  BY DEF TypeInv
<1>1. ASSUME NEW w \in Workers, NEW op \in Ops, Begin(w, op)
      PROVE  KeyInv'
  <2> DEFINE r == [IdleTx EXCEPT !.pc = IF op.locks = << >> THEN "lock" ELSE "prelock",
                                 !.op = op, !.locks = op.locks, !.i = 1]
  <2>1. tx' = [tx EXCEPT ![w] = r] /\ entries' = entries
    BY <1>1, Zenon DEF Begin
  <2>2. r.pc \in {"lock", "prelock"} /\ r.op = op /\ r.i = 1 /\ r.writes = NoWrites
    BY DEF IdleTx
  <2> HIDE DEF r
  <2>3. DoneIn(r) = {}
    <3>1. DOMAIN op.posts \subseteq {1, 2}
      BY OpFacts
    <3> QED
      BY <2>2, <3>1 DEF DoneIn
  <2>4. WritesOK(r) /\ SettledIn(r) /\ FreshIn(r)
    BY <2>2, <2>3 DEF WritesOK, SettledIn, FreshIn, NoWrites
  <2>5. \A v \in Workers : v # w => Apart(r, tx[v])
    BY <2>2 DEF Apart, NoWrites
  <2> QED
    BY <2>1, <2>4, <2>5, KeyUpdate
<1>2. ASSUME NEW w \in Workers, LockPair(w)
      PROVE  KeyInv'
  <2> DEFINE r == [tx[w] EXCEPT !.locks = Tail(@),
                                !.pc = IF Tail(tx[w].locks) = << >> THEN "lock"
                                       ELSE "prelock"]
  <2>1. tx' = [tx EXCEPT ![w] = r] /\ entries' = entries /\ tx[w].pc = "prelock"
    BY <1>2 DEF LockPair
  <2>2. r.pc \in {"lock", "prelock"} /\ r.op = tx[w].op /\ r.i = tx[w].i
        /\ r.writes = tx[w].writes
    BY <1>0 DEF TxRecord
  <2> HIDE DEF r
  <2> QED
    BY <2>1, <2>2, KeySame
<1>3. ASSUME NEW w \in Workers, LockAndGetBalance(w)
      PROVE  KeyInv'
  <2>1. PICK b : tx' = [tx EXCEPT ![w].bal = b, ![w].pc = "find"]
    BY <1>3 DEF LockAndGetBalance
  <2> DEFINE r == [tx[w] EXCEPT !.bal = b, !.pc = "find"]
  <2>2. tx' = [tx EXCEPT ![w] = r] /\ entries' = entries /\ tx[w].pc = "lock"
    BY <1>3, <2>1 DEF LockAndGetBalance
  <2>3. r.pc = "find" /\ r.op = tx[w].op /\ r.i = tx[w].i /\ r.writes = tx[w].writes
    BY <1>0 DEF TxRecord
  <2> HIDE DEF r
  <2> QED
    BY <2>2, <2>3, KeySame
<1>4. ASSUME NEW w \in Workers, Release(w), entries' = entries
      PROVE  KeyInv'
  <2>1. tx' = [tx EXCEPT ![w] = IdleTx]
    BY <1>4 DEF Release
  <2> QED
    BY <1>4, <2>1, IdleKeys, KeyUpdate
<1>5. ASSUME UNCHANGED <<entries, tx>>
      PROVE  KeyInv'
  BY <1>5 DEF KeyInv, RecordedOnce, WritesOK, SettledIn, FreshIn, Apart, DoneIn,
              KeyCommitted, Rows
<1> QED
  BY <1>1, <1>2, <1>3, <1>4, <1>5, KeyFind, KeyCreate, KeyCommit
     DEF Next, Step, NotFound, Reject, Rollback, AuditHistory, AuditSnapshot, vars

\* A request repeated, or made twice at once, is recorded once: no key
\* (referenceType, referenceId, direction) is ever committed twice.
THEOREM NeverRecordedTwice == Spec => []RecordedOnce
<1>1. TypeInv /\ KeyInv /\ [Next]_vars => (TypeInv /\ KeyInv)'
  BY TypeNext, KeyNext
<1>2. KeyInv => RecordedOnce
  BY DEF KeyInv
<1> QED
  BY TypeInit, KeyInit, <1>1, <1>2, PTL DEF Spec

-----------------------------------------------------------------------------
(* Internal transfers are atomic. *)

\* Callers name each operation by references of its own: operations that share
\* one key share all of them (a retry, perhaps against another account).
OpsKeysSeparate ==
  \A op1, op2 \in Ops :
    (\E i \in DOMAIN op1.posts : \E j \in DOMAIN op2.posts :
       Key(op1.posts[i]) = Key(op2.posts[j])) =>
    \A i \in DOMAIN op1.posts : \E j \in DOMAIN op2.posts :
      Key(op1.posts[i]) = Key(op2.posts[j])

\* At its commit, every posting of an operation is committed or about to be.
LEMMA CommitSettles ==
  ASSUME TypeInv, KeyInv, NEW w \in Workers, Commit(w),
         NEW op \in Ops, tx[w].op = op, NEW j \in DOMAIN op.posts
  PROVE  KeyCommitted(Key(op.posts[j]))'
<1>1. tx[w].pc = "commit" /\ j \in DoneIn(tx[w]) /\ op.posts[j].acct \in Accounts
  BY PostFacts DEF Commit, DoneIn
<1>2. CASE KeyCommitted(Key(op.posts[j]))
  BY <1>2, CommitKeys
<1>3. CASE tx[w].writes[op.posts[j].acct] # NoEntry
  <2> DEFINE a == op.posts[j].acct
  <2>1. PICK k \in DoneIn(tx[w]) :
          op.posts[k].acct = a /\ RowOf(tx[w].writes[a], op.posts[k])
    BY <1>1, <1>3 DEF KeyInv, WritesOK
  <2>2. k = j
    BY <2>1, OpFacts DEF DoneIn
  <2>3. Key(tx[w].writes[a]) = Key(op.posts[j])
    BY <2>1, <2>2 DEF RowOf, Key
  <2> QED
    BY <1>1, <1>3, <2>3, CommitKeys
<1> QED
  BY <1>1, <1>2, <1>3 DEF KeyInv, SettledIn

\* The rows a commit adds are rows of its operation.
LEMMA CommitOwn ==
  ASSUME TypeInv, KeyInv, NEW w \in Workers, Commit(w), NEW k,
         KeyCommitted(k)', ~KeyCommitted(k)
  PROVE  tx[w].op \in Ops /\ \E j \in DOMAIN tx[w].op.posts : Key(tx[w].op.posts[j]) = k
<1>1. PICK a \in Accounts : tx[w].writes[a] # NoEntry /\ Key(tx[w].writes[a]) = k
  BY CommitKeys
<1>2. tx[w].pc = "commit" /\ tx[w].op \in Ops
  BY DEF Commit, TypeInv, Stands
<1>3. PICK j \in DoneIn(tx[w]) : RowOf(tx[w].writes[a], tx[w].op.posts[j])
  BY <1>1, <1>2 DEF KeyInv, WritesOK
<1>4. Key(tx[w].op.posts[j]) = k /\ j \in DOMAIN tx[w].op.posts
  BY <1>1, <1>3 DEF RowOf, Key, DoneIn
<1> QED
  BY <1>2, <1>4

LEMMA AtomicNext ==
  ASSUME OpsKeysSeparate, TypeInv, KeyInv, TransferAtomic, [Next]_vars
  PROVE  TransferAtomic'
<1>1. CASE entries' = entries
  BY <1>1 DEF TransferAtomic, KeyCommitted, Rows
<1>2. ASSUME NEW w \in Workers, Commit(w)
      PROVE  TransferAtomic'
  <2>1. PICK op : op = tx[w].op
    OBVIOUS
  <2>2. \A k : KeyCommitted(k) => KeyCommitted(k)'
    BY <1>2, CommitKeys
  <2>3. ASSUME NEW p \in Ops, NEW m \in DOMAIN p.posts, NEW n \in DOMAIN p.posts,
               KeyCommitted(Key(p.posts[m]))',
               KeyCommitted(Key(p.posts[m])) => KeyCommitted(Key(p.posts[n]))
        PROVE  KeyCommitted(Key(p.posts[n]))'
    <3>1. CASE KeyCommitted(Key(p.posts[m]))
      BY <2>2, <2>3, <3>1
    <3>2. CASE ~KeyCommitted(Key(p.posts[m]))
      <4>1. op \in Ops /\ \E j \in DOMAIN op.posts : Key(op.posts[j]) = Key(p.posts[m])
        BY <1>2, <2>1, <2>3, <3>2, CommitOwn
      <4>2. PICK i \in DOMAIN op.posts : Key(p.posts[n]) = Key(op.posts[i])
        BY <4>1, OpsKeysSeparate DEF OpsKeysSeparate
      <4>3. KeyCommitted(Key(op.posts[i]))'
        BY <1>2, <2>1, <4>1, CommitSettles
      <4> QED
        BY <4>2, <4>3
    <3> QED
      BY <3>1, <3>2
  <2>4. ASSUME NEW p \in Ops, Len(p.posts) = 2
        PROVE  KeyCommitted(Key(p.posts[1]))' <=> KeyCommitted(Key(p.posts[2]))'
    <3>1. 1 \in DOMAIN p.posts /\ 2 \in DOMAIN p.posts
      BY <2>4, OpFacts
    <3>2. KeyCommitted(Key(p.posts[1])) <=> KeyCommitted(Key(p.posts[2]))
      BY <2>4 DEF TransferAtomic
    <3> QED
      BY <2>3, <3>1, <3>2
  <2> QED
    BY <2>4 DEF TransferAtomic
<1> QED
  BY <1>1, <1>2 DEF Next, Step, Begin, LockPair, LockAndGetBalance, FindExisting, Create,
     NotFound, Reject, Rollback, AuditHistory, AuditSnapshot, vars

\* An internal transfer is never committed half: its debit is in the history
\* exactly when its credit is, through crashes and concurrent repetitions.
THEOREM TransfersAtomic ==
  ASSUME OpsKeysSeparate
  PROVE  Spec => []TransferAtomic
<1>1. TypeInv /\ KeyInv /\ [Next]_vars => (TypeInv /\ KeyInv)'
  BY TypeNext, KeyNext
<1>2. Init => TransferAtomic
  BY DEF Init, TransferAtomic, KeyCommitted, Rows
<1>3. TypeInv /\ KeyInv /\ TransferAtomic /\ [Next]_vars => TransferAtomic'
  BY OpsKeysSeparate, AtomicNext
<1> QED
  BY TypeInit, KeyInit, <1>1, <1>2, <1>3, PTL DEF Spec

-----------------------------------------------------------------------------
(***************************************************************************)
(* Balances, as long as the stamps of an account follow its commit order.  *)
(* Then its committed rows each carry the running total; a row that waits  *)
(* to be committed, or a balance that was read, belongs to the account     *)
(* whose lock its transaction holds, so nothing can overtake it.  An       *)
(* account whose stamps have tied or turned around once stays disordered,  *)
(* and nothing is said of it.                                              *)
(***************************************************************************)

\* The rows of w, under locks lk.
PendingIn(r, w, lk) ==
  \A a \in Accounts : r.writes[a] # NoEntry =>
    /\ lk[a] = w
    /\ Ordered(a) => r.writes[a].balanceAfter = TailBalance(a) + Delta(r.writes[a])

\* The balance w has read, under locks lk.
ReadIn(r, w, lk) ==
  r.pc \in {"find", "create"} =>
    \A a \in Accounts : a = r.op.posts[r.i].acct =>
      lk[a] = w /\ (Ordered(a) => r.bal = TailBalance(a))

\* Each row carries the balance of the row committed before it, plus or minus
\* its own amount (balanceAfter = currentBalance + delta under the row lock).
ChainOK ==
  \A a \in Accounts : Ordered(a) => \A i \in DOMAIN entries[a] :
    entries[a][i].balanceAfter =
      (IF i = 1 THEN 0 ELSE entries[a][i - 1].balanceAfter) + Delta(entries[a][i])

TotalsOK == \A a \in Accounts : Ordered(a) => TailBalance(a) = ComputedBalance(a)

ChainInv ==
  /\ ChainOK
  /\ TotalsOK
  /\ \A w \in Workers : PendingIn(tx[w], w, lock) /\ ReadIn(tx[w], w, lock)

\* With stamps in commit order, the newest row is the last one committed.
LEMMA SnapshotIsTail ==
  ASSUME TypeInv, NEW a \in Accounts, Ordered(a)
  PROVE  SnapshotBalances(a) = {TailBalance(a)}
<1>1. entries[a] \in Seq(Entry) /\ \A e \in Entry : e.createdAt \in Nat
  BY DEF TypeInv, Entry
<1>2. CASE entries[a] = << >>
  BY <1>2 DEF SnapshotBalances, TailBalance
<1>3. CASE entries[a] # << >>
  <2> DEFINE n == Len(entries[a])
             e == entries[a][n]
  <2>1. n \in DOMAIN entries[a] /\ \A i \in DOMAIN entries[a] : i = n \/ i < n
    BY <1>1, <1>3
  <2>2. \A i \in DOMAIN entries[a] : entries[a][i].createdAt \in Nat
    BY <1>1
  <2>3. \A i \in DOMAIN entries[a] : i = n \/ entries[a][i].createdAt < e.createdAt
    BY <2>1 DEF Ordered
  <2>4. Newest(a) = {e}
    BY <2>1, <2>2, <2>3 DEF Newest, Rows
  <2> QED
    BY <1>3, <2>4 DEF SnapshotBalances, TailBalance
<1> QED
  BY <1>2, <1>3

\* No worker but w loses a lock.
LocksKept(w) ==
  \A a \in Accounts : \A v \in Workers : v # w /\ lock[a] = v => lock'[a] = v

LEMMA AcquireKeeps ==
  ASSUME TypeInv, NEW w \in Workers, NEW a \in Accounts, Acquire(w, a)
  PROVE  /\ LocksKept(w) /\ (a \notin Missing => lock'[a] = w)
         /\ \A b \in Accounts : lock[b] = w => lock'[b] = w
  BY FreeAssumption DEF LocksKept, Acquire, TypeInv

LEMMA ReleaseKeeps ==
  ASSUME TypeInv, NEW w \in Workers, Release(w)
  PROVE  LocksKept(w)
  BY DEF LocksKept, Release, TypeInv

\* As long as nothing is committed, only the transaction that moves matters.
LEMMA ChainUpdate ==
  ASSUME TypeInv, ChainInv, NEW w \in Workers, NEW r,
         tx' = [tx EXCEPT ![w] = r], entries' = entries,
         LocksKept(w),
         PendingIn(r, w, lock'), ReadIn(r, w, lock')
  PROVE  ChainInv'
<1>1. \A v \in Workers : tx'[v] = IF v = w THEN r ELSE tx[v]
  BY DEF TypeInv
<1>2. \A a \in Accounts : TailBalance(a)' = TailBalance(a) /\ (Ordered(a)' <=> Ordered(a))
  BY DEF TailBalance, Ordered
<1>3. ChainOK'
  BY DEF ChainInv, ChainOK, Ordered
<1>4. TotalsOK'
  BY DEF ChainInv, TotalsOK, TailBalance, ComputedBalance, Ordered
<1>5. ASSUME NEW v \in Workers
      PROVE  PendingIn(tx[v], v, lock)' /\ ReadIn(tx[v], v, lock)'
  <2>1. PendingIn(tx'[v], v, lock') /\ ReadIn(tx'[v], v, lock')
    <3>1. CASE v = w
      BY <1>1, <3>1
    <3>2. CASE v # w
      <4>1. tx'[v] = tx[v] /\ PendingIn(tx[v], v, lock) /\ ReadIn(tx[v], v, lock)
        BY <1>1, <3>2 DEF ChainInv
      <4>2. PendingIn(tx[v], v, lock')
        BY <3>2, <4>1 DEF PendingIn, LocksKept
      <4>3. ReadIn(tx[v], v, lock')
        BY <3>2, <4>1 DEF ReadIn, LocksKept
      <4> QED
        BY <4>1, <4>2, <4>3
    <3> QED
      BY <3>1, <3>2
  <2>2. PendingIn(tx[v], v, lock)'
    <3> SUFFICES ASSUME NEW a \in Accounts, tx'[v].writes[a] # NoEntry
                 PROVE  /\ lock'[a] = v
                        /\ Ordered(a)' => tx'[v].writes[a].balanceAfter
                             = TailBalance(a)' + Delta(tx'[v].writes[a])
      BY DEF PendingIn, Delta
    <3> QED
      BY <1>2, <2>1 DEF PendingIn
  <2>3. ReadIn(tx[v], v, lock)'
    <3> SUFFICES ASSUME NEW a \in Accounts, tx'[v].pc \in {"find", "create"},
                        a = tx'[v].op.posts[tx'[v].i].acct
                 PROVE  lock'[a] = v /\ (Ordered(a)' => tx'[v].bal = TailBalance(a)')
      BY DEF ReadIn
    <3> QED
      BY <1>2, <2>1 DEF ReadIn
  <2> QED
    BY <2>2, <2>3
<1> QED
  BY <1>3, <1>4, <1>5 DEF ChainInv

\* The same, for a step that changes no row of w and no time.
LEMMA ChainSame ==
  ASSUME TypeInv, ChainInv, NEW w \in Workers, NEW r,
         tx' = [tx EXCEPT ![w] = r], entries' = entries, LocksKept(w),
         \A a \in Accounts : lock[a] = w => lock'[a] = w,
         r.writes = tx[w].writes, ReadIn(r, w, lock')
  PROVE  ChainInv'
<1>1. PendingIn(r, w, lock')
  BY DEF ChainInv, PendingIn
<1> QED
  BY <1>1, ChainUpdate

LEMMA ChainInit == Init => ChainInv
<1> SUFFICES ASSUME Init PROVE ChainInv
  OBVIOUS
<1>1. \A a \in Accounts : entries[a] = << >>
  BY DEF Init
<1>2. ChainOK
  BY <1>1 DEF ChainOK
<1>3. TotalsOK
  BY <1>1, TotalEmpty DEF TotalsOK, TailBalance, ComputedBalance
<1>4. \A w \in Workers : PendingIn(tx[w], w, lock) /\ ReadIn(tx[w], w, lock)
  BY DEF Init, IdleTx, NoWrites, PendingIn, ReadIn
<1> QED
  BY <1>2, <1>3, <1>4 DEF ChainInv

LEMMA ChainLock ==
  ASSUME TypeInv, ChainInv, NEW w \in Workers, LockAndGetBalance(w)
  PROVE  ChainInv'
<1> DEFINE a == Current(w).acct
<1>1. tx[w].pc = "lock" /\ tx[w] \in TxRecord
  BY DEF LockAndGetBalance, TypeInv
<1>2. a \in Accounts /\ a \notin Missing
  BY <1>1, CurrentFacts DEF LockAndGetBalance
<1>3. Ordered(a) => SnapshotBalances(a) = {TailBalance(a)}
  BY <1>2, SnapshotIsTail
<1>4. PICK b \in SnapshotBalances(a) : tx' = [tx EXCEPT ![w].bal = b, ![w].pc = "find"]
  BY DEF LockAndGetBalance
<1> DEFINE r == [tx[w] EXCEPT !.bal = b, !.pc = "find"]
<1>5. tx' = [tx EXCEPT ![w] = r]
  BY <1>4
<1>6. r.op = tx[w].op /\ r.i = tx[w].i /\ (Ordered(a) => r.bal = TailBalance(a)) /\ r.writes = tx[w].writes
  BY <1>1, <1>3, <1>4 DEF TxRecord
<1> HIDE DEF r
<1>7. Acquire(w, a) /\ entries' = entries
  BY DEF LockAndGetBalance
<1>8. ReadIn(r, w, lock')
  BY <1>2, <1>6, <1>7, AcquireKeeps DEF ReadIn, Current
<1> QED
  BY <1>2, <1>5, <1>6, <1>7, <1>8, AcquireKeeps, ChainSame

LEMMA ChainFind ==
  ASSUME TypeInv, ChainInv, NEW w \in Workers, FindExisting(w)
  PROVE  ChainInv'
<1>1. tx[w].pc = "find" /\ tx[w] \in TxRecord /\ entries' = entries
      /\ lock' = lock /\ LocksKept(w)
  BY DEF FindExisting, TypeInv, LocksKept
<1> DEFINE new == [tx[w] EXCEPT !.pc = "create"]
           found == [tx[w] EXCEPT !.pc = Advance(w), !.i = NextPost(w)]
<1>2. tx' = [tx EXCEPT ![w] = found] \/ tx' = [tx EXCEPT ![w] = new]
  BY DEF FindExisting, NextPost
<1>3. found.writes = tx[w].writes /\ ReadIn(found, w, lock')
  BY <1>1 DEF TxRecord, ReadIn, Advance
<1>4. new.writes = tx[w].writes /\ new.op = tx[w].op /\ new.i = tx[w].i /\ new.bal = tx[w].bal
  BY <1>1 DEF TxRecord
<1> HIDE DEF new, found
<1>5. ReadIn(new, w, lock')
  BY <1>1, <1>4 DEF ChainInv, ReadIn
<1> QED
  BY <1>1, <1>2, <1>3, <1>4, <1>5, ChainSame

LEMMA ChainCreate ==
  ASSUME TypeInv, ChainInv, NEW w \in Workers, Create(w)
  PROVE  ChainInv'
<1> DEFINE a == Current(w).acct
           r == [tx[w] EXCEPT !.writes[a] = Row(w), !.pc = Advance(w), !.i = NextPost(w)]
<1>1. /\ tx[w].pc = "create" /\ tx[w] \in TxRecord /\ entries' = entries
      /\ lock' = lock /\ LocksKept(w)
  BY DEF Create, TypeInv, LocksKept
<1>2. a \in Accounts /\ Row(w) \in Entry /\ a = tx[w].op.posts[tx[w].i].acct
  BY <1>1, CurrentFacts DEF Current
<1>3. tx' = [tx EXCEPT ![w] = r]
  BY DEF Create, NextPost
<1>4. /\ r.pc = Advance(w)
      /\ \A b \in Accounts : r.writes[b] = IF b = a THEN Row(w) ELSE tx[w].writes[b]
  BY <1>1 DEF TxRecord
<1> HIDE DEF r, a
<1>5. lock[a] = w /\ (Ordered(a) => tx[w].bal = TailBalance(a))
  BY <1>1, <1>2 DEF ChainInv, ReadIn
<1>6. Ordered(a) => Row(w).balanceAfter = TailBalance(a) + Delta(Row(w))
  BY <1>5 DEF Row, Delta
<1>7. PendingIn(r, w, lock')
  BY <1>1, <1>4, <1>5, <1>6 DEF ChainInv, PendingIn
<1>8. ReadIn(r, w, lock')
  BY <1>4 DEF ReadIn, Advance
<1> QED
  BY <1>1, <1>3, <1>7, <1>8, ChainUpdate

\* What a commit does to the balance of an account.
LEMMA CommitBalance ==
  ASSUME TypeInv, ChainInv, NEW w \in Workers, Commit(w), NEW a \in Accounts
  PROVE  /\ Ordered(a)' => Ordered(a)
         /\ tx[w].writes[a] = NoEntry =>
              TailBalance(a)' = TailBalance(a) /\ ComputedBalance(a)' = ComputedBalance(a)
         /\ tx[w].writes[a] # NoEntry =>
              /\ Ordered(a) => TailBalance(a)' = TailBalance(a) + Delta(tx[w].writes[a])
              /\ TailBalance(a)' = tx[w].writes[a].balanceAfter
              /\ ComputedBalance(a)' = ComputedBalance(a) + Delta(tx[w].writes[a])
<1>1. CASE tx[w].writes[a] = NoEntry
  BY <1>1, CommitRows DEF TailBalance, ComputedBalance, Ordered
<1>2. CASE tx[w].writes[a] # NoEntry
  <2>1. /\ entries'[a] = Append(entries[a], tx[w].writes[a])
        /\ tx[w].writes[a] \in Entry /\ entries[a] \in Seq(Entry)
    BY <1>2, CommitRows DEF TypeInv
  <2>2. Ordered(a) => tx[w].writes[a].balanceAfter = TailBalance(a) + Delta(tx[w].writes[a])
    BY <1>2 DEF ChainInv, PendingIn
  <2>5. Ordered(a)' => Ordered(a)
    <3>1. DOMAIN entries[a] \subseteq DOMAIN entries'[a]
          /\ \A i \in DOMAIN entries[a] : entries'[a][i] = entries[a][i]
      BY <2>1
    <3> QED
      BY <3>1 DEF Ordered
  <2>3. entries'[a] # << >> /\ entries'[a][Len(entries'[a])] = tx[w].writes[a]
    BY <2>1
  <2>4. Total(entries'[a]) = Total(entries[a]) + Delta(tx[w].writes[a])
    BY <2>1, TotalAppend
  <2> QED
    BY <1>2, <2>2, <2>3, <2>4, <2>5 DEF TailBalance, ComputedBalance
<1> QED
  BY <1>1, <1>2

LEMMA ChainCommit ==
  ASSUME TypeInv, ChainInv, NEW w \in Workers, Commit(w)
  PROVE  ChainInv'
<1>0. /\ \A v \in Workers : tx'[v] = IF v = w THEN IdleTx ELSE tx[v]
      /\ LocksKept(w)
  BY ReleaseKeeps DEF Commit, Release, TypeInv
<1>1. \A a \in Accounts : tx[w].writes[a] # NoEntry =>
        /\ Ordered(a) => tx[w].writes[a].balanceAfter = TailBalance(a) + Delta(tx[w].writes[a])
        /\ lock[a] = w
  BY DEF ChainInv, PendingIn
<1>2. \A a \in Accounts : entries[a] \in Seq(Entry)
  BY DEF TypeInv
<1>3. \A a \in Accounts : Ordered(a)' => Ordered(a)
  BY CommitBalance
<1>4. ChainOK'
  <2> SUFFICES ASSUME NEW a \in Accounts, Ordered(a)', NEW i \in DOMAIN entries'[a]
               PROVE  entries'[a][i].balanceAfter =
                        (IF i = 1 THEN 0 ELSE entries'[a][i - 1].balanceAfter)
                          + Delta(entries'[a][i])
    BY DEF ChainOK, Delta
  <2>1. DOMAIN entries[a] = 1..Len(entries[a]) /\ Len(entries[a]) \in Nat
    BY <1>2
  <2>2. CASE i \in DOMAIN entries[a]
    <3>1. i # 1 => i - 1 \in DOMAIN entries[a]
      BY <2>1, <2>2
    <3>2. /\ entries'[a][i] = entries[a][i]
          /\ i # 1 => entries'[a][i - 1] = entries[a][i - 1]
      BY <2>2, <3>1, CommitRows
    <3>3. entries[a][i].balanceAfter =
            (IF i = 1 THEN 0 ELSE entries[a][i - 1].balanceAfter) + Delta(entries[a][i])
      BY <1>3, <2>2 DEF ChainInv, ChainOK
    <3> QED
      BY <3>2, <3>3
  <2>3. CASE i \notin DOMAIN entries[a]
    <3>1. /\ tx[w].writes[a] # NoEntry /\ i = Len(entries[a]) + 1
          /\ entries'[a][i] = tx[w].writes[a]
      BY <2>3, CommitRows
    <3>2. i # 1 => i - 1 \in DOMAIN entries[a] /\ i - 1 = Len(entries[a])
      BY <2>1, <3>1
    <3>3. i = 1 <=> entries[a] = << >>
      BY <1>2, <2>1, <3>1
    <3>4. TailBalance(a) = IF i = 1 THEN 0 ELSE entries'[a][i - 1].balanceAfter
      BY <3>2, <3>3, CommitRows DEF TailBalance
    <3> QED
      BY <1>1, <1>3, <3>1, <3>4
  <2> QED
    BY <2>2, <2>3
<1>5. TotalsOK'
  BY <1>3, CommitBalance DEF ChainInv, TotalsOK
<1>6. ASSUME NEW v \in Workers
      PROVE  PendingIn(tx[v], v, lock)' /\ ReadIn(tx[v], v, lock)'
  <2>1. CASE v = w
    <3>1. tx'[v] = IdleTx
      BY <1>0, <2>1
    <3> QED
      BY <3>1 DEF IdleTx, NoWrites, PendingIn, ReadIn
  <2>2. CASE v # w
    <3>1. tx'[v] = tx[v]
      BY <1>0, <2>2
    <3>2. \A a \in Accounts : lock[a] = v =>
            /\ lock'[a] = v /\ entries'[a] = entries[a]
            /\ TailBalance(a)' = TailBalance(a) /\ (Ordered(a)' => Ordered(a))
      BY <1>0, <1>1, <1>3, <2>2, CommitRows, CommitBalance DEF LocksKept
    <3>3. PendingIn(tx[v], v, lock)'
      <4> SUFFICES ASSUME NEW a \in Accounts, tx'[v].writes[a] # NoEntry
                   PROVE  /\ lock'[a] = v
                          /\ Ordered(a)' => tx'[v].writes[a].balanceAfter
                               = TailBalance(a)' + Delta(tx'[v].writes[a])
        BY DEF PendingIn, Delta
      <4> QED
        BY <1>0, <3>1, <3>2 DEF ChainInv, PendingIn
    <3>4. ReadIn(tx[v], v, lock)'
      <4> SUFFICES ASSUME NEW a \in Accounts, tx'[v].pc \in {"find", "create"},
                          a = tx'[v].op.posts[tx'[v].i].acct
                   PROVE  lock'[a] = v /\ (Ordered(a)' => tx'[v].bal = TailBalance(a)')
        BY DEF ReadIn
      <4> QED
        BY <3>1, <3>2 DEF ChainInv, ReadIn
    <3> QED
      BY <3>3, <3>4
  <2> QED
    BY <2>1, <2>2
<1> QED
  BY <1>4, <1>5, <1>6 DEF ChainInv

LEMMA ChainNext ==
  ASSUME TypeInv, ChainInv, [Next]_vars
  PROVE  ChainInv'
<1>0. \A w \in Workers : tx[w] \in TxRecord
  BY DEF TypeInv
<1>1. ASSUME NEW w \in Workers, NEW op \in Ops, Begin(w, op)
      PROVE  ChainInv'
  <2> DEFINE r == [IdleTx EXCEPT !.pc = IF op.locks = << >> THEN "lock" ELSE "prelock",
                                 !.op = op, !.locks = op.locks, !.i = 1]
  <2>1. tx' = [tx EXCEPT ![w] = r] /\ entries' = entries /\ LocksKept(w)
    BY <1>1, Zenon DEF Begin, LocksKept
  <2>2. PendingIn(r, w, lock') /\ ReadIn(r, w, lock')
    BY DEF IdleTx, NoWrites, PendingIn, ReadIn
  <2> HIDE DEF r
  <2> QED
    BY <2>1, <2>2, ChainUpdate
<1>2. ASSUME NEW w \in Workers, LockPair(w)
      PROVE  ChainInv'
  <2> DEFINE r == [tx[w] EXCEPT !.locks = Tail(@),
                                !.pc = IF Tail(tx[w].locks) = << >> THEN "lock"
                                       ELSE "prelock"]
  <2>1. tx' = [tx EXCEPT ![w] = r] /\ entries' = entries
        /\ Acquire(w, Head(tx[w].locks))
    BY <1>2 DEF LockPair
  <2>2. Head(tx[w].locks) \in Accounts
    <3>1. tx[w].locks \in Seq(Accounts) /\ tx[w].locks # << >>
      BY <1>0, <1>2 DEF LockPair, TypeInv, Stands, TxRecord
    <3> QED
      BY <3>1
  <2>3. LocksKept(w) /\ \A a \in Accounts : lock[a] = w => lock'[a] = w
    BY <2>1, <2>2, AcquireKeeps
  <2>4. r.writes = tx[w].writes /\ ReadIn(r, w, lock')
    BY <1>0 DEF TxRecord, ReadIn
  <2> HIDE DEF r
  <2> QED
    BY <2>1, <2>3, <2>4, ChainSame
<1>3. ASSUME NEW w \in Workers, Release(w), entries' = entries
      PROVE  ChainInv'
  <2>1. tx' = [tx EXCEPT ![w] = IdleTx] /\ LocksKept(w)
    BY <1>3, ReleaseKeeps DEF Release
  <2>2. PendingIn(IdleTx, w, lock') /\ ReadIn(IdleTx, w, lock')
    BY DEF IdleTx, NoWrites, PendingIn, ReadIn
  <2> QED
    BY <1>3, <2>1, <2>2, ChainUpdate
<1>4. ASSUME UNCHANGED <<entries, lock, tx>>
      PROVE  ChainInv'
  <2>1. \A a \in Accounts : TailBalance(a)' = TailBalance(a)
                         /\ ComputedBalance(a)' = ComputedBalance(a)
                         /\ (Ordered(a)' <=> Ordered(a))
    BY <1>4 DEF TailBalance, ComputedBalance, Ordered
  <2>2. ChainOK' /\ TotalsOK'
    BY <1>4, <2>1 DEF ChainInv, ChainOK, TotalsOK
  <2>3. ASSUME NEW v \in Workers
        PROVE  PendingIn(tx[v], v, lock)' /\ ReadIn(tx[v], v, lock)'
    <3>1. PendingIn(tx[v], v, lock) /\ ReadIn(tx[v], v, lock)
      BY DEF ChainInv
    <3>2. PendingIn(tx[v], v, lock)'
      <4> SUFFICES ASSUME NEW a \in Accounts, tx'[v].writes[a] # NoEntry
                   PROVE  /\ lock'[a] = v
                          /\ Ordered(a)' => tx'[v].writes[a].balanceAfter
                               = TailBalance(a)' + Delta(tx'[v].writes[a])
        BY DEF PendingIn, Delta
      <4> QED
        BY <1>4, <2>1, <3>1 DEF PendingIn
    <3>3. ReadIn(tx[v], v, lock)'
      <4> SUFFICES ASSUME NEW a \in Accounts, tx'[v].pc \in {"find", "create"},
                          a = tx'[v].op.posts[tx'[v].i].acct
                   PROVE  lock'[a] = v /\ (Ordered(a)' => tx'[v].bal = TailBalance(a)')
        BY DEF ReadIn
      <4> QED
        BY <1>4, <2>1, <3>1 DEF ReadIn
    <3> QED
      BY <3>2, <3>3
  <2> QED
    BY <2>2, <2>3 DEF ChainInv
<1> QED
  BY <1>1, <1>2, <1>3, <1>4, ChainLock, ChainFind, ChainCreate, ChainCommit
     DEF Next, Step, NotFound, Reject, Rollback, AuditHistory, AuditSnapshot, vars

\* While the stamps of an account follow its commit order, the balance that
\* getBalance reads is the balance recomputed from the full history: concurrent
\* writers never lose an update.
THEOREM SnapshotsNeverDrift == Spec => []NoDrift
<1>1. TypeInv /\ ChainInv /\ [Next]_vars => (TypeInv /\ ChainInv)'
  BY TypeNext, ChainNext
<1>2. TypeInv /\ ChainInv => NoDrift
  BY SnapshotIsTail DEF ChainInv, TotalsOK, NoDrift
<1> QED
  BY TypeInit, ChainInit, <1>1, <1>2, PTL DEF Spec

\* Then each row carries on from the row committed before it, too: the lock on
\* the account orders the writers that read the latest balance.
THEOREM RowsChain == Spec => []ChainOK
<1>1. TypeInv /\ ChainInv /\ [Next]_vars => (TypeInv /\ ChainInv)'
  BY TypeNext, ChainNext
<1>2. ChainInv => ChainOK
  BY DEF ChainInv
<1> QED
  BY TypeInit, ChainInit, <1>1, <1>2, PTL DEF Spec

-----------------------------------------------------------------------------
(* No overdraft, unless the caller allows one. *)

NoOverdrafts == \A op \in Ops : \A i \in DOMAIN op.posts : ~op.posts[i].allowNegative

\* A row about to be committed leaves its account at zero or above, or belongs
\* to a posting that may overdraw it.
CoveredIn(r) ==
  \A a \in Accounts : r.writes[a] # NoEntry =>
    \/ r.writes[a].balanceAfter >= 0
    \/ \E j \in DOMAIN r.op.posts : r.op.posts[j].acct = a /\ r.op.posts[j].allowNegative

Covered == \A w \in Workers : CoveredIn(tx[w])

\* Only the transaction that moves matters.
LEMMA CoveredUpdate ==
  ASSUME TypeInv, Covered, NEW w \in Workers, NEW r, CoveredIn(r),
         tx' = [tx EXCEPT ![w] = r]
  PROVE  Covered'
<1>1. \A v \in Workers : CoveredIn(tx'[v])
  BY DEF TypeInv, Covered
<1> QED
  BY <1>1 DEF Covered, CoveredIn

LEMMA CoveredNext == TypeInv /\ Covered /\ [Next]_vars => Covered'
<1> SUFFICES ASSUME TypeInv, Covered, [Next]_vars PROVE Covered'
  OBVIOUS
<1>0. \A w \in Workers : tx[w] \in TxRecord /\ CoveredIn(tx[w])
  BY DEF TypeInv, Covered
<1>1. ASSUME NEW w \in Workers, Create(w)
      PROVE  Covered'
  <2> DEFINE a == Current(w).acct
             r == [tx[w] EXCEPT !.writes[a] = Row(w), !.pc = Advance(w), !.i = NextPost(w)]
  <2>1. tx' = [tx EXCEPT ![w] = r]
    BY <1>1 DEF Create, NextPost
  <2>2. /\ r.op = tx[w].op
        /\ \A b \in Accounts : r.writes[b] = IF b = a THEN Row(w) ELSE tx[w].writes[b]
    BY <1>0 DEF TxRecord
  <2>3. tx[w].i \in DOMAIN tx[w].op.posts /\ Delta(Current(w)) \in Int /\ tx[w].bal \in Int
    BY <1>0, <1>1, CurrentFacts DEF Create, TxRecord
  <2>4. Row(w).balanceAfter >= 0 \/ Current(w).allowNegative
    BY <1>1, <2>3 DEF Create, Overdraws, Row
  <2> HIDE DEF r
  <2>5. CoveredIn(r)
    BY <1>0, <2>2, <2>3, <2>4 DEF CoveredIn, Current
  <2> QED
    BY <2>1, <2>5, CoveredUpdate
<1>2. CoveredIn(IdleTx)
  BY DEF CoveredIn, IdleTx, NoWrites
<1>3. ASSUME NEW w \in Workers, Release(w)
      PROVE  Covered'
  <2>1. tx' = [tx EXCEPT ![w] = IdleTx]
    BY <1>3 DEF Release
  <2> QED
    BY <1>2, <2>1, CoveredUpdate
<1>4. ASSUME NEW w \in Workers, NEW op \in Ops, Begin(w, op)
      PROVE  Covered'
  <2> DEFINE r == [IdleTx EXCEPT !.pc = IF op.locks = << >> THEN "lock" ELSE "prelock",
                                 !.op = op, !.locks = op.locks, !.i = 1]
  <2>1. tx' = [tx EXCEPT ![w] = r]
    BY <1>4, Zenon DEF Begin
  <2>2. CoveredIn(r)
    BY DEF IdleTx, NoWrites, CoveredIn
  <2> HIDE DEF r
  <2> QED
    BY <2>1, <2>2, CoveredUpdate
<1>5. ASSUME NEW w \in Workers, NEW r, tx' = [tx EXCEPT ![w] = r],
             r.op = tx[w].op, r.writes = tx[w].writes
      PROVE  Covered'
  <2>1. CoveredIn(r)
    BY <1>0, <1>5 DEF CoveredIn
  <2> QED
    BY <1>5, <2>1, CoveredUpdate
<1>6. ASSUME NEW w \in Workers, LockPair(w)
      PROVE  Covered'
  <2> DEFINE r == [tx[w] EXCEPT !.locks = Tail(@),
                                !.pc = IF Tail(tx[w].locks) = << >> THEN "lock"
                                       ELSE "prelock"]
  <2>1. tx' = [tx EXCEPT ![w] = r]
    BY <1>6 DEF LockPair
  <2>2. r.op = tx[w].op /\ r.writes = tx[w].writes
    BY <1>0 DEF TxRecord
  <2> HIDE DEF r
  <2> QED
    BY <1>5, <2>1, <2>2
<1>7. ASSUME NEW w \in Workers, LockAndGetBalance(w)
      PROVE  Covered'
  <2>1. PICK b : tx' = [tx EXCEPT ![w].bal = b, ![w].pc = "find"]
    BY <1>7 DEF LockAndGetBalance
  <2> DEFINE r == [tx[w] EXCEPT !.bal = b, !.pc = "find"]
  <2>2. tx' = [tx EXCEPT ![w] = r]
    BY <2>1
  <2>3. r.op = tx[w].op /\ r.writes = tx[w].writes
    BY <1>0 DEF TxRecord
  <2> HIDE DEF r
  <2> QED
    BY <1>5, <2>2, <2>3
<1>8. ASSUME NEW w \in Workers, FindExisting(w)
      PROVE  Covered'
  <2> DEFINE new == [tx[w] EXCEPT !.pc = "create"]
             found == [tx[w] EXCEPT !.pc = Advance(w), !.i = NextPost(w)]
  <2>1. tx' = [tx EXCEPT ![w] = found] \/ tx' = [tx EXCEPT ![w] = new]
    BY <1>8 DEF FindExisting, NextPost
  <2>2. /\ new.op = tx[w].op /\ new.writes = tx[w].writes
        /\ found.op = tx[w].op /\ found.writes = tx[w].writes
    BY <1>0 DEF TxRecord
  <2> HIDE DEF new, found
  <2> QED
    BY <1>5, <2>1, <2>2
<1>9. ASSUME UNCHANGED tx
      PROVE  Covered'
  BY <1>9 DEF Covered, CoveredIn
<1> QED
  BY <1>1, <1>3, <1>4, <1>6, <1>7, <1>8, <1>9
     DEF Next, Step, NotFound, Reject, Commit, Rollback, AuditHistory, AuditSnapshot, vars

NonNegative == \A a \in Accounts : Ordered(a) => TailBalance(a) >= 0

LEMMA NonNegativeNext ==
  ASSUME NoOverdrafts, TypeInv, ChainInv, Covered, NonNegative, [Next]_vars
  PROVE  NonNegative'
<1>1. CASE entries' = entries
  BY <1>1 DEF NonNegative, TailBalance, Ordered
<1>2. ASSUME NEW w \in Workers, Commit(w), NEW a \in Accounts, Ordered(a)'
      PROVE  TailBalance(a)' >= 0
  <2>1. CASE tx[w].writes[a] = NoEntry
    BY <1>2, <2>1, CommitBalance DEF NonNegative
  <2>2. CASE tx[w].writes[a] # NoEntry
    <3>1. tx[w].op \in Ops
      BY <1>2 DEF Commit, TypeInv, Stands
    <3>2. tx[w].writes[a].balanceAfter >= 0
      BY <2>2, <3>1 DEF Covered, CoveredIn, NoOverdrafts
    <3> QED
      BY <1>2, <2>2, <3>2, CommitBalance
  <2> QED
    BY <2>1, <2>2
<1>3. ASSUME NEW w \in Workers, Commit(w)
      PROVE  NonNegative'
  BY <1>2, <1>3 DEF NonNegative
<1> QED
  BY <1>1, <1>3 DEF Next, Step, Begin, LockPair, LockAndGetBalance, FindExisting, Create,
     NotFound, Reject, Rollback, AuditHistory, AuditSnapshot, vars

\* However many debits run at once, what an account received never falls short
\* of what it paid out while its stamps follow its commit order.
THEOREM AccountsNeverOverdrawn == Spec => []NeverOverdrawn
<1>1. TypeInv /\ ChainInv /\ Covered /\ [Next]_vars => (TypeInv /\ ChainInv /\ Covered)'
  BY TypeNext, ChainNext, CoveredNext
<1>2. Init => Covered
  BY DEF Init, Covered, CoveredIn, IdleTx, NoWrites
<1>3. CASE NoOverdrafts
  <2>1. Init => NonNegative
    BY DEF Init, NonNegative, TailBalance
  <2>2. TypeInv /\ ChainInv /\ Covered /\ NonNegative /\ [Next]_vars => NonNegative'
    BY <1>3, NonNegativeNext
  <2>3. ChainInv /\ NonNegative => NeverOverdrawn
    BY DEF ChainInv, TotalsOK, NonNegative, NeverOverdrawn
  <2> QED
    BY TypeInit, ChainInit, <1>1, <1>2, <2>1, <2>2, <2>3, PTL DEF Spec
<1>4. CASE ~NoOverdrafts
  <2>1. NeverOverdrawn
    BY <1>4 DEF NoOverdrafts, NeverOverdrawn
  <2> QED
    BY <2>1, PTL
<1> QED
  BY <1>3, <1>4

-----------------------------------------------------------------------------
(***************************************************************************)
(* The engine implements the abstract ledger: a commit is one step of it,  *)
(* every other step changes nothing that its callers can see.              *)
(***************************************************************************)

absBalance == [a \in Accounts |-> TailBalance(a)]
absPosted == {Key(e) : e \in UNION {Rows(a) : a \in Accounts}}

LEMMA PostedKeys ==
  /\ \A k : k \in absPosted <=> KeyCommitted(k)
  /\ \A k : k \in absPosted' <=> KeyCommitted(k)'
<1>1. \A k : k \in absPosted <=> KeyCommitted(k)
  BY DEF absPosted, KeyCommitted
<1>2. \A k : k \in absPosted' <=> KeyCommitted(k)'
  BY DEF absPosted, KeyCommitted, Key
<1> QED
  BY <1>1, <1>2

\* The postings a commit has still to make are those it holds a row for.
LEMMA FreshIsWritten ==
  ASSUME TypeInv, KeyInv, NEW w \in Workers, Commit(w),
         NEW op \in Ops, tx[w].op = op, NEW j \in DOMAIN op.posts
  PROVE  /\ op.posts[j].acct \in Accounts
         /\ j \in Abs!Fresh(op) <=> tx[w].writes[op.posts[j].acct] # NoEntry
         /\ j \in Abs!Fresh(op) => RowOf(tx[w].writes[op.posts[j].acct], op.posts[j])
<1> DEFINE a == op.posts[j].acct
<1>1. tx[w].pc = "commit" /\ j \in DoneIn(tx[w]) /\ a \in Accounts
  BY PostFacts DEF Commit, DoneIn
<1>2. j \in Abs!Fresh(op) <=> ~KeyCommitted(Key(op.posts[j]))
  BY PostedKeys DEF Abs!Fresh, Abs!AbsKey, Key, absPosted
<1>3. ASSUME tx[w].writes[a] # NoEntry
      PROVE  ~KeyCommitted(Key(op.posts[j])) /\ RowOf(tx[w].writes[a], op.posts[j])
  <2>1. PICK k \in DoneIn(tx[w]) :
          op.posts[k].acct = a /\ RowOf(tx[w].writes[a], op.posts[k])
    BY <1>1, <1>3 DEF KeyInv, WritesOK
  <2>2. k = j
    BY <2>1, OpFacts DEF DoneIn
  <2>3. Key(tx[w].writes[a]) = Key(op.posts[j])
    BY <2>1, <2>2 DEF RowOf, Key
  <2> QED
    BY <1>1, <1>3, <2>1, <2>2, <2>3 DEF KeyInv, FreshIn
<1>4. ~KeyCommitted(Key(op.posts[j])) => tx[w].writes[a] # NoEntry
  BY <1>1 DEF KeyInv, SettledIn
<1> QED
  BY <1>1, <1>2, <1>3, <1>4

LEMMA CommitApplies ==
  ASSUME TypeInv, KeyInv, ChainInv, Covered, NEW w \in Workers, Commit(w),
         \A a \in Accounts : Ordered(a)
  PROVE  Abs!AbsNext
<1>1. PICK op : op = tx[w].op
  OBVIOUS
<1>2. tx[w].pc = "commit" /\ op \in Ops
  BY <1>1 DEF Commit, TypeInv, Stands
<1>3. \A j \in DOMAIN op.posts :
        /\ op.posts[j].acct \in Accounts
        /\ j \in Abs!Fresh(op) <=> tx[w].writes[op.posts[j].acct] # NoEntry
        /\ j \in Abs!Fresh(op) => RowOf(tx[w].writes[op.posts[j].acct], op.posts[j])
  BY <1>1, <1>2, FreshIsWritten
<1>4. Abs!Fresh(op) \subseteq DOMAIN op.posts
  BY DEF Abs!Fresh
<1>5. \A a \in Accounts : tx[w].writes[a] # NoEntry =>
        \E j \in Abs!Fresh(op) : op.posts[j].acct = a
  <2> SUFFICES ASSUME NEW a \in Accounts, tx[w].writes[a] # NoEntry
               PROVE  \E j \in Abs!Fresh(op) : op.posts[j].acct = a
    OBVIOUS
  <2>1. PICK j \in DoneIn(tx[w]) : op.posts[j].acct = a
    BY <1>1, <1>2 DEF KeyInv, WritesOK
  <2> QED
    BY <1>1, <1>3, <2>1 DEF DoneIn
<1>6. \A j, k \in Abs!Fresh(op) : op.posts[j].acct = op.posts[k].acct => j = k
  BY <1>2, <1>4, OpFacts
<1>7. \A j \in Abs!Fresh(op) :
        /\ op.posts[j].acct \in Accounts
        /\ tx[w].writes[op.posts[j].acct] # NoEntry
        /\ Delta(tx[w].writes[op.posts[j].acct]) = Delta(op.posts[j])
        /\ Key(tx[w].writes[op.posts[j].acct]) = Key(op.posts[j])
  BY <1>3, <1>4 DEF RowOf, Delta, Key
<1>8. \A j \in Abs!Fresh(op) :
        op.posts[j].allowNegative
          \/ absBalance[op.posts[j].acct] + Delta(op.posts[j]) >= 0
  <2> SUFFICES ASSUME NEW j \in Abs!Fresh(op), ~op.posts[j].allowNegative
               PROVE  absBalance[op.posts[j].acct] + Delta(op.posts[j]) >= 0
    OBVIOUS
  <2> DEFINE a == op.posts[j].acct
  <2>1. a \in Accounts /\ tx[w].writes[a] # NoEntry
        /\ Delta(tx[w].writes[a]) = Delta(op.posts[j])
    BY <1>7
  <2>2. tx[w].writes[a].balanceAfter = TailBalance(a) + Delta(op.posts[j])
    BY <2>1 DEF ChainInv, PendingIn
  <2>3. tx[w].writes[a].balanceAfter >= 0
    <3>1. \A k \in DOMAIN op.posts : op.posts[k].acct = a => k = j
      BY <1>2, <1>4, OpFacts
    <3> QED
      BY <1>1, <2>1, <3>1 DEF Covered, CoveredIn
  <2> QED
    BY <2>1, <2>2, <2>3 DEF absBalance
<1>9. absPosted' = absPosted \cup {Key(op.posts[j]) : j \in Abs!Fresh(op)}
  <2>1. \A k : k \in absPosted' <=>
          (k \in absPosted \/ \E a \in Accounts :
             tx[w].writes[a] # NoEntry /\ Key(tx[w].writes[a]) = k)
    BY PostedKeys, CommitKeys
  <2>2. \A k : (\E a \in Accounts : tx[w].writes[a] # NoEntry /\ Key(tx[w].writes[a]) = k)
          <=> k \in {Key(op.posts[j]) : j \in Abs!Fresh(op)}
    BY <1>5, <1>7
  <2> QED
    BY <2>1, <2>2
<1>10. absBalance' = [a \in Accounts |->
          IF \E j \in Abs!Fresh(op) : op.posts[j].acct = a
          THEN absBalance[a]
                 + Delta(op.posts[CHOOSE j \in Abs!Fresh(op) : op.posts[j].acct = a])
          ELSE absBalance[a]]
  <2>1. ASSUME NEW a \in Accounts
        PROVE  TailBalance(a)' =
                 IF \E j \in Abs!Fresh(op) : op.posts[j].acct = a
                 THEN TailBalance(a)
                   + Delta(op.posts[CHOOSE j \in Abs!Fresh(op) : op.posts[j].acct = a])
                 ELSE TailBalance(a)
    <3>1. CASE \E j \in Abs!Fresh(op) : op.posts[j].acct = a
      <4>1. PICK j : j = CHOOSE k \in Abs!Fresh(op) : op.posts[k].acct = a
        OBVIOUS
      <4>2. j \in Abs!Fresh(op) /\ op.posts[j].acct = a
        BY <3>1, <4>1
      <4>3. TailBalance(a)' = TailBalance(a) + Delta(op.posts[j])
        BY <1>7, <4>2, CommitBalance
      <4> QED
        BY <3>1, <4>1, <4>3
    <3>2. CASE ~\E j \in Abs!Fresh(op) : op.posts[j].acct = a
      BY <1>5, <3>2, CommitBalance
    <3> QED
      BY <3>1, <3>2
  <2>2. absBalance' = [a \in Accounts |-> TailBalance(a)']
    BY DEF absBalance
  <2> QED
    BY <2>1, <2>2 DEF absBalance
<1>11. Abs!Apply(op)
  <2>1. {Key(op.posts[j]) : j \in Abs!Fresh(op)} = {Abs!AbsKey(op.posts[j]) : j \in Abs!Fresh(op)}
    BY DEF Key, Abs!AbsKey
  <2>2. absPosted' = absPosted \cup {Abs!AbsKey(op.posts[j]) : j \in Abs!Fresh(op)}
    BY <1>9, <2>1
  <2> QED
    BY <1>8, <1>10, <2>2, Zenon DEF Abs!Apply, Abs!Delta, Delta, absBalance, absPosted
<1> QED
  BY <1>2, <1>11 DEF Abs!AbsNext

LEMMA RefinementStep ==
  ASSUME TypeInv, KeyInv, ChainInv, Covered, [Next]_vars
  PROVE  [(\A a \in Accounts : Ordered(a)') => Abs!AbsNext]_(Abs!absVars)
<1>1. CASE entries' = entries
  <2>1. absBalance' = absBalance /\ absPosted' = absPosted
    BY <1>1 DEF absBalance, absPosted, TailBalance, Rows, Key
  <2> QED
    BY <2>1 DEF Abs!absVars, absBalance, absPosted
<1>2. ASSUME NEW w \in Workers, Commit(w), \A a \in Accounts : Ordered(a)'
      PROVE  Abs!AbsNext
  BY <1>2, CommitBalance, CommitApplies
<1> QED
  BY <1>1, <1>2 DEF Next, Step, Begin, LockPair, LockAndGetBalance, FindExisting, Create,
     NotFound, Reject, Rollback, AuditHistory, AuditSnapshot, vars

\* Locks, snapshots, lookups and crashes included, what callers see of the
\* engine is the abstract ledger while the accounts' stamps are in order.
THEOREM EngineImplementsLedger == Spec => ImplementsAbstractLedger
<1>1. TypeInv /\ KeyInv /\ ChainInv /\ Covered /\ [Next]_vars =>
        (TypeInv /\ KeyInv /\ ChainInv /\ Covered)'
  BY TypeNext, KeyNext, ChainNext, CoveredNext
<1>2. Init => Covered
  BY DEF Init, Covered, CoveredIn, IdleTx, NoWrites
<1>3. Init => Abs!AbsInit
  BY DEF Init, Abs!AbsInit, TailBalance, Rows
<1>4. TypeInv /\ KeyInv /\ ChainInv /\ Covered /\ [Next]_vars =>
        [(\A a \in Accounts : Ordered(a)') => Abs!AbsNext]_(Abs!absVars)
  BY RefinementStep
<1> QED
  BY TypeInit, KeyInit, ChainInit, <1>1, <1>2, <1>3, <1>4, PTL
     DEF Spec, ImplementsAbstractLedger

=============================================================================
