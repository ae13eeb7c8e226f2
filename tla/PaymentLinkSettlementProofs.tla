-------------------- MODULE PaymentLinkSettlementProofs --------------------
(***************************************************************************)
(* Proofs about PaymentLinkSettlement, for any links, sessions, prices and *)
(* handlers, with strangers and operators, and any order of the notices.   *)
(*                                                                         *)
(* TypeInv adds to the types what every handler knows by its place: which  *)
(* session it is about, which transfer, and that both exist.  ClaimInv is  *)
(* the protocol of the claim: a session whose wallet was swept, or whose   *)
(* sweeper is at work, is past PENDING and never comes back to it.         *)
(* ConfirmInv adds the transfers: an inbound row stands for its bucket     *)
(* credit (RowKnown), and only a handler that has its row confirms.        *)
(* CountInv adds what each confirmation owes the link's counters.          *)
(* BroughtInv follows the money: which transfers leave a deposit wallet,   *)
(* what each handler believes its transfer brought, and the credits made   *)
(* from it.  PaidInv adds the prices: a handler settles a session with an  *)
(* amount that is the session's.                                           *)
(***************************************************************************)
EXTENDS PaymentLinkSettlement, FiniteSetTheorems, TLAPS

Entries == Transfers \X Keys

\* Where a handler knows its transfer, and where it knows its session.
Located == Pcs \ {"idle", "sweep"}
About == Pcs \ {"idle", "match", "credit"}

HandlerOK(r, n) ==
  /\ r \in HandlerType
  /\ r.pc = "idle" => r = IdleHandler
  /\ r.transfer <= n
  /\ r.pc \in Located => r.transfer # 0
  /\ r.pc \in About => r.session \in Sessions
  /\ r.pc # "idle" => r.amount # 0

SessionOK(r, n) ==
  /\ r \in SessionType
  /\ r.tx <= n
  /\ r.status \in {"CONFIRMED", "WRONG_AMOUNT_REFUNDED"} => r.tx # 0

HandlersOK(n) ==
  /\ handler \in [Handlers -> HandlerType]
  /\ \A h \in Handlers : HandlerOK(handler[h], n)

SessionsOK(n) ==
  /\ session \in [Sessions -> SessionType]
  /\ \A s \in Sessions : SessionOK(session[s], n)

ChainOK ==
  /\ transfers \in Seq(TransferType) /\ Len(transfers) <= MaxTransfers
  /\ held \in [Wallets -> Int] /\ \A w \in Wallets \ {Outside} : held[w] >= 0

LinksOK == link \in [Links -> LinkType]

RowsOK == row \in [Entries -> Rows]

LedgerOK == credits \in [Entries -> Seq(CreditType)] /\ debited \subseteq Sessions

TypeInv ==
  /\ SessionsOK(Len(transfers)) /\ HandlersOK(Len(transfers))
  /\ ChainOK /\ LinksOK /\ RowsOK /\ LedgerOK

LEMMA TypeInvTyped == TypeInv => TypeOK
  BY DEF TypeInv, TypeOK, SessionsOK, HandlersOK, HandlerOK, ChainOK, LinksOK,
     RowsOK, LedgerOK, Entries

LEMMA IdleOK == \A n \in Nat : HandlerOK(IdleHandler, n)
  BY DEF HandlerOK, HandlerType, IdleHandler, Pcs, Rows, Keys, Located, About

LEMMA TypeInit == Init => TypeInv
<1> SUFFICES ASSUME Init PROVE TypeInv
  OBVIOUS
<1>1. transfers = << >> /\ Len(transfers) = 0
  BY DEF Init
<1>2. HandlersOK(0)
  BY IdleOK DEF Init, HandlersOK, HandlerOK
<1>3. NoSessionYet \in SessionType /\ NoSessionYet.tx = 0 /\ NoSessionYet.status = "ABSENT"
  BY DEF NoSessionYet, SessionType, Statuses, Keys
<1>4. SessionsOK(0)
  BY <1>3 DEF Init, SessionsOK, SessionOK
<1>5. ChainOK
  BY <1>1, BoundsAssumption DEF Init, ChainOK
<1>6. LinksOK /\ RowsOK /\ LedgerOK
  BY DEF Init, LinksOK, LinkType, FreshLink, RowsOK, Rows, LedgerOK, Entries
<1> QED
  BY <1>1, <1>2, <1>4, <1>5, <1>6 DEF TypeInv

-----------------------------------------------------------------------------
(* How each variable is written. *)

\* Later transfers take nothing away from what handlers and sessions know.
LEMMA Later ==
  ASSUME NEW n \in Nat, NEW m \in Nat, n <= m, SessionsOK(n), HandlersOK(n)
  PROVE  SessionsOK(m) /\ HandlersOK(m)
<1>1. \A r \in SessionType : r.tx \in Nat
  BY BoundsAssumption DEF SessionType, Transfers
<1>2. \A r \in HandlerType : r.transfer \in Nat
  BY BoundsAssumption DEF HandlerType, Transfers
<1>3. SessionsOK(m)
  BY <1>1 DEF SessionsOK, SessionOK
<1>4. HandlersOK(m)
  BY <1>2 DEF HandlersOK, HandlerOK
<1> QED
  BY <1>3, <1>4

LEMMA HandlerUpdate ==
  ASSUME NEW n \in Nat, HandlersOK(n), NEW h \in Handlers, NEW r, HandlerOK(r, n),
         handler' = [handler EXCEPT ![h] = r]
  PROVE  HandlersOK(n)'
<1>1. handler' \in [Handlers -> HandlerType]
  BY DEF HandlersOK, HandlerOK
<1>2. \A g \in Handlers : HandlerOK(handler'[g], n)
  BY DEF HandlersOK
<1>3. n' = n
  OBVIOUS
<1> QED
  BY <1>1, <1>2 DEF HandlersOK, HandlerOK

LEMMA SessionUpdate ==
  ASSUME NEW n \in Nat, SessionsOK(n), NEW s \in Sessions, NEW r, SessionOK(r, n),
         session' = [session EXCEPT ![s] = r]
  PROVE  SessionsOK(n)'
<1>1. session' \in [Sessions -> SessionType]
  BY DEF SessionsOK, SessionOK
<1>2. \A t \in Sessions : SessionOK(session'[t], n)
  BY DEF SessionsOK
<1> QED
  BY <1>1, <1>2 DEF SessionsOK, SessionOK

LEMMA GotoOK ==
  ASSUME NEW n \in Nat, HandlersOK(n), NEW h \in Handlers, NEW pc \in Pcs \ {"idle"},
         handler[h].pc # "idle",
         pc \in Located => handler[h].transfer # 0,
         pc \in About => handler[h].session \in Sessions,
         Goto(h, pc)
  PROVE  HandlersOK(n)'
<1> DEFINE r == [handler[h] EXCEPT !.pc = pc]
<1>1. HandlerOK(handler[h], n)
  BY DEF HandlersOK
<1>2. /\ r \in HandlerType /\ r.pc = pc /\ r.session = handler[h].session
      /\ r.transfer = handler[h].transfer /\ r.amount = handler[h].amount
  BY <1>1 DEF HandlerOK, HandlerType
<1>3. HandlerOK(r, n)
  BY <1>1, <1>2 DEF HandlerOK
<1>4. handler' = [handler EXCEPT ![h] = r]
  BY DEF Goto
<1> HIDE DEF r
<1> QED
  BY <1>3, <1>4, HandlerUpdate

LEMMA FinishOK ==
  ASSUME NEW n \in Nat, HandlersOK(n), NEW h \in Handlers, Finish(h)
  PROVE  HandlersOK(n)'
  BY IdleOK, HandlerUpdate DEF Finish

\* A busy handler's record, part by part.
LEMMA BusyHandler ==
  ASSUME TypeInv, NEW h \in Handlers, handler[h].pc # "idle"
  PROVE  /\ handler[h] \in HandlerType
         /\ handler[h].pc \in Located =>
              /\ handler[h].transfer \in Transfers /\ handler[h].transfer \in DOMAIN transfers
              /\ Entry(h) \in Entries
         /\ handler[h].pc \in About => handler[h].session \in Sessions
         /\ handler[h].amount \in Nat \ {0}
<1>1. HandlerOK(handler[h], Len(transfers)) /\ Len(transfers) \in Nat
  BY DEF TypeInv, HandlersOK, ChainOK
<1>2. DOMAIN transfers = 1..Len(transfers)
  BY DEF TypeInv, ChainOK
<1>3. handler[h].known \in Keys
  BY <1>1 DEF HandlerOK, HandlerType
<1> QED
  BY <1>1, <1>2, <1>3, BoundsAssumption DEF HandlerOK, HandlerType, Transfers, Entry, Entries

LEMMA MoveOK ==
  ASSUME ChainOK, NEW from \in Wallets, NEW to \in Wallets, NEW amount \in Nat \ {0},
         Move(from, to, amount)
  PROVE  /\ ChainOK'
         /\ Len(transfers) \in Nat /\ Len(transfers') = Len(transfers) + 1
         /\ Len(transfers) + 1 \in Transfers
         /\ transfers' = Append(transfers, [from |-> from, to |-> to, amount |-> amount])
<1> DEFINE moved == [from |-> from, to |-> to, amount |-> amount]
<1>1. moved \in TransferType
  BY DEF TransferType
<1>2. /\ transfers' = Append(transfers, moved) /\ Len(transfers) < MaxTransfers
      /\ transfers \in Seq(TransferType)
  BY DEF Move, ChainOK
<1> HIDE DEF moved
<1>3. /\ transfers' \in Seq(TransferType) /\ Len(transfers') = Len(transfers) + 1
      /\ Len(transfers) \in Nat
  BY <1>1, <1>2
<1>4. Len(transfers) + 1 \in Transfers /\ Len(transfers') <= MaxTransfers
  BY <1>2, <1>3, BoundsAssumption DEF Transfers
<1>5. held' \in [Wallets -> Int]
  BY DEF Move, ChainOK
<1>6. ASSUME NEW w \in Wallets \ {Outside} PROVE held'[w] >= 0
  <2>1. /\ held[w] \in Int /\ held[w] >= 0
        /\ held'[w] = held[w] + (IF w = to THEN amount ELSE 0)
                               - (IF w = from THEN amount ELSE 0)
    BY DEF Move, ChainOK
  <2>2. w = from => held[w] >= amount
    BY DEF Move, CanPay
  <2> QED
    BY <2>1, <2>2
<1> QED
  BY <1>2, <1>3, <1>4, <1>5, <1>6 DEF ChainOK, moved

-----------------------------------------------------------------------------
(* Every step preserves the type invariant. *)

LEMMA StatusUpdate ==
  ASSUME NEW n \in Nat, SessionsOK(n), NEW s \in Sessions,
         NEW status \in Statuses \ {"CONFIRMED", "WRONG_AMOUNT_REFUNDED"},
         session' = [session EXCEPT ![s].status = status]
  PROVE  SessionsOK(n)'
<1> DEFINE r == [session[s] EXCEPT !.status = status]
<1>1. SessionOK(session[s], n)
  BY DEF SessionsOK
<1>2. r \in SessionType /\ r.status = status /\ r.tx = session[s].tx
  BY <1>1 DEF SessionOK, SessionType
<1>3. SessionOK(r, n)
  BY <1>1, <1>2 DEF SessionOK
<1>4. session' = [session EXCEPT ![s] = r]
  OBVIOUS
<1> HIDE DEF r
<1> QED
  BY <1>3, <1>4, SessionUpdate

\* A session settled by (or blamed for) a transfer that happened.
LEMMA SettledUpdate ==
  ASSUME NEW n \in Nat, SessionsOK(n), NEW s \in Sessions, NEW i \in Transfers, i <= n,
         NEW status \in {"CONFIRMED", "WRONG_AMOUNT_REFUNDED"}, NEW k \in Keys,
         session' = [session EXCEPT ![s].status = status, ![s].tx = i, ![s].known = k]
  PROVE  SessionsOK(n)'
<1> DEFINE r == [session[s] EXCEPT !.status = status, !.tx = i, !.known = k]
<1>1. SessionOK(session[s], n)
  BY DEF SessionsOK
<1>2. r \in SessionType /\ r.tx = i
  BY <1>1 DEF SessionOK, SessionType, Statuses
<1>3. SessionOK(r, n)
  BY <1>2, BoundsAssumption DEF SessionOK, Transfers
<1>4. session' = [session EXCEPT ![s] = r]
  BY <1>1 DEF SessionsOK, SessionType
<1> HIDE DEF r
<1> QED
  BY <1>3, <1>4, SessionUpdate

\* The address of a session is written.
LEMMA NoteUpdate ==
  ASSUME NEW n \in Nat, SessionsOK(n), NEW s \in Sessions,
         \/ session' = [session EXCEPT ![s].address = "shown"]
         \/ session' = [session EXCEPT ![s].status = "FAILED", ![s].address = "never"]
  PROVE  SessionsOK(n)'
<1>1. SessionOK(session[s], n) /\ session \in [Sessions -> SessionType]
  BY DEF SessionsOK
<1>2. ASSUME NEW r, r \in {[session[s] EXCEPT !.address = "shown"],
                           [session[s] EXCEPT !.status = "FAILED", !.address = "never"]}
      PROVE  SessionOK(r, n)
  BY <1>1, <1>2 DEF SessionOK, SessionType, Statuses
<1>3. \E r : /\ r \in {[session[s] EXCEPT !.address = "shown"],
                        [session[s] EXCEPT !.status = "FAILED", !.address = "never"]}
             /\ session' = [session EXCEPT ![s] = r]
  BY <1>1 DEF SessionType
<1> QED
  BY <1>2, <1>3, SessionUpdate

LEMMA CheckoutTyped ==
  ASSUME TypeInv, NEW s \in Sessions, StartCheckout(s) \/ Provision(s) \/ ProvisionFails(s)
  PROVE  TypeInv'
<1> PICK n \in Nat : n = Len(transfers)
  BY DEF TypeInv, ChainOK
<1>1. SessionsOK(n)'
  BY StatusUpdate, NoteUpdate DEF TypeInv, StartCheckout, Provision, ProvisionFails, Statuses
<1>2. UNCHANGED <<link, transfers, held, row, credits, debited, handler>>
  BY DEF StartCheckout, Provision, ProvisionFails
<1> QED
  BY <1>1, <1>2 DEF TypeInv, HandlersOK, ChainOK, LinksOK, RowsOK, LedgerOK

LEMMA ExpireTyped ==
  ASSUME TypeInv, NEW l \in Links, ExpireLink(l)
  PROVE  TypeInv'
<1>1. LinksOK'
  BY DEF TypeInv, LinksOK, ExpireLink, LinkType
<1> QED
  BY <1>1 DEF ExpireLink, TypeInv, SessionsOK, HandlersOK, ChainOK, RowsOK, LedgerOK

LEMMA PayersTyped ==
  ASSUME TypeInv, NEW from \in Wallets, NEW to \in Wallets, NEW amount \in Nat \ {0},
         Move(from, to, amount),
         UNCHANGED <<session, link, row, credits, debited, handler>>
  PROVE  TypeInv'
<1> PICK n \in Nat : n = Len(transfers)
  BY DEF TypeInv, ChainOK
<1>1. ChainOK' /\ Len(transfers') = n + 1
  BY MoveOK DEF TypeInv
<1>2. SessionsOK(n + 1) /\ HandlersOK(n + 1)
  BY Later DEF TypeInv
<1>3. SessionsOK(n + 1)' /\ HandlersOK(n + 1)'
  BY <1>2 DEF SessionsOK, HandlersOK
<1> QED
  BY <1>1, <1>3 DEF TypeInv, LinksOK, RowsOK, LedgerOK

LEMMA TakeTyped ==
  ASSUME TypeInv, NEW h \in Handlers, Take(h)
  PROVE  TypeInv'
<1> PICK n \in Nat : n = Len(transfers)
  BY DEF TypeInv, ChainOK
<1>1. HandlersOK(n) /\ SessionsOK(n)
  BY DEF TypeInv
<1>2. ASSUME NEW i \in DOMAIN transfers
      PROVE  i \in Transfers /\ i <= n /\ i # 0 /\ transfers[i] \in TransferType
  BY BoundsAssumption DEF TypeInv, ChainOK, Transfers
<1>3. ASSUME NEW s \in Sessions, NEW amount \in Amounts, Claim(h, s, amount)
      PROVE  TypeInv'
  <2>1. session' = [session EXCEPT ![s].status = "SWEEPING"] /\ amount \in Nat \ {0}
    BY <1>3, AmountsAssumption DEF Claim
  <2>2. SessionsOK(n)'
    BY <1>1, <2>1, StatusUpdate DEF Statuses
  <2> DEFINE r == [IdleHandler EXCEPT !.pc = "sweep", !.session = s, !.amount = amount]
  <2>3. handler' = [handler EXCEPT ![h] = r] /\ HandlerOK(r, n)
    <3>1. handler' = [handler EXCEPT ![h] = r]
      BY <1>3 DEF Claim
    <3>2. /\ r \in HandlerType /\ r.pc = "sweep" /\ r.session = s /\ r.transfer = 0
          /\ r.amount = amount
      BY <2>1 DEF IdleHandler, HandlerType, Pcs, Rows, Keys
    <3> QED
      BY <2>1, <3>1, <3>2 DEF HandlerOK, Located
  <2> HIDE DEF r
  <2>4. HandlersOK(n)'
    BY <1>1, <2>3, HandlerUpdate
  <2> QED
    BY <1>3, <2>2, <2>4 DEF Claim, TypeInv, ChainOK, LinksOK, RowsOK, LedgerOK
<1>4. ASSUME NEW i \in DOMAIN transfers, NEW hashed \in NoticeHashes,
             FindStuck(h, i, hashed)
      PROVE  TypeInv'
  <2> PICK s \in Sessions : s = transfers[i].from
    BY <1>4 DEF FindStuck
  <2> PICK due \in Nat \ {0} : due = AmountExpected[s]
    BY AmountsAssumption
  <2> PICK k \in Keys : k = IF hashed THEN "hash" ELSE "outbound"
    BY DEF Keys
  <2> DEFINE r == [IdleHandler EXCEPT !.pc = "resolve", !.session = s, !.transfer = i,
                                      !.known = k, !.amount = due]
  <2>1. handler' = [handler EXCEPT ![h] = r] /\ HandlerOK(r, n)
    <3>1. handler' = [handler EXCEPT ![h] = r]
      BY <1>4 DEF FindStuck
    <3>2. /\ r \in HandlerType /\ r.pc = "resolve" /\ r.session = s /\ r.transfer = i
          /\ r.amount = due
      BY <1>2 DEF IdleHandler, HandlerType, Pcs, Rows
    <3> QED
      BY <1>2, <3>1, <3>2 DEF HandlerOK
  <2> HIDE DEF r
  <2>2. HandlersOK(n)'
    BY <1>1, <2>1, HandlerUpdate
  <2> QED
    BY <1>4, <2>2 DEF FindStuck, TypeInv, SessionsOK, ChainOK, LinksOK, RowsOK, LedgerOK
<1>5. ASSUME NEW i \in DOMAIN transfers, NEW hashed \in NoticeHashes,
             ReceiveInbound(h, i, hashed)
      PROVE  TypeInv'
  <2> PICK amount \in Nat \ {0} : amount = transfers[i].amount
    BY <1>2 DEF TransferType
  <2> PICK k \in Keys : k = IF hashed THEN "hash" ELSE "inbound"
    BY DEF Keys
  <2> DEFINE r == [IdleHandler EXCEPT !.pc = "match", !.transfer = i, !.amount = amount,
                                      !.known = k]
  <2>1. handler' = [handler EXCEPT ![h] = r] /\ HandlerOK(r, n)
    <3>1. handler' = [handler EXCEPT ![h] = r]
      BY <1>5 DEF ReceiveInbound
    <3>2. /\ r \in HandlerType /\ r.pc = "match" /\ r.transfer = i /\ r.amount = amount
      BY <1>2 DEF IdleHandler, HandlerType, Pcs, Rows
    <3> QED
      BY <1>2, <3>1, <3>2 DEF HandlerOK, About
  <2> HIDE DEF r
  <2>2. HandlersOK(n)'
    BY <1>1, <2>1, HandlerUpdate
  <2> QED
    BY <1>5, <2>2 DEF ReceiveInbound, TypeInv, SessionsOK, ChainOK, LinksOK, RowsOK, LedgerOK
<1> QED
  BY <1>3, <1>4, <1>5 DEF Take

LEMMA SweepTyped ==
  ASSUME TypeInv, NEW h \in Handlers, Sweep(h)
  PROVE  TypeInv'
<1> PICK n \in Nat : n = Len(transfers)
  BY DEF TypeInv, ChainOK
<1> PICK m \in Nat : m = n + 1
  OBVIOUS
<1>1. /\ handler[h].session \in Sessions /\ handler[h].amount \in Nat \ {0}
      /\ handler[h] \in HandlerType
  BY BusyHandler DEF Sweep, About, Pcs
<1>2. Move(handler[h].session, Treasury, handler[h].amount)
  BY DEF Sweep
<1>3. ChainOK' /\ Len(transfers') = m /\ m \in Transfers
  BY <1>1, <1>2, MoveOK DEF TypeInv, Wallets
<1>4. SessionsOK(m) /\ HandlersOK(m)
  BY Later DEF TypeInv
<1> DEFINE r == [handler[h] EXCEPT !.pc = "lookup", !.transfer = m]
<1>5. /\ r \in HandlerType /\ r.pc = "lookup" /\ r.session = handler[h].session
      /\ r.transfer = m /\ r.amount = handler[h].amount
  BY <1>1, <1>3 DEF HandlerType, Pcs
<1>6. HandlerOK(r, m)
  BY <1>1, <1>5 DEF HandlerOK
<1>7. handler' = [handler EXCEPT ![h] = r]
  BY <1>4 DEF Sweep, HandlersOK, HandlerType
<1> HIDE DEF r
<1>8. HandlersOK(m)'
  BY <1>4, <1>6, <1>7, HandlerUpdate
<1>9. SessionsOK(m)'
  BY <1>4 DEF Sweep, SessionsOK
<1> QED
  BY <1>3, <1>8, <1>9 DEF Sweep, TypeInv, LinksOK, RowsOK, LedgerOK

\* The steps that only move the handler on, or end it.
Bookkeeping(h) ==
  \/ SweepFails(h) \/ SweepUnanswered(h) \/ Lookup(h) \/ CheckStuck(h)
  \/ Match(h) \/ MatchFails(h) \/ ReadLink(h) \/ Abort(h) \/ RefundFails(h) \/ Crash(h)

LEMMA BookkeepingFrame ==
  ASSUME NEW h \in Handlers, Bookkeeping(h)
  PROVE  UNCHANGED <<session, link, transfers, held, row, credits, debited>>
  BY DEF Bookkeeping, SweepFails, SweepUnanswered, Lookup, CheckStuck, Match, MatchFails,
     ReadLink, Abort, RefundFails, Crash

LEMMA MatchedOK ==
  ASSUME TypeInv, NEW n \in Nat, n = Len(transfers), NEW h \in Handlers,
         handler[h].pc = "match", NEW pc \in {"read", "park", "credit"},
         NEW s \in Sessions \cup {NoSession}, pc \in About => s \in Sessions,
         Matched(h, pc, s)
  PROVE  HandlersOK(n)'
<1>1. HandlerOK(handler[h], n) /\ HandlersOK(n)
  BY DEF TypeInv, HandlersOK
<1>5. \E insert \in Rows, k \in Keys :
        handler' = [handler EXCEPT ![h] =
          [handler[h] EXCEPT !.pc = pc, !.session = s, !.insert = insert, !.known = k]]
  <2>1. handler[h] \in HandlerType /\ handler \in [Handlers -> HandlerType]
    BY <1>1 DEF HandlersOK, HandlerOK
  <2>2. CASE handler' = [handler EXCEPT ![h].pc = pc, ![h].session = s, ![h].insert = "inbound"]
    <3>1. handler' = [handler EXCEPT ![h] =
            [handler[h] EXCEPT !.pc = pc, !.session = s, !.insert = "inbound",
                               !.known = handler[h].known]]
      BY <2>1, <2>2 DEF HandlerType
    <3>2. "inbound" \in Rows /\ handler[h].known \in Keys
      BY <2>1 DEF Rows, HandlerType
    <3> QED
      BY <3>1, <3>2
  <2>3. ASSUME NEW k \in Keys,
               handler' = [handler EXCEPT ![h].pc = pc, ![h].session = s, ![h].known = k]
        PROVE  \E insert \in Rows :
                 handler' = [handler EXCEPT ![h] =
                   [handler[h] EXCEPT !.pc = pc, !.session = s, !.insert = insert, !.known = k]]
    <3>1. handler' = [handler EXCEPT ![h] =
            [handler[h] EXCEPT !.pc = pc, !.session = s, !.insert = handler[h].insert,
                               !.known = k]]
      BY <2>1, <2>3 DEF HandlerType
    <3>2. handler[h].insert \in Rows
      BY <2>1 DEF HandlerType
    <3> QED
      BY <3>1, <3>2
  <2> QED
    BY <2>2, <2>3 DEF Matched, Redelivered, Known
<1> PICK insert \in Rows, k \in Keys :
      handler' = [handler EXCEPT ![h] =
        [handler[h] EXCEPT !.pc = pc, !.session = s, !.insert = insert, !.known = k]]
  BY <1>5
<1> DEFINE r == [handler[h] EXCEPT !.pc = pc, !.session = s, !.insert = insert, !.known = k]
<1>2. /\ r \in HandlerType /\ r.pc = pc /\ r.session = s
      /\ r.transfer = handler[h].transfer /\ r.amount = handler[h].amount
  BY <1>1 DEF HandlerOK, HandlerType, Pcs
<1>3. HandlerOK(r, n)
  BY <1>1, <1>2 DEF HandlerOK, Located, Pcs
<1>4. handler' = [handler EXCEPT ![h] = r]
  OBVIOUS
<1> HIDE DEF r
<1> QED
  BY <1>1, <1>3, <1>4, HandlerUpdate

LEMMA BookkeepingTyped ==
  ASSUME TypeInv, NEW h \in Handlers, Bookkeeping(h)
  PROVE  TypeInv'
<1> PICK n \in Nat : n = Len(transfers)
  BY DEF TypeInv, ChainOK
<1>1. HandlersOK(n) /\ HandlerOK(handler[h], n)
  BY DEF TypeInv, HandlersOK
<1>2. HandlersOK(n)'
  <2>1. CASE Lookup(h)
    <3>1. \E insert \in Rows, k \in Keys :
            handler' = [handler EXCEPT ![h] =
              [handler[h] EXCEPT !.pc = "read", !.insert = insert, !.known = k]]
      <4>1. handler[h] \in HandlerType /\ handler \in [Handlers -> HandlerType]
        BY <1>1 DEF HandlersOK
      <4>2. CASE handler' = [handler EXCEPT ![h].pc = "read", ![h].insert = "sweep"]
        <5>1. handler' = [handler EXCEPT ![h] =
                [handler[h] EXCEPT !.pc = "read", !.insert = "sweep",
                                   !.known = handler[h].known]]
          BY <4>1, <4>2 DEF HandlerType
        <5>2. "sweep" \in Rows /\ handler[h].known \in Keys
          BY <4>1 DEF Rows, HandlerType
        <5> QED
          BY <5>1, <5>2
      <4>3. ASSUME NEW k \in Keys,
                   handler' = [handler EXCEPT ![h].pc = "read", ![h].known = k]
            PROVE  \E insert \in Rows :
                     handler' = [handler EXCEPT ![h] =
                       [handler[h] EXCEPT !.pc = "read", !.insert = insert, !.known = k]]
        <5>1. handler' = [handler EXCEPT ![h] =
                [handler[h] EXCEPT !.pc = "read", !.insert = handler[h].insert, !.known = k]]
          BY <4>1, <4>3 DEF HandlerType
        <5>2. handler[h].insert \in Rows
          BY <4>1 DEF HandlerType
        <5> QED
          BY <5>1, <5>2
      <4> QED
        BY <2>1, <4>2, <4>3 DEF Lookup, Known
    <3> PICK insert \in Rows, k \in Keys :
          handler' = [handler EXCEPT ![h] =
            [handler[h] EXCEPT !.pc = "read", !.insert = insert, !.known = k]]
      BY <3>1
    <3> DEFINE r == [handler[h] EXCEPT !.pc = "read", !.insert = insert, !.known = k]
    <3>2. /\ r \in HandlerType /\ r.pc = "read" /\ r.session = handler[h].session
          /\ r.transfer = handler[h].transfer /\ r.amount = handler[h].amount
      BY <1>1 DEF HandlerOK, HandlerType, Pcs
    <3>3. HandlerOK(r, n)
      BY <1>1, <2>1, <3>2 DEF Lookup, HandlerOK, Located, About, Pcs
    <3>4. handler' = [handler EXCEPT ![h] = r]
      OBVIOUS
    <3> HIDE DEF r
    <3> QED
      BY <1>1, <3>3, <3>4, HandlerUpdate
  <2>2. CASE CheckStuck(h)
    <3>1. /\ handler[h].transfer # 0 /\ handler[h].session \in Sessions
          /\ handler[h].pc # "idle" /\ "read" \in Pcs \ {"idle"}
      BY <1>1, <2>2 DEF CheckStuck, HandlerOK, Located, About, Pcs
    <3> QED
      BY <1>1, <2>2, <3>1, GotoOK, FinishOK DEF CheckStuck
  <2>3. CASE Match(h)
    <3>1. /\ handler[h].pc = "match"
          /\ \E pc \in {"read", "park", "credit"}, s \in Sessions \cup {NoSession} :
               Matched(h, pc, s) /\ (pc # "credit" => s \in Sessions)
      BY <2>3 DEF Match, ExactMatches, OpenFixed
    <3> QED
      BY <3>1, MatchedOK DEF About
  <2>4. CASE ReadLink(h)
    <3>1. handler[h].session \in Sessions /\ handler[h].transfer # 0
      BY <1>1, <2>4 DEF ReadLink, HandlerOK, Located, About, Pcs
    <3> PICK uses \in Nat : uses = link[LinkOf[handler[h].session]].useCount
      BY <3>1, LinksAssumption DEF TypeInv, LinksOK, LinkType
    <3> DEFINE r == [handler[h] EXCEPT !.pc = "commit", !.uses = uses]
    <3>2. /\ r \in HandlerType /\ r.pc = "commit" /\ r.session = handler[h].session
          /\ r.transfer = handler[h].transfer /\ r.amount = handler[h].amount
      BY <1>1 DEF HandlerOK, HandlerType, Pcs
    <3>3. HandlerOK(r, n)
      BY <1>1, <2>4, <3>1, <3>2 DEF ReadLink, HandlerOK
    <3>4. handler' = [handler EXCEPT ![h] = r]
      BY <1>1, <2>4 DEF ReadLink, HandlersOK, HandlerType
    <3> HIDE DEF r
    <3> QED
      BY <1>1, <3>3, <3>4, HandlerUpdate
  <2>5. CASE SweepFails(h) \/ SweepUnanswered(h) \/ MatchFails(h) \/ Abort(h)
             \/ RefundFails(h) \/ Crash(h)
    BY <1>1, <2>5, FinishOK
       DEF SweepFails, SweepUnanswered, MatchFails, Abort, RefundFails, Crash
  <2> QED
    BY <2>1, <2>2, <2>3, <2>4, <2>5 DEF Bookkeeping
<1> QED
  BY <1>2, BookkeepingFrame DEF TypeInv, SessionsOK, ChainOK, LinksOK, RowsOK, LedgerOK

LEMMA ResolveTyped ==
  ASSUME TypeInv, NEW h \in Handlers, Resolve(h)
  PROVE  TypeInv'
<1> PICK n \in Nat : n = Len(transfers)
  BY DEF TypeInv, ChainOK
<1>1. HandlersOK(n) /\ HandlerOK(handler[h], n)
  BY DEF TypeInv, HandlersOK
<1>2. HandlersOK(n)'
  <2>1. /\ handler[h].transfer # 0 /\ handler[h].session \in Sessions
        /\ handler[h].pc # "idle" /\ "check" \in Pcs \ {"idle"}
    BY <1>1 DEF Resolve, HandlerOK, Located, About, Pcs
  <2>2. CASE Goto(h, "check")
    BY <1>1, <2>1, <2>2, GotoOK
  <2>3. ASSUME NEW k \in Keys,
               handler' = [handler EXCEPT ![h].pc = "check", ![h].known = k]
        PROVE  HandlersOK(n)'
    <3> DEFINE r == [handler[h] EXCEPT !.pc = "check", !.known = k]
    <3>1. /\ r \in HandlerType /\ r.pc = "check" /\ r.session = handler[h].session
          /\ r.transfer = handler[h].transfer /\ r.amount = handler[h].amount
      BY <1>1, <2>1 DEF HandlerOK, HandlerType
    <3>2. HandlerOK(r, n)
      BY <1>1, <2>1, <3>1 DEF HandlerOK
    <3>3. handler' = [handler EXCEPT ![h] = r]
      BY <1>1, <2>3 DEF HandlersOK, HandlerType
    <3> HIDE DEF r
    <3> QED
      BY <1>1, <3>2, <3>3, HandlerUpdate
  <2> QED
    BY <2>2, <2>3 DEF Resolve, Known
<1>3. RowsOK'
  <2>1. Entry(h) \in Entries
    BY BusyHandler DEF Resolve, Located, Pcs
  <2> QED
    BY <2>1 DEF Resolve, TypeInv, RowsOK, Rows
<1> QED
  BY <1>2, <1>3 DEF Resolve, TypeInv, SessionsOK, ChainOK, LinksOK, LedgerOK

\* What a commit writes to the rows and the books.
LEMMA CreditOK ==
  ASSUME TypeInv, NEW h \in Handlers, handler[h].pc \in {"commit", "park", "credit"},
         NEW account \in Accounts, Credit(h, account), InsertRow(h), UNCHANGED debited
  PROVE  LedgerOK' /\ RowsOK'
<1>1. /\ handler[h] \in HandlerType /\ Entry(h) \in Entries
      /\ handler[h].amount \in Nat \ {0}
  BY BusyHandler DEF Located, Pcs
<1>2. handler[h].insert \in Rows
  BY <1>1 DEF HandlerType
<1>3. RowsOK'
  BY <1>1, <1>2 DEF InsertRow, TypeInv, RowsOK
<1> DEFINE c == [account |-> account, amount |-> handler[h].amount]
<1>4. c \in CreditType
  BY <1>1 DEF CreditType
<1>5. \A e \in Entries : credits[e] \in Seq(CreditType)
  BY DEF TypeInv, LedgerOK
<1>6. \/ credits' = credits
      \/ credits' = [credits EXCEPT ![Entry(h)] = Append(credits[Entry(h)], c)]
  BY DEF Credit
<1> HIDE DEF c
<1>7. Append(credits[Entry(h)], c) \in Seq(CreditType)
  BY <1>1, <1>4, <1>5
<1>8. credits' \in [Entries -> Seq(CreditType)]
  BY <1>1, <1>6, <1>7 DEF TypeInv, LedgerOK
<1> QED
  BY <1>3, <1>8 DEF TypeInv, LedgerOK

LEMMA ConfirmTyped ==
  ASSUME TypeInv, NEW h \in Handlers, Confirm(h)
  PROVE  TypeInv'
<1> PICK n \in Nat : n = Len(transfers)
  BY DEF TypeInv, ChainOK
<1>1. /\ handler[h].session \in Sessions /\ handler[h].transfer \in Transfers
      /\ handler[h] \in HandlerType /\ handler[h].transfer <= n
  <2>1. /\ handler[h].session \in Sessions /\ handler[h].transfer \in Transfers
        /\ handler[h] \in HandlerType /\ handler[h].transfer \in DOMAIN transfers
    BY BusyHandler DEF Confirm, Located, About, Pcs
  <2>2. DOMAIN transfers = 1..n
    BY DEF TypeInv, ChainOK
  <2> QED
    BY <2>1, <2>2
<1> PICK s \in Sessions : s = handler[h].session
  BY <1>1
<1> PICK i \in Transfers : i = handler[h].transfer
  BY <1>1
<1> PICK k \in Keys : k = handler[h].known
  BY <1>1 DEF HandlerType
<1>2. LinkOf[s] \in Links
  BY LinksAssumption
<1>3. RowsOK' /\ LedgerOK'
  BY <1>2, CreditOK DEF Confirm, Accounts
<1>4. session' = [session EXCEPT ![s].status = "CONFIRMED", ![s].tx = i, ![s].known = k]
  BY DEF Confirm
<1>5. SessionsOK(n)'
  BY <1>1, <1>4, SettledUpdate DEF TypeInv
<1>6. HandlersOK(n)'
  BY FinishOK DEF Confirm, TypeInv
<1>7. LinksOK'
  <2> PICK uses \in Nat : uses = handler[h].uses
    BY <1>1 DEF HandlerType
  <2> PICK l \in Links : l = LinkOf[s]
    BY <1>2
  <2>1. link[l] \in LinkType /\ link \in [Links -> LinkType]
    BY DEF TypeInv, LinksOK
  <2> DEFINE open == link[l].active /\ ~Exhausted(l, uses + 1)
             r == [active |-> open, useCount |-> uses + 1,
                   payments |-> link[l].payments + 1]
  <2>2. open \in BOOLEAN
    BY <2>1 DEF LinkType
  <2>3. r \in LinkType
    <3> HIDE DEF open
    <3> QED
      BY <2>1, <2>2 DEF LinkType
  <2>4. [Counted(link[l], uses) EXCEPT !.active = open] = r
    <3> HIDE DEF open
    <3>1. Counted(link[l], uses) = [active |-> link[l].active, useCount |-> uses + 1,
                                    payments |-> link[l].payments + 1]
      <4> PICK x \in LinkType : x = link[l]
        BY <2>1
      <4> PICK up \in Nat : up = uses + 1
        OBVIOUS
      <4>1. Counted(x, uses) = [x EXCEPT !.useCount = up, !.payments = x.payments + 1]
        BY DEF Counted
      <4>2. x = [active |-> x.active, useCount |-> x.useCount, payments |-> x.payments]
        BY DEF LinkType
      <4> QED
        BY <4>1, <4>2
    <3> QED
      BY <3>1
  <2>5. link' = [link EXCEPT ![l] = [Counted(link[l], uses) EXCEPT !.active = open]]
    BY Zenon DEF Confirm
  <2> HIDE DEF r
  <2> QED
    BY <2>1, <2>3, <2>4, <2>5 DEF LinksOK
<1> QED
  BY <1>3, <1>5, <1>6, <1>7 DEF Confirm, TypeInv, ChainOK

LEMMA ParkTyped ==
  ASSUME TypeInv, NEW h \in Handlers, Park(h)
  PROVE  TypeInv'
<1> PICK n \in Nat : n = Len(transfers)
  BY DEF TypeInv, ChainOK
<1>1. /\ handler[h].session \in Sessions /\ handler[h].transfer \in Transfers
      /\ handler[h].transfer <= n /\ handler[h].transfer # 0
      /\ handler[h].pc # "idle" /\ "refund" \in Pcs \ {"idle"}
  <2>1. /\ handler[h].session \in Sessions /\ handler[h].transfer \in Transfers
        /\ handler[h].pc = "park" /\ handler[h].transfer \in DOMAIN transfers
    BY BusyHandler DEF Park, Located, About, Pcs
  <2>2. DOMAIN transfers = 1..n
    BY DEF TypeInv, ChainOK
  <2> QED
    BY <2>1, <2>2 DEF Pcs
<1> PICK s \in Sessions : s = handler[h].session
  BY <1>1
<1> PICK i \in Transfers : i = handler[h].transfer
  BY <1>1
<1> PICK k \in Keys : k = handler[h].known
  BY BusyHandler DEF Park, HandlerType
<1>2. RowsOK' /\ LedgerOK'
  BY CreditOK DEF Park, Accounts
<1>3. session' = [session EXCEPT ![s].status = "WRONG_AMOUNT_REFUNDED", ![s].tx = i,
                                 ![s].known = k]
  BY DEF Park
<1>4. SessionsOK(n)'
  BY <1>1, <1>3, SettledUpdate DEF TypeInv
<1>5. HandlersOK(n)'
  BY <1>1, GotoOK DEF Park, TypeInv
<1> QED
  BY <1>2, <1>4, <1>5 DEF Park, TypeInv, ChainOK, LinksOK

LEMMA CreditDefaultTyped ==
  ASSUME TypeInv, NEW h \in Handlers, CreditDefault(h)
  PROVE  TypeInv'
<1> PICK n \in Nat : n = Len(transfers)
  BY DEF TypeInv, ChainOK
<1>1. RowsOK' /\ LedgerOK'
  BY CreditOK DEF CreditDefault, Accounts
<1>2. HandlersOK(n)'
  BY FinishOK DEF CreditDefault, TypeInv
<1> QED
  BY <1>1, <1>2 DEF CreditDefault, TypeInv, SessionsOK, ChainOK, LinksOK

LEMMA RefundTyped ==
  ASSUME TypeInv, NEW h \in Handlers, Refund(h)
  PROVE  TypeInv'
<1> PICK n \in Nat : n = Len(transfers)
  BY DEF TypeInv, ChainOK
<1> PICK m \in Nat : m = n + 1
  OBVIOUS
<1>1. /\ handler[h].session \in Sessions /\ handler[h].transfer # 0
      /\ handler[h].pc # "idle" /\ "debit" \in Pcs \ {"idle"}
  BY BusyHandler, BoundsAssumption DEF Refund, Located, About, Pcs, Transfers
<1> PICK i \in Nat : i = session[handler[h].session].tx
  BY <1>1, BoundsAssumption DEF TypeInv, SessionsOK, SessionType, Transfers
<1>2. i \in DOMAIN transfers
  BY <1>1 DEF Refund, TypeInv, SessionsOK, SessionOK, ChainOK
<1>3. transfers[i].from \in Wallets /\ transfers[i].amount \in Nat \ {0}
  <2>1. transfers[i] \in TransferType
    BY <1>2 DEF TypeInv, ChainOK
  <2> QED
    BY <2>1 DEF TransferType
<1>4. Move(Treasury, transfers[i].from, transfers[i].amount)
  BY DEF Refund
<1>5. ChainOK' /\ Len(transfers') = m
  BY <1>3, <1>4, MoveOK DEF TypeInv, Wallets
<1>6. SessionsOK(m) /\ HandlersOK(m)
  BY Later DEF TypeInv
<1>7. HandlersOK(m)'
  BY <1>1, <1>6, GotoOK DEF Refund
<1>8. SessionsOK(m)'
  BY <1>6 DEF Refund, SessionsOK
<1> QED
  BY <1>5, <1>7, <1>8 DEF Refund, TypeInv, LinksOK, RowsOK, LedgerOK

LEMMA DebitTyped ==
  ASSUME TypeInv, NEW h \in Handlers, DebitRefund(h)
  PROVE  TypeInv'
<1> PICK n \in Nat : n = Len(transfers)
  BY DEF TypeInv, ChainOK
<1>1. handler[h].session \in Sessions
  BY BusyHandler DEF DebitRefund, About, Pcs
<1>2. HandlersOK(n)'
  BY FinishOK DEF DebitRefund, TypeInv
<1>3. LedgerOK'
  BY <1>1 DEF DebitRefund, TypeInv, LedgerOK
<1> QED
  BY <1>2, <1>3 DEF DebitRefund, TypeInv, SessionsOK, ChainOK, LinksOK, RowsOK

LEMMA TypeStep == TypeInv /\ [Next]_vars => TypeInv'
<1> SUFFICES ASSUME TypeInv, [Next]_vars PROVE TypeInv'
  OBVIOUS
<1>1. ASSUME NEW s \in Sessions, StartCheckout(s) \/ Provision(s) \/ ProvisionFails(s)
      PROVE TypeInv'
  BY <1>1, CheckoutTyped
<1>2. ASSUME NEW s \in Sessions, ReturnDeposit(s) PROVE TypeInv'
  <2>1. held[s] \in Nat \ {0}
    BY <1>2, NamesAssumption DEF ReturnDeposit, TypeInv, ChainOK, Wallets
  <2> QED
    BY <1>2, <2>1, PayersTyped DEF ReturnDeposit, Wallets
<1>3. ASSUME NEW s \in Sessions, NEW amount \in Amounts, Deposit(s, amount) PROVE TypeInv'
  BY <1>3, PayersTyped, AmountsAssumption DEF Deposit, Wallets
<1>4. ASSUME NEW l \in Links, ExpireLink(l) PROVE TypeInv'
  BY <1>4, ExpireTyped
<1>5. ASSUME NEW amount \in Amounts, PayTreasury(amount) PROVE TypeInv'
  BY <1>5, PayersTyped, AmountsAssumption DEF PayTreasury, Wallets
<1>6. ASSUME NEW h \in Handlers, Proceed(h) PROVE TypeInv'
  BY <1>6, SweepTyped, BookkeepingTyped, ResolveTyped, ConfirmTyped,
     ParkTyped, CreditDefaultTyped, RefundTyped, DebitTyped DEF Proceed, Bookkeeping
<1>7. ASSUME NEW h \in Handlers, Crash(h) PROVE TypeInv'
  BY <1>7, BookkeepingTyped DEF Bookkeeping
<1>8. ASSUME NEW h \in Handlers, Take(h) PROVE TypeInv'
  BY <1>8, TakeTyped
<1>9. CASE UNCHANGED vars
  BY <1>9 DEF vars, TypeInv, SessionsOK, HandlersOK, ChainOK, LinksOK, RowsOK, LedgerOK
<1> QED
  BY <1>1, <1>2, <1>3, <1>4, <1>5, <1>6, <1>7, <1>8, <1>9 DEF Next

LEMMA TypeInvariant == Spec => []TypeInv
  BY TypeInit, TypeStep, PTL DEF Spec

\* Types are kept, no wallet is overdrawn: payment_link_settlement's TypeOK,
\* for any links, sessions, prices, handlers and bounds.
THEOREM TypeCorrect == Spec => []TypeOK
  BY TypeInvariant, TypeInvTyped, PTL

-----------------------------------------------------------------------------
(* What a step leaves alone, unless it is one of the few that write it. *)

Claims(h) == \E s \in Sessions, amount \in Amounts : Claim(h, s, amount)

\* A session moves forward only, and keeps the transfer it names.
Kept(s) ==
  /\ session'[s].tx = session[s].tx /\ session'[s].known = session[s].known
  /\ \/ session'[s].status = session[s].status
     \/ session[s].status = "ABSENT" /\ session'[s].status = "PENDING"
     \/ session[s].status = "PENDING" /\ session'[s].status = "SWEEPING"
     \/ session'[s].status = "FAILED"

LEMMA SessionFrame ==
  ASSUME TypeInv, [Next]_vars, \A h \in Handlers : ~Confirm(h) /\ ~Park(h),
         NEW t \in Sessions
  PROVE  Kept(t)
<1>1. session[t] \in SessionType /\ session \in [Sessions -> SessionType]
  BY DEF TypeInv, SessionsOK
<1>2. ASSUME NEW s \in Sessions, StartCheckout(s) \/ Provision(s) \/ ProvisionFails(s)
      PROVE  Kept(t)
  BY <1>1, <1>2 DEF StartCheckout, Provision, ProvisionFails, Kept, SessionType
<1>3. ASSUME NEW h \in Handlers, NEW s \in Sessions, NEW amount \in Amounts,
             Claim(h, s, amount)
      PROVE  Kept(t)
  BY <1>1, <1>3 DEF Claim, Claimable, Pending, Kept, SessionType
<1>5. CASE UNCHANGED session
  BY <1>5 DEF Kept
<1>6. ASSUME NEW h \in Handlers, Proceed(h)
      PROVE  UNCHANGED session
  BY <1>6 DEF Proceed, Sweep, SweepFails, SweepUnanswered, Lookup, Resolve, CheckStuck,
     Match, MatchFails, ReadLink, CreditDefault, Abort, Refund, RefundFails, DebitRefund
<1>7. ASSUME NEW h \in Handlers, Take(h), ~Claims(h)
      PROVE  UNCHANGED session
  BY <1>7 DEF Take, Claims, FindStuck, ReceiveInbound
<1> QED
  BY <1>2, <1>3, <1>5, <1>6, <1>7
     DEF Claims, Next, ReturnDeposit, Deposit, PayTreasury, ExpireLink, Crash, vars

LEMMA HandlerFrame ==
  ASSUME TypeInv, NEW h \in Handlers, Proceed(h) \/ Crash(h)
  PROVE  /\ \A g \in Handlers \ {h} : handler'[g] = handler[g]
         /\ handler'[h].pc # "sweep"
<1>1. handler[h] \in HandlerType /\ handler \in [Handlers -> HandlerType]
  BY DEF TypeInv, HandlersOK
<1>2. CASE Finish(h)
  BY <1>1, <1>2 DEF Finish, IdleHandler
<1>9. CASE Resolve(h)
  BY <1>1, <1>9 DEF Resolve, Goto, HandlerType
<1>3. CASE \E pc \in {"check", "read", "refund", "debit"} : Goto(h, pc)
  BY <1>1, <1>3 DEF Goto, HandlerType
<1>4. CASE Match(h)
  <2>1. \E pc \in {"read", "park", "credit"} : \E s : Matched(h, pc, s)
    BY <1>4 DEF Match
  <2>2. ASSUME NEW pc \in {"read", "park", "credit"}, NEW s, Matched(h, pc, s)
        PROVE  /\ \A g \in Handlers \ {h} : handler'[g] = handler[g]
               /\ handler'[h].pc # "sweep"
    BY <1>1, <2>2 DEF Matched, HandlerType
  <2> QED
    BY <2>1, <2>2
<1>5. CASE Sweep(h) \/ Lookup(h) \/ ReadLink(h)
  BY <1>1, <1>5 DEF Sweep, Lookup, ReadLink, HandlerType
<1>6. CASE Crash(h) \/ CheckStuck(h)
  BY <1>2, <1>3, <1>6 DEF Crash, CheckStuck
<1>7. CASE SweepFails(h) \/ SweepUnanswered(h) \/ MatchFails(h) \/ Abort(h) \/ RefundFails(h)
  BY <1>2, <1>7 DEF SweepFails, SweepUnanswered, MatchFails, Abort, RefundFails
<1>8. CASE Confirm(h) \/ Park(h) \/ CreditDefault(h) \/ Refund(h) \/ DebitRefund(h)
  BY <1>2, <1>3, <1>8 DEF Confirm, Park, CreditDefault, Refund, DebitRefund
<1> QED
  BY <1>4, <1>5, <1>6, <1>7, <1>8, <1>9 DEF Proceed

\* Only a claim sends a handler to sweep.
LEMMA SweepersFrame ==
  ASSUME TypeInv, [Next]_vars, NEW s \in Sessions,
         \A h \in Handlers : ~Claims(h)
  PROVE  Sweepers(s)' \subseteq Sweepers(s)
<1>1. handler \in [Handlers -> HandlerType]
  BY DEF TypeInv, HandlersOK
<1>2. ASSUME NEW h \in Handlers, Proceed(h) \/ Crash(h)
      PROVE  Sweepers(s)' \subseteq Sweepers(s)
  BY <1>2, HandlerFrame DEF Sweepers
<1>3. ASSUME NEW h \in Handlers, NEW i, NEW hashed, FindStuck(h, i, hashed)
      PROVE  Sweepers(s)' \subseteq Sweepers(s)
  BY <1>1, <1>3 DEF Sweepers, FindStuck, IdleHandler
<1>4. ASSUME NEW h \in Handlers, NEW i, NEW hashed, ReceiveInbound(h, i, hashed)
      PROVE  Sweepers(s)' \subseteq Sweepers(s)
  BY <1>1, <1>4 DEF Sweepers, ReceiveInbound, IdleHandler
<1>5. CASE UNCHANGED handler
  BY <1>5 DEF Sweepers
<1> QED
  BY <1>2, <1>3, <1>4, <1>5
     DEF Next, Take, Claims, StartCheckout, Provision, ProvisionFails, ReturnDeposit, Deposit,
     PayTreasury, ExpireLink, vars

LEMMA MoveSweeps ==
  ASSUME TypeInv, NEW from \in Wallets, NEW to \in Wallets, NEW amount \in Nat \ {0},
         Move(from, to, amount), NEW s \in Sessions
  PROVE  Sweeps(s)' = Sweeps(s) \cup
           (IF from = s /\ to = Treasury THEN {Len(transfers) + 1} ELSE {})
<1>1. transfers' = Append(transfers, [from |-> from, to |-> to, amount |-> amount])
  BY DEF Move
<1> PICK n \in Nat : n = Len(transfers) /\ transfers \in Seq(TransferType)
  BY DEF TypeInv, ChainOK
<1>2. [from |-> from, to |-> to, amount |-> amount] \in TransferType
  BY DEF TransferType
<1>3. /\ DOMAIN transfers = 1..n /\ DOMAIN transfers' = 1..(n + 1)
      /\ \A i \in 1..n : transfers'[i] = transfers[i]
      /\ transfers'[n + 1] = [from |-> from, to |-> to, amount |-> amount]
  BY <1>1, <1>2
<1> QED
  BY <1>3 DEF Sweeps

\* A refund is a transfer of money that came.
LEMMA RefundMoves ==
  ASSUME TypeInv, NEW h \in Handlers, Refund(h)
  PROVE  \E to \in Wallets, amount \in Nat \ {0} : Move(Treasury, to, amount)
<1> PICK n \in Nat : n = Len(transfers)
  BY DEF TypeInv, ChainOK
<1>1. handler[h].session \in Sessions
  BY BusyHandler DEF Refund, About, Pcs
<1> PICK i \in Nat : i = session[handler[h].session].tx
  BY <1>1, BoundsAssumption DEF TypeInv, SessionsOK, SessionType, Transfers
<1>2. i \in DOMAIN transfers
  BY <1>1 DEF Refund, TypeInv, SessionsOK, SessionOK, ChainOK
<1>3. transfers[i] \in TransferType
  BY <1>2 DEF TypeInv, ChainOK
<1>4. Move(Treasury, transfers[i].from, transfers[i].amount)
  BY DEF Refund
<1> QED
  BY <1>3, <1>4 DEF TransferType

LEMMA OtherMoves ==
  ASSUME TypeInv, NEW from \in Wallets, NEW to \in Wallets, NEW amount \in Nat \ {0},
         Move(from, to, amount), NEW s \in Sessions, from # s \/ to # Treasury
  PROVE  Sweeps(s)' = Sweeps(s)
<1> DEFINE more == IF from = s /\ to = Treasury THEN {Len(transfers) + 1} ELSE {}
<1>1. Sweeps(s)' = Sweeps(s) \cup more
  BY MoveSweeps
<1>2. more = {}
  OBVIOUS
<1> HIDE DEF more
<1> QED
  BY <1>1, <1>2

\* Only Sweep moves money from a deposit wallet to the treasury.
LEMMA SweepsFrame ==
  ASSUME TypeInv, [Next]_vars, \A h \in Handlers : ~Sweep(h), NEW s \in Sessions
  PROVE  Sweeps(s)' = Sweeps(s)
<1>1. s # Outside /\ s # Treasury /\ Treasury # Outside
  BY NamesAssumption
<1>2. ASSUME NEW t \in Sessions, ReturnDeposit(t) PROVE Sweeps(s)' = Sweeps(s)
  <2>1. held[t] \in Nat \ {0}
    BY <1>2, NamesAssumption DEF ReturnDeposit, TypeInv, ChainOK, Wallets
  <2> QED
    BY <1>1, <1>2, <2>1, OtherMoves DEF ReturnDeposit, Wallets
<1>3. ASSUME NEW t \in Sessions, NEW amount \in Amounts, Deposit(t, amount)
      PROVE  Sweeps(s)' = Sweeps(s)
  BY <1>1, <1>3, AmountsAssumption, OtherMoves DEF Deposit, Wallets
<1>4. ASSUME NEW amount \in Amounts, PayTreasury(amount) PROVE Sweeps(s)' = Sweeps(s)
  BY <1>1, <1>4, AmountsAssumption, OtherMoves DEF PayTreasury, Wallets
<1>5. ASSUME NEW h \in Handlers, Refund(h) PROVE Sweeps(s)' = Sweeps(s)
  <2> PICK from \in Wallets, amount \in Nat \ {0} : Move(Treasury, from, amount)
    BY <1>5, RefundMoves
  <2> QED
    BY <1>1, OtherMoves DEF Wallets
<1>6. CASE UNCHANGED transfers
  BY <1>6 DEF Sweeps
<1>7. ASSUME NEW h \in Handlers, Proceed(h), ~Sweep(h), ~Refund(h)
      PROVE  UNCHANGED transfers
  BY <1>7 DEF Proceed, SweepFails, SweepUnanswered, Lookup, Resolve, CheckStuck, Match,
     MatchFails, ReadLink, Confirm, Park, CreditDefault, Abort, RefundFails, DebitRefund
<1>8. ASSUME NEW h \in Handlers, Take(h)
      PROVE  UNCHANGED transfers
  BY <1>8 DEF Take, Claim, FindStuck, ReceiveInbound
<1> QED
  BY <1>2, <1>3, <1>4, <1>5, <1>6, <1>7, <1>8
     DEF Next, StartCheckout, Provision, ProvisionFails, ExpireLink, Crash, vars

-----------------------------------------------------------------------------
(* A deposit wallet is swept once. *)

Unclaimed(s) == session[s].status \in {"ABSENT", "PENDING"}

\* Nobody is about to sweep, or has swept, an unclaimed session; one handler at
\* most is about to sweep a claimed one, and then nobody has.
ClaimOK(s) ==
  /\ Unclaimed(s) => Sweepers(s) = {}
  /\ Unclaimed(s) \/ Sweepers(s) # {} => Sweeps(s) = {}
  /\ \A g, h \in Sweepers(s) : g = h
  /\ \A i, j \in Sweeps(s) : i = j

ClaimInv == \A s \in Sessions : ClaimOK(s)

LEMMA ClaimInit == Init => ClaimInv
  BY DEF Init, ClaimInv, ClaimOK, Sweepers, Sweeps, IdleHandler

LEMMA ClaimStep == TypeInv /\ ClaimInv /\ [Next]_vars => ClaimInv'
<1> SUFFICES ASSUME TypeInv, ClaimInv, [Next]_vars, NEW s \in Sessions
             PROVE  ClaimOK(s)'
  BY DEF ClaimInv
<1>1. ClaimOK(s) /\ handler \in [Handlers -> HandlerType]
      /\ session \in [Sessions -> SessionType]
  BY DEF ClaimInv, TypeInv, HandlersOK, SessionsOK
<1>2. ASSUME NEW h \in Handlers, Confirm(h) \/ Park(h)
      PROVE  Unclaimed(s)' => Unclaimed(s)
  BY <1>1, <1>2 DEF Confirm, Park, Unclaimed, SessionType
<1>3. Unclaimed(s)' => Unclaimed(s)
  BY <1>2, SessionFrame DEF Kept, Unclaimed
<1>4. ASSUME NEW h \in Handlers, NEW t \in Sessions, NEW amount \in Amounts,
             Claim(h, t, amount)
      PROVE  ClaimOK(s)'
  <2>1. Sweeps(s)' = Sweeps(s)
    BY <1>4 DEF Claim, Sweeps
  <2>2. /\ session[t].status = "PENDING" /\ session'[t].status = "SWEEPING"
        /\ \A u \in Sessions \ {t} : session'[u] = session[u]
    BY <1>1, <1>4 DEF Claim, Claimable, Pending, SessionType
  <2>3. /\ handler'[h].pc = "sweep" /\ handler'[h].session = t
        /\ handler[h].pc = "idle"
        /\ \A g \in Handlers \ {h} : handler'[g] = handler[g]
    BY <1>1, <1>4 DEF Claim, IdleHandler
  <2>4. CASE s = t
    <3>1. Sweepers(s) = {} /\ Sweeps(s) = {}
      BY <1>1, <2>2, <2>4 DEF ClaimOK, Unclaimed
    <3>2. Sweepers(s)' = {h}
      BY <2>3, <2>4, <3>1 DEF Sweepers
    <3>3. ~Unclaimed(s)'
      BY <2>2, <2>4 DEF Unclaimed
    <3> QED
      BY <2>1, <3>1, <3>2, <3>3 DEF ClaimOK
  <2>5. CASE s # t
    <3>1. Sweepers(s)' = Sweepers(s)
      BY <2>3, <2>5 DEF Sweepers
    <3> QED
      BY <1>1, <1>3, <2>1, <3>1 DEF ClaimOK
  <2> QED
    BY <2>4, <2>5
<1>5. ASSUME NEW h \in Handlers, Sweep(h)
      PROVE  ClaimOK(s)'
  <2>1. handler[h].session \in Sessions /\ handler[h].amount \in Nat \ {0}
        /\ handler[h].pc = "sweep"
    BY <1>5, BusyHandler DEF Sweep, About, Pcs
  <2> PICK t \in Sessions : t = handler[h].session
    BY <2>1
  <2>2. Sweeps(s)' = Sweeps(s) \cup (IF s = t THEN {Len(transfers) + 1} ELSE {})
    BY <1>5, <2>1, MoveSweeps DEF Sweep, Wallets
  <2>3. Sweepers(s)' = Sweepers(s) \ {h}
    BY <1>5, HandlerFrame DEF Proceed, Sweepers
  <2>4. h \in Sweepers(t)
    BY <2>1 DEF Sweepers
  <2>5. CASE s = t
    <3>1. Sweepers(s)' = {} /\ ~Unclaimed(s)
      BY <1>1, <2>3, <2>4, <2>5 DEF ClaimOK
    <3>2. Sweeps(s)' = {Len(transfers) + 1}
      BY <1>1, <2>2, <2>4, <2>5 DEF ClaimOK
    <3> QED
      BY <1>3, <3>1, <3>2 DEF ClaimOK
  <2>6. CASE s # t
    <3>1. Sweeps(s)' = Sweeps(s)
      BY <2>2, <2>6
    <3> QED
      BY <1>1, <1>3, <2>3, <3>1 DEF ClaimOK
  <2> QED
    BY <2>5, <2>6
<1>6. CASE /\ \A h \in Handlers : ~Sweep(h)
           /\ \A h \in Handlers : ~Claims(h)
  <2>1. Sweeps(s)' = Sweeps(s) /\ Sweepers(s)' \subseteq Sweepers(s)
    BY <1>6, SweepsFrame, SweepersFrame
  <2> QED
    BY <1>1, <1>3, <2>1 DEF ClaimOK
<1> QED
  BY <1>4, <1>5, <1>6 DEF Claims

LEMMA ClaimInvariant == Spec => []ClaimInv
  BY TypeInvariant, ClaimInit, ClaimStep, PTL DEF Spec

\* A deposit wallet is swept at most once, and by one handler, whatever notices
\* come again and whichever handlers die: link_settlement's SweptOnce.
THEOREM SweepsOnce == Spec => []SweptOnce
<1>1. ClaimInv => SweptOnce
  BY DEF ClaimInv, ClaimOK, SweptOnce
<1> QED
  BY <1>1, ClaimInvariant, PTL

-----------------------------------------------------------------------------
(* A notice has one row, and a row one credit. *)

Committing(h) == handler[h].pc \in {"commit", "park", "credit"}

LEMMA CreditWrites ==
  ASSUME TypeInv, NEW h \in Handlers, Committing(h), NEW account, Credit(h, account),
         NEW e \in Entries
  PROVE  /\ Credited(e) => credits'[e] = credits[e]
         /\ credits'[e] = credits[e] \/ Len(credits'[e]) = 1
         /\ e = Entry(h) => credits'[e] # << >>
<1> DEFINE c == [account |-> account, amount |-> handler[h].amount]
<1>1. Entry(h) \in Entries
  BY BusyHandler DEF Committing, Located, Pcs
<1>2. credits' = IF Credited(Entry(h)) THEN credits
                 ELSE [credits EXCEPT ![Entry(h)] = Append(credits[Entry(h)], c)]
  BY DEF Credit
<1> HIDE DEF c
<1>3. credits \in [Entries -> Seq(CreditType)]
  BY DEF TypeInv, LedgerOK
<1>4. Len(Append(<< >>, c)) = 1 /\ Append(<< >>, c) # << >>
  OBVIOUS
<1> QED
  BY <1>1, <1>2, <1>3, <1>4 DEF Credited

LEMMA CreditsFrame ==
  ASSUME TypeInv, [Next]_vars, NEW e \in Entries
  PROVE  /\ Credited(e) => credits'[e] = credits[e]
         /\ credits'[e] = credits[e] \/ Len(credits'[e]) = 1
<1>1. ASSUME NEW h \in Handlers, Confirm(h) \/ Park(h) \/ CreditDefault(h)
      PROVE  \E account : Credit(h, account) /\ Committing(h)
  BY <1>1 DEF Confirm, Park, CreditDefault, Committing
<1>2. CASE UNCHANGED credits
  BY <1>2
<1>3. ASSUME NEW h \in Handlers, Proceed(h), ~Confirm(h), ~Park(h), ~CreditDefault(h)
      PROVE  UNCHANGED credits
  BY <1>3 DEF Proceed, Sweep, SweepFails, SweepUnanswered, Lookup, Resolve, CheckStuck,
     Match, MatchFails, ReadLink, Abort, Refund, RefundFails, DebitRefund
<1>4. ASSUME NEW h \in Handlers, Take(h)
      PROVE  UNCHANGED credits
  BY <1>4 DEF Take, Claim, FindStuck, ReceiveInbound
<1> QED
  BY <1>1, <1>2, <1>3, <1>4, CreditWrites
     DEF Next, StartCheckout, Provision, ProvisionFails, ReturnDeposit, Deposit,
     PayTreasury, ExpireLink, Crash, vars

\* No two rows of a transfer were written for the same notice.
OneRow == \A i \in Transfers, j, k \in Keys :
  row[<<i, j>>] = row[<<i, k>>] /\ row[<<i, k>>] # "none" => j = k

\* A row is created where the search of its writer found none.
LEMMA RowsWritten ==
  ASSUME TypeInv, [Next]_vars
  PROVE  \/ UNCHANGED row
         \/ \E h \in Handlers, origin \in Rows \ {"none"}, hashed \in BOOLEAN :
              /\ Entry(h) \in Entries
              /\ Known(handler[h].transfer, origin, hashed) = {}
              /\ row' = [row EXCEPT ![Entry(h)] = origin]
<1> DEFINE Written ==
      \E h \in Handlers, origin \in Rows \ {"none"}, hashed \in BOOLEAN :
        /\ Entry(h) \in Entries
        /\ Known(handler[h].transfer, origin, hashed) = {}
        /\ row' = [row EXCEPT ![Entry(h)] = origin]
<1>1. ASSUME NEW h \in Handlers, Confirm(h) \/ Park(h) \/ CreditDefault(h)
      PROVE  UNCHANGED row \/ Written
  <2>1. /\ handler[h].insert \in Rows /\ Entry(h) \in Entries
        /\ InsertRow(h) /\ ~Conflict(h)
    BY <1>1, BusyHandler DEF Confirm, Park, CreditDefault, HandlerType, Located, Pcs
  <2>2. (handler[h].known = "hash") \in BOOLEAN
    OBVIOUS
  <2> QED
    BY <2>1, <2>2 DEF InsertRow, Conflict
<1>2. ASSUME NEW h \in Handlers, Resolve(h) PROVE UNCHANGED row \/ Written
  <2>1. Entry(h) \in Entries /\ "outbound" \in Rows \ {"none"}
    BY <1>2, BusyHandler DEF Resolve, Rows, Located, Pcs
  <2>2. (handler[h].known = "hash") \in BOOLEAN
    OBVIOUS
  <2> QED
    BY <1>2, <2>1, <2>2 DEF Resolve
<1> HIDE DEF Written
<1>3. ASSUME NEW h \in Handlers, Proceed(h), ~Confirm(h), ~Park(h), ~CreditDefault(h),
             ~Resolve(h)
      PROVE  UNCHANGED row
  BY <1>3 DEF Proceed, Sweep, SweepFails, SweepUnanswered, Lookup, CheckStuck,
     Match, MatchFails, ReadLink, Abort, Refund, RefundFails, DebitRefund
<1>4. ASSUME NEW h \in Handlers, Take(h)
      PROVE  UNCHANGED row
  BY <1>4 DEF Take, Claim, FindStuck, ReceiveInbound
<1>5. UNCHANGED row \/ Written
  BY <1>1, <1>2, <1>3, <1>4
     DEF Next, StartCheckout, Provision, ProvisionFails, ReturnDeposit, Deposit,
     PayTreasury, ExpireLink, Crash, vars
<1> QED
  BY <1>5 DEF Written

LEMMA OneRowStep ==
  ASSUME TypeInv, OneRow, [Next]_vars
  PROVE  OneRow'
<1>1. row \in [Entries -> Rows]
  BY DEF TypeInv, RowsOK
<1>2. CASE UNCHANGED row
  BY <1>2 DEF OneRow
<1>3. ASSUME NEW h \in Handlers, NEW origin \in Rows \ {"none"}, NEW hashed \in BOOLEAN,
             Entry(h) \in Entries, Known(handler[h].transfer, origin, hashed) = {},
             row' = [row EXCEPT ![Entry(h)] = origin]
      PROVE  OneRow'
  <2> PICK n \in Transfers, m \in Keys : n = handler[h].transfer /\ m = handler[h].known
    BY <1>3 DEF Entry, Entries
  <2>1. \A k \in Keys : row[<<n, k>>] # origin
    BY <1>3 DEF Known
  <2>2. row' = [row EXCEPT ![<<n, m>>] = origin]
    BY <1>3 DEF Entry
  <2>3. \A i \in Transfers, k \in Keys :
          row'[<<i, k>>] = IF i = n /\ k = m THEN origin ELSE row[<<i, k>>]
    BY <1>1, <2>2 DEF Entries
  <2> QED
    BY <2>1, <2>3 DEF OneRow
<1> QED
  BY <1>2, <1>3, RowsWritten

\* Whichever of the three handlers writes or adopts a row, and whether or not its
\* notices carry the hash: a notice has one row and a row one credit.
\* link_settlement's CreditedOnce.
THEOREM CreditsOnce == Spec => []CreditedOnce
<1> DEFINE OneCredit == \A e \in Entries : Len(credits[e]) <= 1
<1>1. Init => OneCredit /\ OneRow
  BY DEF Init, OneRow, Entries
<1>2. ASSUME TypeInv, OneCredit, [Next]_vars PROVE OneCredit'
  <2>1. ASSUME NEW e \in Entries PROVE Len(credits'[e]) <= 1
    <3>1. credits'[e] = credits[e] \/ Len(credits'[e]) = 1
      BY <1>2, CreditsFrame
    <3>2. Len(credits[e]) <= 1
      BY <1>2
    <3>3. CASE credits'[e] = credits[e]
      BY <3>2, <3>3, Zenon
    <3>4. CASE Len(credits'[e]) = 1
      BY <3>4
    <3> QED
      BY <3>1, <3>3, <3>4
  <2> QED
    BY <2>1
<1>3. OneCredit /\ OneRow => CreditedOnce
  BY DEF OneRow, CreditedOnce, Entries
<1>4. TypeInv /\ OneRow /\ [Next]_vars => OneRow'
  BY OneRowStep
<1> HIDE DEF OneCredit
<1> QED
  BY <1>1, <1>2, <1>3, <1>4, TypeInvariant, PTL DEF Spec

\* The commits of a session.
LEMMA SettledBy ==
  ASSUME TypeInv, NEW h \in Handlers, Confirm(h) \/ Park(h)
  PROVE  /\ handler[h].session \in Sessions /\ Entry(h) \in Entries
         /\ \A s \in Sessions \ {handler[h].session} : session'[s] = session[s]
         /\ session'[handler[h].session].tx = handler[h].transfer
         /\ session'[handler[h].session].known = handler[h].known
         /\ Park(h) => session'[handler[h].session].status = "WRONG_AMOUNT_REFUNDED"
<1>1. handler[h].session \in Sessions /\ Entry(h) \in Entries
  BY BusyHandler DEF Confirm, Park, Located, About, Pcs
<1> PICK s \in Sessions : s = handler[h].session
  BY <1>1
<1> PICK i \in Transfers, k \in Keys : i = handler[h].transfer /\ k = handler[h].known
  BY <1>1 DEF Entry, Entries
<1>2. session \in [Sessions -> SessionType]
  BY DEF TypeInv, SessionsOK
<1>3. PICK status \in {"CONFIRMED", "WRONG_AMOUNT_REFUNDED"} :
        /\ session' = [session EXCEPT ![s].status = status, ![s].tx = i, ![s].known = k]
        /\ Park(h) => status = "WRONG_AMOUNT_REFUNDED"
  BY DEF Confirm, Park
<1> QED
  BY <1>1, <1>2, <1>3 DEF SessionType

-----------------------------------------------------------------------------
(* A confirmed session has its row and its credit. *)

LEMMA RowsFrame ==
  ASSUME TypeInv, [Next]_vars, NEW e \in Entries, row[e] # "none"
  PROVE  row'[e] # "none"
  BY RowsWritten DEF TypeInv, RowsOK

\* Where a handler may be after its step.
LEMMA HandlerPlaces ==
  ASSUME TypeInv, NEW h \in Handlers, Proceed(h) \/ Crash(h)
  PROVE  \/ handler'[h].pc \in {"idle", "refund", "debit"}
         \/ Sweep(h) /\ handler'[h].pc = "lookup"
         \/ Lookup(h) \/ Resolve(h) \/ Match(h) \/ ReadLink(h)
         \/ CheckStuck(h) /\ Goto(h, "read")
<1>1. handler[h] \in HandlerType /\ handler \in [Handlers -> HandlerType]
  BY DEF TypeInv, HandlersOK
<1>2. CASE Finish(h)
  BY <1>1, <1>2 DEF Finish, IdleHandler
<1>3. CASE \E pc \in {"refund", "debit"} : Goto(h, pc)
  BY <1>1, <1>3 DEF Goto, HandlerType
<1>4. CASE Sweep(h)
  BY <1>1, <1>4 DEF Sweep, HandlerType
<1>5. CASE CheckStuck(h)
  BY <1>2, <1>5 DEF CheckStuck
<1>6. CASE Crash(h) \/ SweepFails(h) \/ SweepUnanswered(h) \/ MatchFails(h) \/ Abort(h)
           \/ RefundFails(h)
  BY <1>2, <1>6 DEF Crash, SweepFails, SweepUnanswered, MatchFails, Abort, RefundFails
<1>7. CASE Confirm(h) \/ Park(h) \/ CreditDefault(h) \/ Refund(h) \/ DebitRefund(h)
  BY <1>2, <1>3, <1>7 DEF Confirm, Park, CreditDefault, Refund, DebitRefund
<1> QED
  BY <1>4, <1>5, <1>6, <1>7 DEF Proceed

\* A handler takes an idle record to "sweep", "resolve" or "match".
LEMMA TakeFrame ==
  ASSUME TypeInv, NEW h \in Handlers, Take(h)
  PROVE  /\ \A g \in Handlers \ {h} : handler'[g] = handler[g]
         /\ handler'[h].pc \in {"sweep", "resolve", "match"}
<1>1. handler \in [Handlers -> HandlerType]
  BY DEF TypeInv, HandlersOK
<1>2. CASE Claims(h)
  BY <1>1, <1>2 DEF Claims, Claim, IdleHandler
<1>3. CASE \E i, hashed : FindStuck(h, i, hashed)
  BY <1>1, <1>3 DEF FindStuck, IdleHandler
<1>4. CASE \E i, hashed : ReceiveInbound(h, i, hashed)
  BY <1>1, <1>4 DEF ReceiveInbound, IdleHandler
<1> QED
  BY <1>2, <1>3, <1>4 DEF Take, Claims

\* From its lookup to its commit, a handler inserts the row or has seen it.
RowKnown(h) ==
  handler[h].pc \in {"check", "read", "commit", "park", "credit"} =>
    handler[h].insert # "none" \/ row[Entry(h)] # "none"

LEMMA RowKnownStep ==
  ASSUME TypeInv, \A h \in Handlers : RowKnown(h), [Next]_vars, NEW g \in Handlers
  PROVE  RowKnown(g)'
<1>1. /\ handler[g] \in HandlerType /\ handler \in [Handlers -> HandlerType]
      /\ row \in [Entries -> Rows] /\ RowKnown(g)
  BY DEF TypeInv, HandlersOK, RowsOK
<1>2. ASSUME handler'[g] = handler[g] PROVE RowKnown(g)'
  <2> PICK e : e = Entry(g)
    OBVIOUS
  <2>1. handler[g].pc \in {"check", "read", "commit", "park", "credit"} => e \in Entries
    BY BusyHandler DEF Located, Pcs
  <2>2. Entry(g)' = e
    BY <1>2 DEF Entry
  <2> QED
    BY <1>1, <1>2, <2>1, <2>2, RowsFrame DEF RowKnown
<1>3. ASSUME Proceed(g) \/ Crash(g) PROVE RowKnown(g)'
  <2>1. CASE handler'[g].pc \in {"idle", "lookup", "refund", "debit"}
    BY <2>1 DEF RowKnown
  <2>2. ASSUME UNCHANGED row, NEW i, i = handler[g].transfer, NEW k \in Keys,
               row[<<i, k>>] # "none", handler'[g].transfer = i, handler'[g].known = k
        PROVE  RowKnown(g)'
    BY <2>2 DEF RowKnown, Entry
  <2>6. CASE Lookup(g)
    <3>1. CASE handler' = [handler EXCEPT ![g].pc = "read", ![g].insert = "sweep"]
      BY <1>1, <3>1 DEF RowKnown, HandlerType
    <3>2. ASSUME NEW k \in Known(handler[g].transfer, "sweep", TRUE),
                 handler' = [handler EXCEPT ![g].pc = "read", ![g].known = k]
          PROVE  RowKnown(g)'
      <4>1. handler'[g].transfer = handler[g].transfer /\ handler'[g].known = k
        BY <1>1, <3>2 DEF HandlerType
      <4>2. k \in Keys /\ row[<<handler[g].transfer, k>>] # "none" /\ UNCHANGED row
        BY <2>6 DEF Known, Lookup
      <4> QED
        BY <2>2, <4>1, <4>2
    <3> QED
      BY <2>6, <3>1, <3>2 DEF Lookup
  <2>3. CASE Resolve(g)
    <3>1. CASE row' = [row EXCEPT ![Entry(g)] = "outbound"] /\ Goto(g, "check")
      <4> PICK e \in Entries : e = Entry(g)
        BY <2>3, BusyHandler DEF Resolve, Located, Pcs
      <4>1. row'[e] # "none"
        BY <1>1, <3>1
      <4>2. Entry(g)' = e
        BY <1>1, <3>1 DEF Goto, HandlerType, Entry
      <4> QED
        BY <4>1, <4>2 DEF RowKnown
    <3>2. ASSUME NEW k \in Known(handler[g].transfer, "outbound", handler[g].known = "hash"),
                 handler' = [handler EXCEPT ![g].pc = "check", ![g].known = k], UNCHANGED row
          PROVE  RowKnown(g)'
      <4>1. handler'[g].transfer = handler[g].transfer /\ handler'[g].known = k
        BY <1>1, <3>2 DEF HandlerType
      <4>2. k \in Keys /\ row[<<handler[g].transfer, k>>] # "none"
        BY DEF Known
      <4> QED
        BY <2>2, <3>2, <4>1, <4>2
    <3> QED
      BY <2>3, <3>1, <3>2 DEF Resolve
  <2>4. CASE Match(g)
    <3>1. \E pc, s : Matched(g, pc, s)
      BY <2>4 DEF Match
    <3>2. ASSUME NEW pc, NEW s, Matched(g, pc, s) PROVE RowKnown(g)'
      <4>1. CASE handler' = [handler EXCEPT ![g].pc = pc, ![g].session = s,
                                             ![g].insert = "inbound"]
        BY <1>1, <4>1 DEF RowKnown, HandlerType
      <4>2. ASSUME NEW k \in Redelivered(g),
                   handler' = [handler EXCEPT ![g].pc = pc, ![g].session = s, ![g].known = k]
            PROVE  RowKnown(g)'
        <5>1. handler'[g].transfer = handler[g].transfer /\ handler'[g].known = k
          BY <1>1, <4>2 DEF HandlerType
        <5>2. k \in Keys /\ row[<<handler[g].transfer, k>>] # "none" /\ UNCHANGED row
          BY <2>4 DEF Redelivered, Known, Match
        <5> QED
          BY <2>2, <5>1, <5>2
      <4> QED
        BY <3>2, <4>1, <4>2 DEF Matched
    <3> QED
      BY <3>1, <3>2
  <2>5. CASE ReadLink(g) \/ (CheckStuck(g) /\ Goto(g, "read"))
    <3>1. /\ handler[g].pc \in {"check", "read"} /\ UNCHANGED row
          /\ handler'[g].transfer = handler[g].transfer
          /\ handler'[g].known = handler[g].known
          /\ handler'[g].insert = handler[g].insert
      BY <1>1, <2>5 DEF ReadLink, CheckStuck, Goto, HandlerType
    <3> QED
      BY <1>1, <3>1 DEF RowKnown, Entry
  <2> QED
    BY <1>3, <2>1, <2>3, <2>4, <2>5, <2>6, HandlerPlaces
<1>4. ASSUME NEW h \in Handlers, Proceed(h) \/ Crash(h) PROVE RowKnown(g)'
  BY <1>2, <1>3, <1>4, HandlerFrame
<1>5. ASSUME NEW h \in Handlers, Take(h)
      PROVE  RowKnown(g)'
  <2>1. CASE g = h
    BY <1>5, <2>1, TakeFrame DEF RowKnown
  <2> QED
    BY <1>2, <1>5, <2>1, TakeFrame
<1>6. CASE UNCHANGED handler
  BY <1>2, <1>6
<1> QED
  BY <1>4, <1>5, <1>6
     DEF Next, StartCheckout, Provision, ProvisionFails, ReturnDeposit, Deposit,
     PayTreasury, ExpireLink, vars

ConfirmInv == ConfirmedHasCredit /\ \A h \in Handlers : RowKnown(h)

LEMMA ConfirmStep == TypeInv /\ ConfirmInv /\ [Next]_vars => ConfirmInv'
<1> SUFFICES ASSUME TypeInv, ConfirmInv, [Next]_vars PROVE ConfirmInv'
  OBVIOUS
<1>1. \A h \in Handlers : RowKnown(h)'
  BY RowKnownStep DEF ConfirmInv
<1>2. ASSUME NEW s \in Sessions, session'[s].status = "CONFIRMED"
      PROVE  session'[s].tx \in DOMAIN transfers' /\ TxOf(s)' \in Entries
  <2>1. TypeInv'
    BY TypeStep
  <2>2. SessionOK(session[s], Len(transfers))' /\ Len(transfers)' \in Nat
        /\ DOMAIN transfers' = 1..Len(transfers)'
    BY <2>1 DEF TypeInv, SessionsOK, ChainOK
  <2> QED
    BY <1>2, <2>2, BoundsAssumption DEF SessionOK, SessionType, Transfers, TxOf, Entries
<1>3. ASSUME NEW s \in Sessions, session[s].status = "CONFIRMED",
             session'[s].tx = session[s].tx, session'[s].known = session[s].known,
             session'[s].status = "CONFIRMED"
      PROVE  (row[TxOf(s)] # "none" /\ Credited(TxOf(s)))'
  <2> PICK e \in Entries : e = TxOf(s) /\ e = TxOf(s)'
    BY <1>2, <1>3 DEF TxOf
  <2>1. row[e] # "none" /\ Credited(e)
    BY <1>3 DEF ConfirmInv, ConfirmedHasCredit
  <2>2. row'[e] # "none" /\ credits'[e] = credits[e]
    BY <2>1, RowsFrame, CreditsFrame
  <2> QED
    BY <1>3, <2>1, <2>2 DEF Credited
<1>4. ASSUME NEW h \in Handlers, Confirm(h), NEW s \in Sessions, s = handler[h].session
      PROVE  (row[TxOf(s)] # "none" /\ Credited(TxOf(s)))'
  <2> PICK e \in Entries : e = Entry(h) /\ TxOf(s)' = e
    BY <1>4, SettledBy DEF Entry, TxOf
  <2>1. handler[h].insert # "none" \/ row[e] # "none"
    BY <1>4 DEF ConfirmInv, RowKnown, Confirm
  <2>2. row'[e] # "none"
    BY <1>4, <2>1 DEF Confirm, InsertRow, TypeInv, RowsOK
  <2>3. credits'[e] # << >>
    <3>1. Committing(h) /\ Credit(h, LinkOf[handler[h].session])
      BY <1>4 DEF Confirm, Committing
    <3> QED
      BY <3>1, CreditWrites
  <2> QED
    BY <2>2, <2>3 DEF Credited
<1>5. ASSUME NEW s \in Sessions, session'[s].status = "CONFIRMED"
      PROVE  (row[TxOf(s)] # "none" /\ Credited(TxOf(s)))'
  <2>1. CASE \E h \in Handlers : Confirm(h) \/ Park(h)
    BY <1>3, <1>4, <1>5, <2>1, SettledBy
  <2>2. CASE \A h \in Handlers : ~Confirm(h) /\ ~Park(h)
    BY <1>3, <1>5, <2>2, SessionFrame DEF Kept
  <2> QED
    BY <2>1, <2>2
<1> QED
  BY <1>1, <1>2, <1>5 DEF ConfirmInv, ConfirmedHasCredit

\* A session is CONFIRMED only together with the row and the credit of its
\* transfer: link_settlement's ConfirmedHasCredit.
THEOREM ConfirmsCredited == Spec => []ConfirmedHasCredit
<1>1. Init => ConfirmInv
  BY DEF Init, ConfirmInv, ConfirmedHasCredit, NoSessionYet, RowKnown, IdleHandler
<1>2. ConfirmInv => ConfirmedHasCredit
  BY DEF ConfirmInv
<1> QED
  BY <1>1, <1>2, ConfirmStep, TypeInvariant, PTL DEF Spec

-----------------------------------------------------------------------------
(* The counters of a link. *)

LEMMA LinksFrame ==
  ASSUME TypeInv, [Next]_vars, \A h \in Handlers : ~Confirm(h), NEW l \in Links
  PROVE  link'[l].payments = link[l].payments /\ link'[l].useCount = link[l].useCount
<1>1. link \in [Links -> LinkType] /\ link[l] \in LinkType
  BY DEF TypeInv, LinksOK
<1>2. ASSUME NEW k \in Links, ExpireLink(k)
      PROVE  link'[l].payments = link[l].payments /\ link'[l].useCount = link[l].useCount
  BY <1>1, <1>2 DEF ExpireLink, LinkType
<1>3. ASSUME NEW h \in Handlers, Proceed(h), ~Confirm(h) PROVE UNCHANGED link
  BY <1>3 DEF Proceed, Park, CreditDefault, Sweep, SweepFails, SweepUnanswered, Resolve,
     Lookup, CheckStuck, Match, MatchFails, ReadLink, Abort, Refund, RefundFails,
     DebitRefund
<1>4. ASSUME NEW h \in Handlers, Take(h)
      PROVE  UNCHANGED link
  BY <1>4 DEF Take, Claim, FindStuck, ReceiveInbound
<1> QED
  BY <1>2, <1>3, <1>4
     DEF Next, StartCheckout, Provision, ProvisionFails, ReturnDeposit, Deposit,
     PayTreasury, Crash, vars

\* What Confirm does to its link and to the others.
LEMMA ConfirmCounts ==
  ASSUME TypeInv, NEW h \in Handlers, Confirm(h), NEW k \in Links
  PROVE  IF k = LinkOf[handler[h].session]
         THEN /\ link'[k].payments = link[k].payments + 1
              /\ link'[k].useCount = handler[h].uses + 1
         ELSE link'[k] = link[k]
<1>1. handler[h].session \in Sessions /\ handler[h] \in HandlerType
  BY BusyHandler DEF Confirm, About, Pcs
<1> PICK l \in Links : l = LinkOf[handler[h].session]
  BY <1>1, LinksAssumption
<1> PICK uses \in Nat : uses = handler[h].uses
  BY <1>1 DEF HandlerType
<1>2. link[l] \in LinkType /\ link \in [Links -> LinkType]
  BY DEF TypeInv, LinksOK
<1> DEFINE open == link[l].active /\ ~Exhausted(l, uses + 1)
           r == [Counted(link[l], uses) EXCEPT !.active = open]
<1>3. link' = [link EXCEPT ![l] = r]
  BY Zenon DEF Confirm
<1>4. r.payments = link[l].payments + 1 /\ r.useCount = uses + 1
  <2> HIDE DEF open
  <2> PICK x \in LinkType : x = link[l]
    BY <1>2
  <2> PICK n \in Nat : n = uses + 1
    OBVIOUS
  <2>1. Counted(x, uses) = [x EXCEPT !.useCount = n, !.payments = x.payments + 1]
    BY DEF Counted
  <2>2. x = [active |-> x.active, useCount |-> x.useCount, payments |-> x.payments]
    BY DEF LinkType
  <2>3. Counted(x, uses) = [active |-> x.active, useCount |-> n,
                            payments |-> x.payments + 1]
    BY <2>1, <2>2
  <2> QED
    BY <2>3
<1> HIDE DEF r
<1> QED
  BY <1>2, <1>3, <1>4

CountOK(l) ==
  /\ IsFiniteSet(Confirmed(l))
  /\ Cardinality(Confirmed(l)) <= link[l].payments
  /\ link[l].useCount <= link[l].payments

\* What a commit has read of its link is not ahead of the payments either.
UsesKnown(h) ==
  handler[h].pc = "commit" =>
    handler[h].uses <= link[LinkOf[handler[h].session]].payments

CountInv == (\A l \in Links : CountOK(l)) /\ \A h \in Handlers : UsesKnown(h)

LEMMA PaymentsGrow ==
  ASSUME TypeInv, [Next]_vars, NEW l \in Links
  PROVE  /\ link[l].payments \in Nat /\ link'[l].payments \in Nat
         /\ link[l].payments <= link'[l].payments
<1>1. link[l].payments \in Nat
  BY DEF TypeInv, LinksOK, LinkType
<1>2. CASE \E h \in Handlers : Confirm(h)
  BY <1>1, <1>2, ConfirmCounts
<1>3. CASE \A h \in Handlers : ~Confirm(h)
  BY <1>1, <1>3, LinksFrame
<1> QED
  BY <1>2, <1>3

LEMMA CountStep ==
  ASSUME TypeInv, CountInv, [Next]_vars, NEW l \in Links
  PROVE  CountOK(l)'
<1>1. /\ CountOK(l) /\ link[l].payments \in Nat /\ link[l].useCount \in Nat
      /\ session \in [Sessions -> SessionType]
  BY DEF CountInv, TypeInv, LinksOK, LinkType, SessionsOK
<1>2. ASSUME Confirmed(l)' \subseteq Confirmed(l),
             link'[l].payments = link[l].payments, link'[l].useCount = link[l].useCount
      PROVE  CountOK(l)'
  <2>1. /\ IsFiniteSet(Confirmed(l)') /\ Cardinality(Confirmed(l)') \in Nat
        /\ Cardinality(Confirmed(l)) \in Nat
        /\ Cardinality(Confirmed(l)') <= Cardinality(Confirmed(l))
    BY <1>1, <1>2, FS_Subset, FS_CardinalityType DEF CountOK
  <2> QED
    BY <1>1, <1>2, <2>1 DEF CountOK
<1>3. ASSUME NEW h \in Handlers, Confirm(h) PROVE CountOK(l)'
  <2>1. handler[h].session \in Sessions /\ handler[h] \in HandlerType
    BY <1>3, BusyHandler DEF Confirm, About, Pcs
  <2> PICK s \in Sessions : s = handler[h].session
    BY <2>1
  <2>2. \A t \in Sessions \ {s} : session'[t] = session[t]
    BY <1>3, SettledBy
  <2>3. CASE l = LinkOf[s]
    <3> DEFINE more == Confirmed(l) \cup {s}
    <3>1. Confirmed(l)' \subseteq more
      BY <2>2 DEF Confirmed
    <3>2. /\ IsFiniteSet(more) /\ Cardinality(more) \in Nat
          /\ Cardinality(Confirmed(l)) \in Nat
          /\ Cardinality(more) <= Cardinality(Confirmed(l)) + 1
      <4>1. IsFiniteSet(Confirmed(l)) /\ Cardinality(Confirmed(l)) \in Nat
        BY <1>1, FS_CardinalityType DEF CountOK
      <4>2. /\ IsFiniteSet(more)
            /\ \/ Cardinality(more) = Cardinality(Confirmed(l))
               \/ Cardinality(more) = Cardinality(Confirmed(l)) + 1
        BY <4>1, FS_AddElement
      <4> QED
        BY <4>1, <4>2
    <3> HIDE DEF more
    <3>3. /\ IsFiniteSet(Confirmed(l)') /\ Cardinality(Confirmed(l)') \in Nat
          /\ Cardinality(Confirmed(l)') <= Cardinality(more)
      BY <3>1, <3>2, FS_Subset, FS_CardinalityType
    <3>4. handler[h].uses \in Nat /\ handler[h].uses <= link[l].payments
      BY <1>3, <2>1, <2>3 DEF CountInv, UsesKnown, Confirm, HandlerType
    <3>5. link'[l].payments = link[l].payments + 1 /\ link'[l].useCount = handler[h].uses + 1
      BY <1>3, <2>3, ConfirmCounts
    <3>6. Cardinality(Confirmed(l)') <= link'[l].payments
      BY <1>1, <3>2, <3>3, <3>5 DEF CountOK
    <3>7. link'[l].useCount <= link'[l].payments
      BY <1>1, <3>4, <3>5
    <3> QED
      BY <3>3, <3>6, <3>7 DEF CountOK
  <2>4. CASE l # LinkOf[s]
    <3>1. Confirmed(l)' \subseteq Confirmed(l)
      BY <2>2, <2>4 DEF Confirmed
    <3>2. link'[l] = link[l]
      BY <1>3, <2>4, ConfirmCounts
    <3> QED
      BY <1>2, <3>1, <3>2
  <2> QED
    BY <2>3, <2>4
<1>4. ASSUME NEW h \in Handlers, Park(h) PROVE CountOK(l)'
  <2>1. Confirmed(l)' \subseteq Confirmed(l)
    BY <1>4, SettledBy DEF Confirmed
  <2>2. UNCHANGED link
    BY <1>4 DEF Park
  <2> QED
    BY <1>2, <2>1, <2>2
<1>5. CASE \A h \in Handlers : ~Confirm(h) /\ ~Park(h)
  <2>1. Confirmed(l)' \subseteq Confirmed(l)
    BY <1>5, SessionFrame DEF Confirmed, Kept
  <2> QED
    BY <1>2, <1>5, <2>1, LinksFrame
<1> QED
  BY <1>3, <1>4, <1>5

LEMMA UsesStep ==
  ASSUME TypeInv, CountInv, [Next]_vars, NEW g \in Handlers
  PROVE  UsesKnown(g)'
<1>1. handler[g] \in HandlerType /\ handler \in [Handlers -> HandlerType]
  BY DEF TypeInv, HandlersOK
<1>2. ASSUME handler'[g] = handler[g] PROVE UsesKnown(g)'
  <2>1. CASE handler[g].pc = "commit"
    <3>1. handler[g].session \in Sessions
      BY <2>1, BusyHandler DEF About, Pcs
    <3> PICK l \in Links : l = LinkOf[handler[g].session]
      BY <3>1, LinksAssumption
    <3>2. handler[g].uses <= link[l].payments /\ handler[g].uses \in Nat
      BY <1>1, <2>1 DEF CountInv, UsesKnown, HandlerType
    <3>3. handler[g].uses <= link'[l].payments
      BY <3>2, PaymentsGrow
    <3> QED
      BY <1>2, <3>3 DEF UsesKnown
  <2> QED
    BY <1>2, <2>1 DEF UsesKnown
<1>3. ASSUME ReadLink(g) PROVE UsesKnown(g)'
  <2>1. handler[g].session \in Sessions
    BY <1>3, BusyHandler DEF ReadLink, About, Pcs
  <2> PICK l \in Links : l = LinkOf[handler[g].session]
    BY <2>1, LinksAssumption
  <2>2. /\ handler'[g].uses = link[l].useCount
        /\ handler'[g].session = handler[g].session /\ UNCHANGED link
    BY <1>1, <1>3 DEF ReadLink, HandlerType
  <2>3. link[l].useCount <= link[l].payments
    BY DEF CountInv, CountOK
  <2> QED
    BY <2>2, <2>3 DEF UsesKnown
<1>4. ASSUME handler'[g].pc # "commit" PROVE UsesKnown(g)'
  BY <1>4 DEF UsesKnown
<1>5. ASSUME Proceed(g) \/ Crash(g) PROVE UsesKnown(g)'
  <2>1. ASSUME NEW pc, NEW s, Matched(g, pc, s), pc # "commit"
        PROVE  handler'[g].pc # "commit"
    BY <1>1, <2>1 DEF Matched, HandlerType
  <2>2. CASE Match(g)
    BY <1>4, <2>1, <2>2 DEF Match
  <2>3. CASE Lookup(g) \/ Resolve(g) \/ Goto(g, "read")
    BY <1>1, <1>4, <2>3 DEF Lookup, Resolve, Goto, HandlerType
  <2> QED
    BY <1>3, <1>4, <1>5, <2>2, <2>3, HandlerPlaces
<1>6. ASSUME NEW h \in Handlers, Proceed(h) \/ Crash(h) PROVE UsesKnown(g)'
  BY <1>2, <1>5, <1>6, HandlerFrame
<1>7. ASSUME NEW h \in Handlers, Take(h)
      PROVE  UsesKnown(g)'
  <2>1. CASE g = h
    BY <1>4, <1>7, <2>1, TakeFrame
  <2> QED
    BY <1>2, <1>7, <2>1, TakeFrame
<1>8. CASE UNCHANGED handler
  BY <1>2, <1>8
<1> QED
  BY <1>6, <1>7, <1>8
     DEF Next, StartCheckout, Provision, ProvisionFails, ReturnDeposit, Deposit,
     PayTreasury, ExpireLink, vars

\* However the commits of a link's sessions interleave with the reads of its
\* useCount, its payments counter misses none, and useCount never runs ahead
\* of it: link_settlement's NothingUncounted.
THEOREM CountsAll == Spec => []NothingUncounted
<1>1. Init => CountInv
  <2> SUFFICES ASSUME Init PROVE CountInv
    OBVIOUS
  <2>1. ASSUME NEW l \in Links PROVE CountOK(l)
    <3>1. Confirmed(l) = {}
      BY DEF Init, Confirmed, NoSessionYet
    <3>2. IsFiniteSet(Confirmed(l)) /\ Cardinality(Confirmed(l)) = 0
      BY <3>1, FS_EmptySet
    <3>3. link[l].payments = 0 /\ link[l].useCount = 0
      BY DEF Init, FreshLink
    <3> QED
      BY <3>2, <3>3 DEF CountOK
  <2>2. \A h \in Handlers : UsesKnown(h)
    BY DEF Init, UsesKnown, IdleHandler
  <2> QED
    BY <2>1, <2>2 DEF CountInv
<1>2. TypeInv /\ CountInv /\ [Next]_vars => CountInv'
  BY CountStep, UsesStep DEF CountInv
<1>3. CountInv => NothingUncounted
  BY DEF CountInv, CountOK, NothingUncounted
<1> QED
  BY <1>1, <1>2, <1>3, TypeInvariant, PTL DEF Spec

-----------------------------------------------------------------------------
(* What a transfer brought is what its bucket is credited. *)

\* Who may move money, and how much of it.
Made(r) ==
  \/ r.from \in Sessions /\ r.to = Treasury /\ r.amount = AmountExpected[r.from]
  \/ Operators /\ r.from \in Sessions /\ r.to = Outside
  \/ r.from = Outside /\ r.to \in Sessions
  \/ Strangers /\ r.from = Outside /\ r.to = Treasury
  \/ r.from = Treasury

LEMMA MoveAppends ==
  ASSUME TypeInv, NEW r \in TransferType, Move(r.from, r.to, r.amount)
  PROVE  transfers' = Append(transfers, r)
<1>1. r = [from |-> r.from, to |-> r.to, amount |-> r.amount]
  BY DEF TransferType
<1> QED
  BY <1>1 DEF Move

\* A step leaves the chain alone, or adds one transfer to it.
LEMMA ChainStep ==
  ASSUME TypeInv, [Next]_vars
  PROVE  \/ UNCHANGED transfers
         \/ \E r \in TransferType : Made(r) /\ transfers' = Append(transfers, r)
<1> DEFINE Done == \E r \in TransferType : Made(r) /\ transfers' = Append(transfers, r)
<1>1. ASSUME NEW s \in Sessions, ReturnDeposit(s) PROVE Done
  <2>1. held[s] \in Nat \ {0}
    BY <1>1, NamesAssumption DEF ReturnDeposit, TypeInv, ChainOK, Wallets
  <2> DEFINE r == [from |-> s, to |-> Outside, amount |-> held[s]]
  <2>2. r \in TransferType /\ Made(r)
    BY <1>1, <2>1 DEF TransferType, Wallets, Made, ReturnDeposit
  <2>3. transfers' = Append(transfers, r)
    BY <1>1 DEF ReturnDeposit, Move
  <2> QED
    BY <2>2, <2>3
<1>2. ASSUME NEW s \in Sessions, NEW amount \in Amounts, Deposit(s, amount) PROVE Done
  <2> DEFINE r == [from |-> Outside, to |-> s, amount |-> amount]
  <2>1. r \in TransferType /\ Made(r)
    BY AmountsAssumption DEF TransferType, Wallets, Made
  <2>2. transfers' = Append(transfers, r)
    BY <1>2 DEF Deposit, Move
  <2> QED
    BY <2>1, <2>2
<1>3. ASSUME NEW amount \in Amounts, PayTreasury(amount) PROVE Done
  <2> DEFINE r == [from |-> Outside, to |-> Treasury, amount |-> amount]
  <2>1. r \in TransferType /\ Made(r)
    BY <1>3, AmountsAssumption DEF TransferType, Wallets, Made, PayTreasury
  <2>2. transfers' = Append(transfers, r)
    BY <1>3 DEF PayTreasury, Move
  <2> QED
    BY <2>1, <2>2
<1>4. ASSUME NEW h \in Handlers, Sweep(h) PROVE Done
  <2> PICK s \in Sessions : s = handler[h].session
    BY <1>4, BusyHandler DEF Sweep, About, Pcs
  <2> DEFINE r == [from |-> s, to |-> Treasury, amount |-> AmountExpected[s]]
  <2>1. r \in TransferType /\ Made(r)
    BY AmountsAssumption DEF TransferType, Wallets, Made
  <2>2. transfers' = Append(transfers, r)
    BY <1>4 DEF Sweep, Exact, Move
  <2> QED
    BY <2>1, <2>2
<1>5. ASSUME NEW h \in Handlers, Refund(h) PROVE Done
  <2> PICK s \in Sessions : s = handler[h].session
    BY <1>5, BusyHandler DEF Refund, About, Pcs
  <2> DEFINE i == session[s].tx
  <2>1. session[s].status = "WRONG_AMOUNT_REFUNDED"
    BY <1>5 DEF Refund
  <2>2. i \in DOMAIN transfers
    BY <2>1, BoundsAssumption
       DEF TypeInv, SessionsOK, SessionOK, SessionType, Transfers, ChainOK
  <2>3. transfers[i] \in TransferType
    BY <2>2 DEF TypeInv, ChainOK
  <2> DEFINE r == [from |-> Treasury, to |-> transfers[i].from, amount |-> transfers[i].amount]
  <2>4. r \in TransferType /\ Made(r)
    BY <2>1, <2>3 DEF TransferType, Wallets, Made
  <2>5. transfers' = Append(transfers, r)
    BY <1>5 DEF Refund, Move
  <2> QED
    BY <2>4, <2>5
<1>6. ASSUME NEW h \in Handlers, Proceed(h), ~Sweep(h), ~Refund(h)
      PROVE  UNCHANGED transfers
  BY <1>6 DEF Proceed, SweepFails, SweepUnanswered, Lookup, Resolve, CheckStuck, Match,
     MatchFails, ReadLink, Confirm, Park, CreditDefault, Abort, RefundFails, DebitRefund
<1>7. ASSUME NEW h \in Handlers, Take(h)
      PROVE  UNCHANGED transfers
  BY <1>7 DEF Take, Claim, FindStuck, ReceiveInbound
<1> HIDE DEF Done
<1>8. UNCHANGED transfers \/ Done
  BY <1>1, <1>2, <1>3, <1>4, <1>5, <1>6, <1>7
     DEF Next, StartCheckout, Provision, ProvisionFails, ExpireLink, Crash, vars
<1> QED
  BY <1>8 DEF Done

\* What was transferred stays transferred; what is new was made by this step.
LEMMA ChainGrows ==
  ASSUME TypeInv, [Next]_vars
  PROVE  /\ \A i \in DOMAIN transfers :
              i \in DOMAIN transfers' /\ transfers'[i] = transfers[i]
         /\ \A i \in DOMAIN transfers' : i \notin DOMAIN transfers => Made(transfers'[i])
<1>1. transfers \in Seq(TransferType)
  BY DEF TypeInv, ChainOK
<1>2. CASE UNCHANGED transfers
  BY <1>2
<1>3. ASSUME NEW r \in TransferType, Made(r), transfers' = Append(transfers, r)
      PROVE  /\ \A i \in DOMAIN transfers :
                  i \in DOMAIN transfers' /\ transfers'[i] = transfers[i]
             /\ \A i \in DOMAIN transfers' :
                  i \notin DOMAIN transfers => transfers'[i] = r
  BY <1>1, <1>3
<1> QED
  BY <1>2, <1>3, ChainStep

\* The statements that work on a transfer, from the sweep or the notice to the
\* credit.
Arrivals == {"lookup", "resolve", "check", "match", "read", "commit", "park", "credit"}

\* What leaves a deposit wallet is its sweep or a return.
FromSessions ==
  \A i \in DOMAIN transfers : transfers[i].from \in Sessions =>
    Brought(i, AmountExpected[transfers[i].from])

KnowsAmount(h) ==
  handler[h].pc \in Arrivals => Brought(handler[h].transfer, handler[h].amount)

BroughtInv == FromSessions /\ (\A h \in Handlers : KnowsAmount(h)) /\ CreditsBrought

LEMMA BroughtStays ==
  ASSUME TypeInv, [Next]_vars, NEW i \in DOMAIN transfers, NEW amount, Brought(i, amount)
  PROVE  i \in DOMAIN transfers' /\ Brought(i, amount)'
<1>1. i \in DOMAIN transfers' /\ transfers'[i] = transfers[i]
  BY ChainGrows
<1>2. Brought(i, amount)'
  BY <1>1 DEF Brought, Returned
<1> QED
  BY <1>1, <1>2

LEMMA FromSessionsStep ==
  ASSUME TypeInv, [Next]_vars, FromSessions
  PROVE  FromSessions'
<1> SUFFICES ASSUME NEW i \in DOMAIN transfers', transfers'[i].from \in Sessions
             PROVE  Brought(i, AmountExpected[transfers[i].from])'
  BY DEF FromSessions
<1>1. CASE i \in DOMAIN transfers
  BY <1>1, ChainGrows DEF FromSessions, Brought, Returned
<1>2. CASE i \notin DOMAIN transfers
  BY <1>2, ChainGrows, NamesAssumption DEF Made, Brought, Returned
<1> QED
  BY <1>1, <1>2

\* A handler that is at work on a transfer was, or has just swept it.
LEMMA SameTransfer ==
  ASSUME TypeInv, NEW h \in Handlers, Proceed(h) \/ Crash(h), handler'[h].pc \in Arrivals
  PROVE  \/ Sweep(h)
         \/ /\ handler[h].pc \in Arrivals
            /\ handler'[h].transfer = handler[h].transfer
            /\ handler'[h].amount = handler[h].amount
            /\ Match(h) \/ handler'[h].session = handler[h].session
<1>1. handler[h] \in HandlerType /\ handler \in [Handlers -> HandlerType]
  BY DEF TypeInv, HandlersOK
<1>2. CASE Lookup(h) \/ Resolve(h) \/ ReadLink(h) \/ (CheckStuck(h) /\ Goto(h, "read"))
  <2>1. handler[h].pc \in Arrivals
    BY <1>2 DEF Lookup, Resolve, ReadLink, CheckStuck, Arrivals
  <2>2. CASE Lookup(h)
    BY <1>1, <2>1, <2>2 DEF Lookup, HandlerType
  <2>3. CASE Resolve(h)
    BY <1>1, <2>1, <2>3 DEF Resolve, Goto, HandlerType
  <2>4. CASE ReadLink(h) \/ Goto(h, "read")
    BY <1>1, <2>1, <2>4 DEF ReadLink, Goto, HandlerType
  <2> QED
    BY <1>2, <2>2, <2>3, <2>4
<1>3. CASE Match(h)
  <2>1. handler[h].pc = "match" /\ \E pc, s : Matched(h, pc, s)
    BY <1>3 DEF Match
  <2>2. ASSUME NEW pc, NEW s, Matched(h, pc, s)
        PROVE  /\ handler'[h].transfer = handler[h].transfer
               /\ handler'[h].amount = handler[h].amount
    BY <1>1, <2>2 DEF Matched, HandlerType
  <2> QED
    BY <1>3, <2>1, <2>2 DEF Arrivals
<1> QED
  BY <1>2, <1>3, HandlerPlaces DEF Arrivals

LEMMA SweepMade ==
  ASSUME TypeInv, NEW h \in Handlers, Sweep(h)
  PROVE  /\ handler'[h].transfer \in DOMAIN transfers'
         /\ transfers'[handler'[h].transfer] =
              [from |-> handler[h].session, to |-> Treasury, amount |-> handler[h].amount]
         /\ handler'[h].amount = handler[h].amount
         /\ handler'[h].session = handler[h].session
<1>1. handler[h] \in HandlerType /\ handler \in [Handlers -> HandlerType]
  BY DEF TypeInv, HandlersOK
<1>2. transfers \in Seq(TransferType)
  BY DEF TypeInv, ChainOK
<1>3. /\ handler'[h].transfer = Len(transfers) + 1
      /\ handler'[h].amount = handler[h].amount
      /\ handler'[h].session = handler[h].session
  BY <1>1 DEF Sweep, HandlerType
<1> DEFINE r == [from |-> handler[h].session, to |-> Treasury, amount |-> handler[h].amount]
<1>4. transfers' = Append(transfers, r)
  BY DEF Sweep, Move
<1> HIDE DEF r
<1>5. Len(transfers) + 1 \in DOMAIN transfers' /\ transfers'[Len(transfers) + 1] = r
  BY <1>2, <1>4
<1> QED
  BY <1>3, <1>5 DEF r

LEMMA KnowsAmountStep ==
  ASSUME TypeInv, [Next]_vars, FromSessions, \A h \in Handlers : KnowsAmount(h),
         NEW g \in Handlers
  PROVE  KnowsAmount(g)'
<1>1. handler \in [Handlers -> HandlerType] /\ transfers \in Seq(TransferType)
  BY DEF TypeInv, HandlersOK, ChainOK
<1>2. ASSUME handler[g].pc \in Arrivals, handler'[g].transfer = handler[g].transfer,
             handler'[g].amount = handler[g].amount
      PROVE  KnowsAmount(g)'
  <2> PICK i, amount : i = handler[g].transfer /\ amount = handler[g].amount
    OBVIOUS
  <2>1. i \in DOMAIN transfers
    BY <1>2, BusyHandler DEF Arrivals, Located, Pcs
  <2>2. Brought(i, amount)
    BY <1>2 DEF KnowsAmount
  <2>3. Brought(i, amount)'
    BY <2>1, <2>2, BroughtStays
  <2> QED
    BY <1>2, <2>3 DEF KnowsAmount, Brought, Returned
<1>3. ASSUME handler'[g] = handler[g] PROVE KnowsAmount(g)'
  BY <1>2, <1>3 DEF KnowsAmount
<1>4. ASSUME Proceed(g) \/ Crash(g) PROVE KnowsAmount(g)'
  <2>1. CASE Sweep(g)
    <3>1. /\ transfers'[handler'[g].transfer] =
               [from |-> handler[g].session, to |-> Treasury, amount |-> handler[g].amount]
          /\ handler'[g].amount = handler[g].amount
      BY <2>1, SweepMade
    <3>2. /\ transfers'[handler'[g].transfer].to = Treasury
          /\ transfers'[handler'[g].transfer].amount = handler'[g].amount
      BY <3>1
    <3> QED
      BY <3>2 DEF KnowsAmount, Brought
  <2>2. CASE handler'[g].pc \in Arrivals /\ ~Sweep(g)
    BY <1>2, <1>4, <2>2, SameTransfer
  <2> QED
    BY <2>1, <2>2 DEF KnowsAmount
<1>5. ASSUME NEW h \in Handlers, Take(h)
      PROVE  KnowsAmount(g)'
  <2>1. CASE g # h
    BY <1>3, <1>5, <2>1, TakeFrame
  <2>2. CASE g = h /\ Claims(h)
    <3>1. handler'[g].pc = "sweep"
      BY <1>1, <2>2 DEF Claims, Claim, IdleHandler
    <3> QED
      BY <3>1 DEF KnowsAmount, Arrivals
  <2>3. ASSUME g = h, NEW i \in DOMAIN transfers, NEW hashed \in NoticeHashes,
               FindStuck(h, i, hashed)
        PROVE  KnowsAmount(g)'
    <3>1. /\ handler'[g].transfer = i /\ transfers[i].from \in Sessions
          /\ handler'[g].amount = AmountExpected[transfers[i].from]
          /\ UNCHANGED transfers
      BY <1>1, <2>3 DEF FindStuck, IdleHandler
    <3> QED
      BY <3>1 DEF KnowsAmount, FromSessions, Brought, Returned
  <2>4. ASSUME g = h, NEW i \in DOMAIN transfers, NEW hashed \in NoticeHashes,
               ReceiveInbound(h, i, hashed)
        PROVE  KnowsAmount(g)'
    <3>1. /\ handler'[g].transfer = i /\ transfers[i].to = Treasury
          /\ handler'[g].amount = transfers[i].amount
          /\ UNCHANGED transfers
      BY <1>1, <2>4 DEF ReceiveInbound, ForTreasury, IdleHandler
    <3> QED
      BY <3>1 DEF KnowsAmount, Brought
  <2> QED
    BY <1>5, <2>1, <2>2, <2>3, <2>4 DEF Take, Claims
<1>6. ASSUME NEW h \in Handlers, Proceed(h) \/ Crash(h) PROVE KnowsAmount(g)'
  BY <1>3, <1>4, <1>6, HandlerFrame
<1>7. CASE UNCHANGED handler
  BY <1>3, <1>7
<1> QED
  BY <1>5, <1>6, <1>7
     DEF Next, StartCheckout, Provision, ProvisionFails, ReturnDeposit, Deposit,
     PayTreasury, ExpireLink, vars

\* A transfer that had no credit gets the amount that the handler committing it
\* knows.
LEMMA CreditAdds ==
  ASSUME TypeInv, [Next]_vars, NEW e \in Entries
  PROVE  \/ credits'[e] = credits[e]
         \/ \E h \in Handlers : \E account :
              /\ Committing(h) /\ Entry(h) = e
              /\ credits'[e] = <<[account |-> account, amount |-> handler[h].amount]>>
<1>1. credits \in [Entries -> Seq(CreditType)]
  BY DEF TypeInv, LedgerOK
<1>2. ASSUME NEW h \in Handlers, NEW account, Committing(h), Credit(h, account)
      PROVE  \/ credits'[e] = credits[e]
             \/ /\ Entry(h) = e
                /\ credits'[e] = <<[account |-> account, amount |-> handler[h].amount]>>
  <2> DEFINE c == [account |-> account, amount |-> handler[h].amount]
  <2>1. Entry(h) \in Entries
    BY <1>2, BusyHandler DEF Committing, Located, Pcs
  <2>2. credits' = IF Credited(Entry(h)) THEN credits
                   ELSE [credits EXCEPT ![Entry(h)] = Append(credits[Entry(h)], c)]
    BY <1>2 DEF Credit
  <2> HIDE DEF c
  <2>3. Append(<< >>, c) = <<c>>
    OBVIOUS
  <2>4. credits'[e] = credits[e] \/ (Entry(h) = e /\ credits'[e] = <<c>>)
    BY <1>1, <2>1, <2>2, <2>3 DEF Credited
  <2> QED
    BY <2>4 DEF c
<1>3. ASSUME NEW h \in Handlers, Confirm(h) \/ Park(h) \/ CreditDefault(h)
      PROVE  \E account : Credit(h, account) /\ Committing(h)
  BY <1>3 DEF Confirm, Park, CreditDefault, Committing
<1>4. CASE UNCHANGED credits
  BY <1>4
<1>5. ASSUME NEW h \in Handlers, Proceed(h), ~Confirm(h), ~Park(h), ~CreditDefault(h)
      PROVE  UNCHANGED credits
  BY <1>5 DEF Proceed, Sweep, SweepFails, SweepUnanswered, Lookup, Resolve, CheckStuck,
     Match, MatchFails, ReadLink, Abort, Refund, RefundFails, DebitRefund
<1>6. ASSUME NEW h \in Handlers, Take(h)
      PROVE  UNCHANGED credits
  BY <1>6 DEF Take, Claim, FindStuck, ReceiveInbound
<1> QED
  BY <1>2, <1>3, <1>4, <1>5, <1>6
     DEF Next, StartCheckout, Provision, ProvisionFails, ReturnDeposit, Deposit,
     PayTreasury, ExpireLink, Crash, vars

LEMMA CreditsBroughtStep ==
  ASSUME TypeInv, [Next]_vars, BroughtInv
  PROVE  CreditsBrought'
<1> SUFFICES ASSUME NEW e \in Entries, NEW n \in DOMAIN credits'[e]
             PROVE  e[1] \in DOMAIN transfers' /\ Brought(e[1], credits[e][n].amount)'
  BY DEF CreditsBrought, Entries
<1> PICK amount, i : amount = credits'[e][n].amount /\ i = e[1]
  OBVIOUS
<1>1. i \in DOMAIN transfers /\ Brought(i, amount)
  <2>1. CASE credits'[e] = credits[e]
    BY <2>1 DEF BroughtInv, CreditsBrought, Entries
  <2>2. ASSUME NEW h \in Handlers, NEW account, Committing(h), Entry(h) = e,
               credits'[e] = <<[account |-> account, amount |-> handler[h].amount]>>
        PROVE  i \in DOMAIN transfers /\ Brought(i, amount)
    <3>1. n = 1 /\ amount = handler[h].amount /\ i = handler[h].transfer
      BY <2>2 DEF Entry
    <3>2. i \in DOMAIN transfers
      BY <2>2, <3>1, BusyHandler DEF Committing, Located, Pcs
    <3> QED
      BY <2>2, <3>1, <3>2 DEF BroughtInv, KnowsAmount, Committing, Arrivals
  <2> QED
    BY <2>1, <2>2, CreditAdds
<1>2. i \in DOMAIN transfers' /\ Brought(i, amount)'
  BY <1>1, BroughtStays
<1> QED
  BY <1>2 DEF Brought, Returned

LEMMA BroughtInvariant == Spec => []BroughtInv
<1>1. Init => BroughtInv
  <2> SUFFICES ASSUME Init PROVE BroughtInv
    OBVIOUS
  <2>1. FromSessions
    BY DEF Init, FromSessions
  <2>2. \A h \in Handlers : KnowsAmount(h)
    BY DEF Init, KnowsAmount, IdleHandler, Arrivals
  <2>3. CreditsBrought
    BY DEF Init, CreditsBrought
  <2> QED
    BY <2>1, <2>2, <2>3 DEF BroughtInv
<1>2. TypeInv /\ BroughtInv /\ [Next]_vars => BroughtInv'
  BY FromSessionsStep, KnowsAmountStep, CreditsBroughtStep DEF BroughtInv
<1> QED
  BY <1>1, <1>2, TypeInvariant, PTL DEF Spec

\* With strangers and operators: a credit is what its transfer brought to the
\* treasury, unless the transfer returned a deposit by hand.
THEOREM CreditsBroughtOrReturned == Spec => []CreditsBrought
  BY BroughtInvariant, PTL DEF BroughtInv

-----------------------------------------------------------------------------
(* A confirmed session was paid its price. *)

\* Where a handler settles a session, the amount is the session's.
KnowsPrice(h) ==
  handler[h].pc \in {"lookup", "resolve", "check", "read", "commit"} =>
    handler[h].amount = AmountExpected[handler[h].session]

\* A confirmed session's transfer brought its price.
SettledFor(s) ==
  session[s].status = "CONFIRMED" => Brought(session[s].tx, AmountExpected[s])

PaidInv == (\A h \in Handlers : KnowsPrice(h)) /\ \A s \in Sessions : SettledFor(s)

LEMMA SettledTx ==
  ASSUME TypeInv, NEW s \in Sessions, session[s].status = "CONFIRMED"
  PROVE  session[s].tx \in DOMAIN transfers
  BY BoundsAssumption DEF TypeInv, SessionsOK, SessionOK, SessionType, Transfers, ChainOK

LEMMA KnowsPriceStep ==
  ASSUME TypeInv, [Next]_vars, \A h \in Handlers : KnowsPrice(h), NEW g \in Handlers
  PROVE  KnowsPrice(g)'
<1>1. handler \in [Handlers -> HandlerType] /\ handler[g] \in HandlerType /\ KnowsPrice(g)
  BY DEF TypeInv, HandlersOK
<1>2. ASSUME handler'[g] = handler[g] PROVE KnowsPrice(g)'
  BY <1>1, <1>2 DEF KnowsPrice
<1>3. ASSUME Proceed(g) \/ Crash(g) PROVE KnowsPrice(g)'
  <2>1. CASE Sweep(g)
    <3>1. handler[g].amount = AmountExpected[handler[g].session]
      BY <2>1 DEF Sweep, Exact
    <3> QED
      BY <2>1, <3>1, SweepMade DEF KnowsPrice
  <2>2. CASE Match(g)
    <3>1. \E pc, s : Matched(g, pc, s) /\ (pc = "read" => s \in ExactMatches(handler[g].amount))
                       /\ pc \in {"read", "park", "credit"}
      BY <2>2 DEF Match
    <3>2. ASSUME NEW pc \in {"read", "park", "credit"}, NEW s, Matched(g, pc, s),
                 pc = "read" => s \in ExactMatches(handler[g].amount)
          PROVE  KnowsPrice(g)'
      <4>1. handler'[g].pc = pc /\ handler'[g].session = s
            /\ handler'[g].amount = handler[g].amount
        BY <1>1, <3>2 DEF Matched, HandlerType
      <4> QED
        BY <3>2, <4>1 DEF KnowsPrice, ExactMatches
    <3> QED
      BY <3>1, <3>2
  <2>3. CASE handler'[g].pc \in Arrivals /\ ~Sweep(g) /\ ~Match(g)
    <3>1. /\ handler[g].pc \in {"lookup", "resolve", "check", "read"}
          \/ handler'[g].pc \notin {"lookup", "resolve", "check", "read", "commit"}
      BY <1>1, <1>3, <2>3, HandlerPlaces DEF Lookup, Resolve, ReadLink, CheckStuck, Arrivals
    <3>2. /\ handler'[g].amount = handler[g].amount
          /\ handler'[g].session = handler[g].session
      BY <1>3, <2>3, SameTransfer
    <3> QED
      BY <1>1, <3>1, <3>2 DEF KnowsPrice
  <2> QED
    BY <2>1, <2>2, <2>3 DEF KnowsPrice, Arrivals
<1>4. ASSUME NEW h \in Handlers, Take(h)
      PROVE  KnowsPrice(g)'
  <2>1. CASE g # h
    BY <1>2, <1>4, <2>1, TakeFrame
  <2>2. CASE g = h /\ Claims(h)
    <3>1. handler'[g].pc = "sweep"
      BY <1>1, <2>2 DEF Claims, Claim, IdleHandler
    <3> QED
      BY <3>1 DEF KnowsPrice
  <2>3. ASSUME g = h, NEW i \in DOMAIN transfers, NEW hashed \in NoticeHashes,
               FindStuck(h, i, hashed)
        PROVE  KnowsPrice(g)'
    <3>1. handler'[g].amount = AmountExpected[handler'[g].session]
      BY <1>1, <2>3 DEF FindStuck, IdleHandler
    <3> QED
      BY <3>1 DEF KnowsPrice
  <2>4. ASSUME g = h, NEW i \in DOMAIN transfers, NEW hashed \in NoticeHashes,
               ReceiveInbound(h, i, hashed)
        PROVE  KnowsPrice(g)'
    <3>1. handler'[g].pc = "match"
      BY <1>1, <2>4 DEF ReceiveInbound, IdleHandler
    <3> QED
      BY <3>1 DEF KnowsPrice
  <2> QED
    BY <1>4, <2>1, <2>2, <2>3, <2>4 DEF Take, Claims
<1>5. ASSUME NEW h \in Handlers, Proceed(h) \/ Crash(h) PROVE KnowsPrice(g)'
  BY <1>2, <1>3, <1>5, HandlerFrame
<1>6. CASE UNCHANGED handler
  BY <1>2, <1>6
<1> QED
  BY <1>4, <1>5, <1>6
     DEF Next, StartCheckout, Provision, ProvisionFails, ReturnDeposit, Deposit,
     PayTreasury, ExpireLink, vars

LEMMA SettledForStep ==
  ASSUME TypeInv, BroughtInv, PaidInv, [Next]_vars, NEW s \in Sessions
  PROVE  SettledFor(s)'
<1>1. ASSUME session'[s].tx = session[s].tx,
             session'[s].status = "CONFIRMED" => session[s].status = "CONFIRMED"
      PROVE  SettledFor(s)'
  <2> PICK i : i = session[s].tx
    OBVIOUS
  <2>1. session[s].status = "CONFIRMED" => i \in DOMAIN transfers
    BY SettledTx
  <2>2. SettledFor(s)
    BY DEF PaidInv
  <2>3. i \in DOMAIN transfers => \A amount : Brought(i, amount) => Brought(i, amount)'
    BY BroughtStays
  <2>4. ASSUME session'[s].status = "CONFIRMED" PROVE Brought(i, AmountExpected[s])'
    <3> PICK amount : amount = AmountExpected[s]
      OBVIOUS
    <3>1. Brought(i, amount)'
      BY <1>1, <2>1, <2>2, <2>3, <2>4 DEF SettledFor
    <3> QED
      BY <3>1 DEF Brought, Returned
  <2> QED
    BY <1>1, <2>4 DEF SettledFor, Brought, Returned
<1>2. ASSUME NEW h \in Handlers, Confirm(h) \/ Park(h), handler[h].session = s
      PROVE  SettledFor(s)'
  <2> PICK i, amount : i = handler[h].transfer /\ amount = handler[h].amount
    OBVIOUS
  <2>1. handler[h].pc \in {"commit", "park"} /\ (Confirm(h) => handler[h].pc = "commit")
    BY <1>2 DEF Confirm, Park
  <2>2. i \in DOMAIN transfers /\ amount \in Nat
    BY <2>1, BusyHandler DEF Located, Pcs
  <2>3. Brought(i, amount)
    BY <2>1 DEF BroughtInv, KnowsAmount, Arrivals
  <2>4. Brought(i, amount)'
    BY <2>2, <2>3, BroughtStays
  <2>5. Confirm(h) => amount = AmountExpected[s]
    BY <1>2, <2>1 DEF PaidInv, KnowsPrice
  <2>6. session'[s].tx = i /\ (Park(h) => session'[s].status = "WRONG_AMOUNT_REFUNDED")
    BY <1>2, SettledBy
  <2>7. session'[s].status = "CONFIRMED" => amount = AmountExpected[s]
    BY <1>2, <2>5, <2>6
  <2> QED
    BY <2>2, <2>4, <2>6, <2>7 DEF SettledFor, Brought, Returned
<1>3. ASSUME NEW h \in Handlers, Confirm(h) \/ Park(h), handler[h].session # s
      PROVE  SettledFor(s)'
  BY <1>1, <1>3, SettledBy
<1>4. CASE \A h \in Handlers : ~Confirm(h) /\ ~Park(h)
  BY <1>1, <1>4, SessionFrame DEF Kept
<1> QED
  BY <1>2, <1>3, <1>4

LEMMA PaidInvariant == Spec => []PaidInv
<1>1. Init => PaidInv
  <2> SUFFICES ASSUME Init PROVE PaidInv
    OBVIOUS
  <2>2. \A h \in Handlers : KnowsPrice(h)
    BY DEF Init, KnowsPrice, IdleHandler
  <2>3. \A s \in Sessions : SettledFor(s)
    BY DEF Init, SettledFor, NoSessionYet
  <2> QED
    BY <2>2, <2>3 DEF PaidInv
<1>2. TypeInv /\ BroughtInv /\ PaidInv /\ [Next]_vars => PaidInv'
  <2> SUFFICES ASSUME TypeInv, BroughtInv, PaidInv, [Next]_vars PROVE PaidInv'
    OBVIOUS
  <2>2. \A h \in Handlers : KnowsPrice(h)'
    BY KnowsPriceStep DEF PaidInv
  <2>3. \A s \in Sessions : SettledFor(s)'
    BY SettledForStep
  <2> QED
    BY <2>2, <2>3 DEF PaidInv
<1> QED
  BY <1>1, <1>2, TypeInvariant, BroughtInvariant, PTL DEF Spec

\* Whatever strangers, operators and equal prices do to the match, a session is
\* CONFIRMED only by a transfer of exactly its price to the treasury, or by a
\* deposit returned by hand that the recovery took for a sweep.
THEOREM ConfirmsAtItsPrice == Spec => []ConfirmedAtItsPrice
<1>1. TypeInv /\ PaidInv => ConfirmedAtItsPrice
  BY SettledTx DEF PaidInv, SettledFor, ConfirmedAtItsPrice
<1> QED
  BY <1>1, TypeInvariant, PaidInvariant, PTL

=============================================================================
