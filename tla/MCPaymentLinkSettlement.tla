---------------------- MODULE MCPaymentLinkSettlement ----------------------
(***************************************************************************)
(* Small instances: one or two sessions, of one link or of two.            *)
(***************************************************************************)
EXTENDS PaymentLinkSettlement, TLC

CONSTANTS s1, s2, l1, l2, h1, h2

\* Two sessions of one link.
MCOneLink == (s1 :> l1 @@ s2 :> l1)
\* Two links, one session each.
MCTwoLinks == (s1 :> l1 @@ s2 :> l2)
MCOneSession == (s1 :> l1)

\* One price, or a price per link.
MCSamePrice == [s \in Sessions |-> 1]
MCTwoPrices == (s1 :> 1 @@ s2 :> 2)

MCPriceTwo == [s \in Sessions |-> 2]

MCUnlimited == [l \in Links |-> NoLimit]
MCSingleUse == [l \in Links |-> 1]

Symmetric == Permutations(Handlers)

\* The sessions of one link at one price are alike too.
AllSymmetric == Permutations(Handlers) \cup Permutations(Sessions)
=============================================================================
