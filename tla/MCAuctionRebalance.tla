------------------------- MODULE MCAuctionRebalance -------------------------
(***************************************************************************)
(* AuctionRebalanceModuleV1: its rebalances, and the lists of who may bid  *)
(* in them, which depend on no other state.  One of them is explored at a  *)
(* time, beside an idle other.  Two tokens, either of which can be the     *)
(* quote asset, and a precise unit of 4: supplies of a set and a fraction, *)
(* and multipliers below one.  Four bidders, updated up to two at a time.  *)
(***************************************************************************)
EXTENDS AuctionRebalance, AuctionBidders, TLC

VARIABLE subject

\* The idle one waits in its initial state: a set of both tokens, or no bidder.
ModuleInit ==
    /\ AuctionInit /\ BiddersInit
    /\ subject \in {"rebalance", "bidders"}
    /\ subject = "bidders" => \A c \in Component : contains(pos.components, c)

ModuleNext ==
    \/ subject = "rebalance" /\ AuctionNext /\ UNCHANGED <<subject, biddersVars>>
    \/ subject = "bidders" /\ BiddersNext /\ UNCHANGED <<subject, auctionVars>>

ModuleSpec == ModuleInit /\ [][ModuleNext]_<<subject, auctionVars, biddersVars>>

\* Components are interchangeable.
Symmetry == Permutations(Component)
=============================================================================
