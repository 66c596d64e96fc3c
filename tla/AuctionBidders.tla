--------------------------- MODULE AuctionBidders ---------------------------
(***************************************************************************)
(* Who may bid in AuctionRebalanceModuleV1 for one set.  Solidity cannot   *)
(* clear a mapping, so the module keeps beside the allow list an array of  *)
(* the bidders it has to clear when the set removes the module.            *)
(***************************************************************************)
EXTENDS AddressArrayUtils

CONSTANTS Bidder,           \* addresses that may be allowed to bid
          BatchSize         \* bound on the pairs in one setBidderStatus

ASSUME BiddersAssumption == BatchSize \in Nat

VARIABLES initialized,          \* the set has initialized the module
          bidAllowList,         \* permissionInfo[set]: bidAllowList,
          biddersHistory,       \*   biddersHistory,
          isAnyoneAllowedToBid  \*   isAnyoneAllowedToBid

biddersVars == <<initialized, bidAllowList, biddersHistory, isAnyoneAllowedToBid>>

BiddersInit ==
    /\ initialized = FALSE
    /\ bidAllowList = [b \in Bidder |-> FALSE]
    /\ biddersHistory = <<>>
    /\ isAnyoneAllowedToBid = FALSE

Initialize ==
    /\ ~ initialized
    /\ initialized' = TRUE
    /\ UNCHANGED <<bidAllowList, biddersHistory, isAnyoneAllowedToBid>>

-----------------------------------------------------------------------------

\* Faulty: removes the last entry instead of the bidder's.
historyPopped(history, bidder, status) ==
    IF status /\ ~ contains(history, bidder) THEN Append(history, bidder)
    ELSE IF ~ status /\ contains(history, bidder) THEN SubSeq(history, 1, Len(history) - 1)
    ELSE history

updateBiddersHistory(history, bidder, status) ==
    IF status /\ ~ contains(history, bidder) THEN Append(history, bidder)
    ELSE IF ~ status /\ contains(history, bidder) THEN removeStorage(history, bidder)
    ELSE history

\* One turn of the loop in setBidderStatus.
updateBidder(state, pair) ==
    [allowed |-> [state.allowed EXCEPT ![pair[1]] = pair[2]],
     history |-> updateBiddersHistory(state.history, pair[1], pair[2])]

\* The pairs in the order of the arrays, which hold no bidder twice.
SetBidderStatus(pairs) ==
    LET after[i \in 0..Len(pairs)] ==
            IF i = 0 THEN [allowed |-> bidAllowList, history |-> biddersHistory]
            ELSE updateBidder(after[i - 1], pairs[i])
        new == after[Len(pairs)]
    IN  /\ initialized
        /\ ~ hasDuplicate([i \in DOMAIN pairs |-> pairs[i][1]])
        /\ bidAllowList' = new.allowed
        /\ biddersHistory' = new.history
        /\ UNCHANGED <<initialized, isAnyoneAllowedToBid>>

SetAnyoneBid(status) ==
    /\ initialized
    /\ isAnyoneAllowedToBid' = status
    /\ UNCHANGED <<initialized, bidAllowList, biddersHistory>>

\* Faulty: clears the array without going through it.
RemoveModuleKeepingList ==
    /\ initialized
    /\ initialized' = FALSE
    /\ biddersHistory' = <<>>
    /\ isAnyoneAllowedToBid' = FALSE
    /\ UNCHANGED bidAllowList

RemoveModule ==
    /\ initialized
    /\ initialized' = FALSE
    /\ bidAllowList' = [b \in Bidder |-> bidAllowList[b] /\ ~ contains(biddersHistory, b)]
    /\ biddersHistory' = <<>>
    /\ isAnyoneAllowedToBid' = FALSE

-----------------------------------------------------------------------------

BiddersNext ==
    \/ Initialize
    \/ \E n \in 1..BatchSize : \E pairs \in [1..n -> Bidder \X BOOLEAN] : SetBidderStatus(pairs)
    \/ \E status \in BOOLEAN : SetAnyoneBid(status)
    \/ RemoveModule

BiddersSpec == BiddersInit /\ [][BiddersNext]_biddersVars

\* onlyAllowedBidder.
isAllowedBidder(b) == isAnyoneAllowedToBid \/ bidAllowList[b]

-----------------------------------------------------------------------------
(* Properties.                                                              *)

\* No permission outlives the module: a set that removed it, or initialized it
\* anew, has no bidder that was not allowed since, whatever batches of updates
\* came before.
NoStalePermission == ~ initialized => \A b \in Bidder : ~ isAllowedBidder(b)

\* The array holds every allowed bidder once and no other, so the loop of
\* removeModule is no longer than the list of bidders.
HistoryExact ==
    /\ ~ hasDuplicate(biddersHistory)
    /\ \A b \in Bidder : bidAllowList[b] <=> contains(biddersHistory, b)
=============================================================================
