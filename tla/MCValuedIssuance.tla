-------------------------- MODULE MCValuedIssuance --------------------------
(***************************************************************************)
(* The two ways of issuing sets at a value instead of for components: at   *)
(* the net asset value, and by trading on Perp.  One of them is explored   *)
(* at a time, beside an idle other.  A precise unit of 20, and amounts and *)
(* units on both sides of it that do not divide each other, so that every  *)
(* rounding shows.                                                         *)
(***************************************************************************)
EXTENDS NAVIssuance, PerpIssuance, TLC

CONSTANTS c1, c2

VARIABLE subject

\* One component with half the decimals of the other.
MCBaseUnits == [c \in Component |-> IF c = c1 THEN 10 ELSE 20]

MCTradeUnits == {10, -10}
MCPremiumStep == {-16, 16}

\* The idle one waits in one initial state.
ValuedInit ==
    /\ NavInit /\ PerpInit
    /\ \/ subject = "nav" /\ spot = [b \in Market |-> Min(SpotPrice)]
       \/ subject = "perp" /\ pos.components = <<c1>> /\ price = [c \in Component |-> PRECISE_UNIT]

ValuedNext ==
    \/ subject = "nav" /\ NavNext /\ UNCHANGED <<subject, perpVars>>
    \/ subject = "perp" /\ PerpNext /\ UNCHANGED <<subject, navVars>>

ValuedSpec == ValuedInit /\ [][ValuedNext]_<<subject, navVars, perpVars>>

\* Markets are interchangeable.
Symmetry == Permutations(Market)
=============================================================================
