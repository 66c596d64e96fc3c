----------------------------- MODULE MCLeverage -----------------------------
(***************************************************************************)
(* A set of an aToken and a borrow asset with a precise unit of 3.  An     *)
(* asset lent is worth as much as a collateral, or twice that.             *)
(***************************************************************************)
EXTENDS Leverage

MCAaveValue == {v \in [Component -> {1, 2}] : \A a \in Collateral : v[a] = 1}
=============================================================================
