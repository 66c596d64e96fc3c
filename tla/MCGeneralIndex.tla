--------------------------- MODULE MCGeneralIndex ---------------------------
(***************************************************************************)
(* One component besides WETH and a precise unit of 4: supplies of a set   *)
(* and a fraction, and multipliers below one.                              *)
(***************************************************************************)
EXTENDS GeneralIndex
=============================================================================
