--------------------------- MODULE MCStreamingFee ---------------------------
(***************************************************************************)
(* One component, a precise unit of 10 (a rate of 1 is 10% a year) and     *)
(* accruals up to MaxElapsed years apart.                                  *)
(***************************************************************************)
EXTENDS StreamingFee
=============================================================================
