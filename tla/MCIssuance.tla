----------------------------- MODULE MCIssuance -----------------------------
(***************************************************************************)
(* A set of up to two components with a precise unit of 2: half of the     *)
(* products round, and a fee rate of 1 is 50%.                             *)
(***************************************************************************)
EXTENDS Issuance, TLC

\* Components are interchangeable.
Symmetry == Permutations(Component)
=============================================================================
