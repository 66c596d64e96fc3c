----------------------------- MODULE MCSetToken -----------------------------
(***************************************************************************)
(* With a precise unit of 4 and multipliers around it most conversions     *)
(* round.                                                                  *)
(***************************************************************************)
EXTENDS SetToken, TLC

SignedUnits == {-3, 0, 1, 5}

\* Components are interchangeable, and so are modules that write alike.
Symmetry ==
    Permutations(Component) \union Permutations(UnitWriter)
      \union Permutations(Module \ UnitWriter)
=============================================================================
