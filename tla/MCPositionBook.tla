--------------------------- MODULE MCPositionBook ---------------------------
(* Model-checking instances of PositionBook. *)
EXTENDS PositionBook, TLC

\* Deals are interchangeable: no operator tells one from another.
DealSymmetry == Permutations(Deals)
=============================================================================
