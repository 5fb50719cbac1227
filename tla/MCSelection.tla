----------------------------- MODULE MCSelection -----------------------------
(* Model-checking instances of Selection. *)
EXTENDS Selection, TLC

\* A single rolling position, a basket opened in series, a wallet-bounded
\* ranker with its fallback target.
MCStrategies ==
    {[target |-> 1, wallet |-> FALSE, flat |-> FALSE],
     [target |-> 2, wallet |-> FALSE, flat |-> TRUE],
     [target |-> 1, wallet |-> TRUE, flat |-> FALSE]}
OneRolling == {[target |-> 1, wallet |-> FALSE, flat |-> FALSE]}

Symmetry == Permutations(Epics) \cup Permutations(Selectors)
            \cup Permutations(Reverters)
=============================================================================
