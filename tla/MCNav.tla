------------------------------- MODULE MCNav -------------------------------
EXTENDS NavGraph, TLC

\* The root of two is cut to one; one point is above another.
MCPoints == {<<0, 0, 0>>, <<1, 1, 0>>, <<1, 0, 3>>}

Symmetry == Permutations(Graphs)

=============================================================================
