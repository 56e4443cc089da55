----------------------------- MODULE MCMinicron -----------------------------
EXTENDS Minicron, TLC

\* Runs are interchangeable.
Symmetry == Permutations(Runs)
=============================================================================
