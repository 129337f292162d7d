--------------------------- MODULE MCProgressStore ---------------------------
EXTENDS ProgressStore, TLC

MCSymmetry == Permutations(Writers) \cup Permutations(Evidence)
=============================================================================
