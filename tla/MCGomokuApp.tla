----------------------------- MODULE MCGomokuApp -----------------------------
EXTENDS GomokuApp, TLC

Symmetry == Permutations(Thread) \cup Permutations(Browser) \cup Permutations(User)
=============================================================================
