------------------------- MODULE MCEventDispatcher -------------------------
EXTENDS EventDispatcher, TLC
Symmetry == Permutations(Emitters) \union Permutations(Keys)
=============================================================================
