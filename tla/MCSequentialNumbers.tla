------------------------ MODULE MCSequentialNumbers ------------------------
\* Creations and one New Year.
EXTENDS SequentialNumbers, TLC

CONSTANTS c1, c2, c3, c4

CallSymmetry == Permutations(Calls)
=============================================================================
