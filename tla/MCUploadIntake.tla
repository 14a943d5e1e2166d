--------------------------- MODULE MCUploadIntake ---------------------------
EXTENDS UploadIntake, TLC
Symmetry == Permutations(Workers) \cup Permutations(Clients)
=============================================================================
