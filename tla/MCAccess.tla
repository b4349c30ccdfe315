---------------------------- MODULE MCAccess ----------------------------
EXTENDS Access, TLC

RequestSymmetry == Permutations(Requests)
=============================================================================
