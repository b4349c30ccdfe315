---------------------------- MODULE MCPlayer ----------------------------
EXTENDS Player
=============================================================================
