--------------------------- MODULE MCSearchIndex ---------------------------
EXTENDS SearchIndex
=============================================================================
