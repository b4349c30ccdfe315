--------------------------- MODULE MCReviewQueue ---------------------------
EXTENDS ReviewQueue
=============================================================================
