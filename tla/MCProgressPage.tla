--------------------------- MODULE MCProgressPage ---------------------------
EXTENDS ProgressPage

CONSTANTS l1, l2
=============================================================================
