---------------------------- MODULE MCMergeLedger ---------------------------
EXTENDS MergeLedger, TLC
=============================================================================
