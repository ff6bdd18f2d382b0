----------------------------- MODULE MCMergeSync ----------------------------
EXTENDS MergeSync, TLC
=============================================================================
