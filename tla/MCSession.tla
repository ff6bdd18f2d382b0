------------------------------ MODULE MCSession -------------------------------
EXTENDS Session
=============================================================================
