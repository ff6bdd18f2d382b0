------------------------------ MODULE MCOutbox ------------------------------
EXTENDS Outbox, TLC

Symmetry == Permutations(Keys)

=============================================================================
