------------------------------ MODULE MCPollVote ------------------------------
EXTENDS PollVote, TLC

Symmetry == Permutations(Users) \cup Permutations(Options) \cup Permutations(Requests)
=============================================================================
