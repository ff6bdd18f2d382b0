-------------------------- MODULE MCLotteryFloors --------------------------
EXTENDS LotteryFloors, TLC

(* Every second floor, or the two first; the second does not fit one slot. *)
MCRules == {[every |-> 2, list |-> <<>>], [every |-> 0, list |-> <<2, 1>>]}

(* Readers are compared with the author and with one another only, editors *)
(* are not compared at all.                                                *)
Symmetry == Permutations(Readers) \cup Permutations(Editors)

=============================================================================
