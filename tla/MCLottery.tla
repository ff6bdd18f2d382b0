----------------------------- MODULE MCLottery -----------------------------
(***************************************************************************)
(* Small instances of Lottery.                                             *)
(***************************************************************************)
EXTENDS Lottery

CONSTANTS u1, u2, u3

MCRank == [u \in Users |-> CASE u = u1 -> 1 [] u = u2 -> 2 [] u = u3 -> 3]

(* One code; two codes; goods and three points; two shares of four points. *)
MCSlots == [p \in Plans |-> IF p = "single" THEN 1 ELSE 2]

MCDelivery == [p \in Plans |->
    CASE p \in {"single", "codes"} -> <<"code", "code">>
      [] p = "mixed"               -> <<"manual", "point">>
      [] p = "pool"                -> <<"point", "point">>]

MCBudget == [p \in Plans |->
    CASE p \in {"single", "codes"} -> 0 [] p = "mixed" -> 3 [] p = "pool" -> 4]

MCPaid == [p \in Plans |-> [n \in 0 .. 2 |->
    CASE p = "mixed" -> IF n = 2 THEN 3 ELSE 0
      [] p = "pool"  -> IF n > 0 THEN 4 ELSE 0
      [] OTHER       -> 0]]
=============================================================================
