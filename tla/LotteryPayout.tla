--------------------------- MODULE LotteryPayout ---------------------------
(***************************************************************************)
(* The points of one draw, from the budget the author is charged to the    *)
(* amount on every winner's entry: slots, stampPointPayouts, pointPayouts  *)
(* and escrowRefund.  stampPointPayouts goes through the prizes in the     *)
(* order a Go map yields them, so Stamp takes them in any order.           *)
(***************************************************************************)
EXTENDS Naturals, FiniteSets, Sequences, SequencesExt, Functions

CONSTANTS
    PrizeLists,  \* sequences of [delivery, pointMode, pointAmount, slots]
    Weights,     \* pointWeight: a positive hash of seed, prize and user
    BudgetLimit  \* lotteryPointBudgetLimit

ASSUME PayoutConstantsOK ==
    /\ PrizeLists \subseteq
          Seq([delivery : {"code", "manual", "point"},
               pointMode : {"", "fixed", "split", "random"},
               pointAmount : Nat, slots : Nat])
    /\ Weights \subseteq Nat \ {0} /\ BudgetLimit \in Nat

VARIABLES
    prizes,   \* the stored prize list
    weight,   \* weight[i]: the i-th ranked winner's share of a random pool
    awarded,  \* awarded[i]: the i-th winner's point_awarded
    left,     \* prizes whose winners are not stamped yet
    escrow, refund, drawn

vars == <<prizes, weight, awarded, left, escrow, refund, drawn>>

-----------------------------------------------------------------------------
IsPointPool(m) == m \in {"split", "random"}

(* Fault: a fixed prize is charged once, not once for every slot.           *)
PrizePointBudgetOnce(p) == p.pointAmount

PrizePointBudget(p) ==
    IF IsPointPool(p.pointMode) THEN p.pointAmount ELSE p.pointAmount * p.slots

PlanBudget(ps) ==
    SumFunction([i \in DOMAIN ps |->
        IF ps[i].delivery = "point" THEN PrizePointBudget(ps[i]) ELSE 0])

(* The winners' slots in ranking order, each the index of its prize.       *)
SlotList(ps) == FlattenSeq([i \in DOMAIN ps |-> [k \in 1 .. ps[i].slots |-> i]])

(* planPrizes and validateShape on what a stored list may hold.            *)
PlanOK(ps) ==
    /\ PlanBudget(ps) <= BudgetLimit
    /\ \A i \in DOMAIN ps :
          /\ ps[i].slots >= 1
          /\ IF ps[i].delivery # "point"
             THEN ps[i].pointAmount = 0
             ELSE IsPointPool(ps[i].pointMode) => ps[i].pointAmount >= ps[i].slots

(* The place of winner i among those of its prize, best ranked first.      *)
Place(group, i) == Cardinality({j \in group : j <= i})

EqualShares(amount, group) ==
    LET n == Cardinality(group)
    IN  [i \in group |-> (amount \div n) + (IF Place(group, i) <= amount % n THEN 1 ELSE 0)]

(* Fault: what the division left over goes to the first winner whole.      *)
LuckySharesTopHeavy(amount, w) ==
    LET group == DOMAIN w
        rest  == amount - Cardinality(group)
        share == [i \in group |-> (rest * w[i]) \div SumFunction(w)]
        over  == rest - SumFunction(share)
    IN  [i \in group |-> 1 + share[i] + (IF Place(group, i) = 1 THEN over ELSE 0)]

(* One point each while there are enough, the rest by weight, and what the *)
(* division leaves over one point at a time to the best ranked.            *)
LuckyShares(amount, w) ==
    LET group == DOMAIN w
        n     == Cardinality(group)
        floor == IF amount < n THEN 0 ELSE 1
        rest  == amount - floor * n
        share == [i \in group |-> (rest * w[i]) \div SumFunction(w)]
        over  == rest - SumFunction(share)
    IN  [i \in group |-> floor + share[i] + (IF Place(group, i) <= over THEN 1 ELSE 0)]

PointPayouts(p, w) ==
    CASE p.pointMode = "split"  -> EqualShares(p.pointAmount, DOMAIN w)
      [] p.pointMode = "random" -> LuckyShares(p.pointAmount, w)
      [] OTHER                  -> [i \in DOMAIN w |-> p.pointAmount]

(* The winners of prize p: slot i belongs to winner i.                     *)
Group(p) == {i \in DOMAIN weight : SlotList(prizes)[i] = p}

Paid == SumFunction(awarded)

-----------------------------------------------------------------------------
Init ==
    /\ prizes \in {ps \in PrizeLists : PlanOK(ps)}
    /\ weight \in UNION {[1 .. n -> Weights] : n \in 0 .. Len(SlotList(prizes))}
    /\ awarded = [i \in DOMAIN weight |-> 0]
    /\ left = {p \in DOMAIN prizes : prizes[p].delivery = "point" /\ Group(p) # {}}
    /\ escrow = PlanBudget(prizes) /\ refund = 0 /\ drawn = FALSE

(* Fault: the amounts are worked out for every winner of the draw.         *)
StampUngrouped(p) ==
    /\ p \in left
    /\ LET amount == PointPayouts(prizes[p], weight)
       IN  awarded' = [i \in DOMAIN weight |->
               IF i \in Group(p) THEN amount[i] ELSE awarded[i]]
    /\ left' = left \ {p}
    /\ UNCHANGED <<prizes, weight, escrow, refund, drawn>>

(* One iteration of stampPointPayouts.                                     *)
Stamp(p) ==
    /\ p \in left
    /\ LET amount == PointPayouts(prizes[p], [i \in Group(p) |-> weight[i]])
       IN  awarded' = [i \in DOMAIN weight |->
               IF i \in Group(p) THEN amount[i] ELSE awarded[i]]
    /\ left' = left \ {p}
    /\ UNCHANGED <<prizes, weight, escrow, refund, drawn>>

Refund ==
    /\ left = {} /\ ~drawn
    /\ refund' = IF escrow <= Paid THEN 0 ELSE escrow - Paid
    /\ drawn' = TRUE
    /\ UNCHANGED <<prizes, weight, awarded, left, escrow>>

Next == (\E p \in DOMAIN prizes : Stamp(p)) \/ Refund

Spec == Init /\ [][Next]_vars

-----------------------------------------------------------------------------
(* Properties *)

(* What the author was charged is what the winners and the author get: the *)
(* payouts never exceed the escrow, so the clamp in escrowRefund is unused.*)
BudgetCoversPayouts == drawn => Paid + refund = escrow

(* A pool is spent to the last point whoever is left to share it.          *)
PoolSpentExactly ==
    drawn => \A p \in DOMAIN prizes :
        prizes[p].delivery = "point" /\ IsPointPool(prizes[p].pointMode)
            /\ Group(p) # {}
        => SumFunctionOnSet(awarded, Group(p)) = prizes[p].pointAmount

(* Two winners of one prize: the better ranked is at most one point behind *)
(* a winner drawn no heavier, and an even split differs by at most one.    *)
SharesFollowDraw ==
    drawn => \A i, j \in DOMAIN weight :
        i < j /\ SlotList(prizes)[i] = SlotList(prizes)[j] =>
            LET p == prizes[SlotList(prizes)[i]] IN
            /\ p.pointMode = "split" => awarded[i] - awarded[j] \in {0, 1}
            /\ p.pointMode = "random" =>
                  /\ weight[i] >= weight[j] => awarded[i] >= awarded[j]
                  /\ weight[i] <= weight[j] => awarded[i] <= awarded[j] + 1

=============================================================================
