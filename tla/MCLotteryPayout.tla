-------------------------- MODULE MCLotteryPayout --------------------------
(***************************************************************************)
(* Every list of one or two prizes of up to three slots.                   *)
(***************************************************************************)
EXTENDS LotteryPayout

CONSTANTS MaxAmount, MaxPrizeSlots

PointPrize ==
    [delivery : {"point"}, pointMode : {"fixed", "split", "random"},
     pointAmount : 1 .. MaxAmount, slots : 1 .. MaxPrizeSlots]

Goods == [delivery : {"manual"}, pointMode : {""}, pointAmount : {0}, slots : {1, 2}]

MCPrizeLists ==
    {<<p>> : p \in PointPrize} \cup {<<p, q>> : p \in Goods, q \in PointPrize}
      \cup {<<p, q>> : p \in {x \in PointPrize : x.slots = 2},
                       q \in {x \in PointPrize : x.slots = 1}}

=============================================================================
