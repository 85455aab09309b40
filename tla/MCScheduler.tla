----------------------------- MODULE MCScheduler -----------------------------
(* Small instances of OrderScheduler for TLC.                              *)
EXTENDS OrderScheduler, TLC

MCKeys == PublicBuys \cup RewardBuys

\* Room for two public orders and a reward order of 2, or for every order.
TightLimits == [lRun |-> 2, uRun |-> 6, totalCap |-> 6]
WideLimits == [lRun |-> 2, uRun |-> 20, totalCap |-> 20]
Lowered == {[lRun |-> 1, uRun |-> 6, totalCap |-> 6]}
NoLimitChoices == {}

\* Orders of one lane are interchangeable.
LaneSymmetry == Permutations(PublicBuys) \cup Permutations(RewardBuys)
=============================================================================
