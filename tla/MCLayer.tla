------------------------------- MODULE MCLayer -------------------------------
(* Small instances of StockLayer for TLC. A behaviour has one theme:       *)
(*   buy     one public buy, both floats, every way to cancel it, a route  *)
(*           that fills, bounces or takes a cost, dust paid in for it      *)
(*   reward  a reward buy reserved ahead, funded, launched, submitted or   *)
(*           voided, its costs covered by subsidies, dust only at the hub  *)
(*   sell    a sell on both lanes next to a migration batch; the switches  *)
(*           only a buy reads (vault float, halted mints) are left alone   *)
(*   pair    a buy and a sell that share the two floats, both on, with     *)
(*           nobody else moving money                                      *)
EXTENDS StockLayer

CONSTANTS PairBuy, PairSell   \* the orders of the pair

VARIABLE theme

\* Room for every order of an instance at once.
WideLimits == [lRun |-> 6, uRun |-> 40, totalCap |-> 40]
MCKeys == PublicBuys \cup RewardBuys \cup Sells \cup Migrations
MCRefs == PublicBuys \cup RewardBuys \cup Sells
NoLimitChoices == {}

MCLayerInit ==
  /\ LayerInit
  /\ theme \in {"buy", "reward", "sell", "pair"}
  /\ theme = "pair" => floatEnabled /\ vaultFloat
  /\ theme = "sell" => vaultFloat

OrdersOf ==
  CASE theme = "buy" -> PublicBuys \ {PairBuy}
    [] theme = "reward" -> RewardBuys
    [] theme = "sell" -> Sells \ {PairSell}
    [] theme = "pair" -> {PairBuy, PairSell}

OnlyTheirOrders ==
  /\ \A i \in Ids \ OrdersOf :
       hub'.order[i].status = "None" /\ book'.tickets[i].state = "None" /\ paidIn'[i] = 0
  /\ theme # "sell" => \A n \in DOMAIN results' : results'[n].ref \notin Migrations

\* Strangers pay in at the vault or at the hub, and cover the costs of reward orders.
Subsidized ==
  {i \in Ids : Order(i).status # "None" /\ hub'.order[i].extra > Order(i).extra}
GiftsOnOneSide ==
  IF theme = "reward" THEN UNCHANGED donated
  ELSE Subsidized = {} /\ \A i \in Ids : Gifts(i)' <= 1

\* Only the orders, their money and their answers.
Undisturbed ==
  /\ UNCHANGED <<floatEnabled, vaultFloat, mintsHalted>>
  /\ hub'.accruedFees >= hub.accruedFees
  /\ hub'.native < hub.native => hub'.order # hub.order
  /\ UNCHANGED giftVars
  /\ checkpointed' # checkpointed => Len(results) = 2

\* Mints may still be halted by an answer that does not match.
BuySwitchesLeft ==
  /\ UNCHANGED <<vaultFloat, floatEnabled>>
  /\ mintsHalted' # mintsHalted => reconciled' # reconciled

MCLayerNext ==
  /\ LayerNext
  /\ OnlyTheirOrders /\ GiftsOnOneSide
  /\ theme = "sell" => BuySwitchesLeft
  /\ theme = "buy" => UNCHANGED <<floatEnabled, vaultFloat>>
  /\ theme = "reward" => (mintsHalted' # mintsHalted => reconciled' # reconciled)
  /\ theme = "pair" => Undisturbed
  /\ UNCHANGED theme

MCLayerSpec == MCLayerInit /\ [][MCLayerNext]_<<layerVars, theme>>
=============================================================================
