------------------------------ MODULE StockLayer ------------------------------
(***************************************************************************)
(* The stock layer: the hub on Arc and the vault on the reserve chain,     *)
(* joined by the channels between them.                                    *)
(*                                                                         *)
(*   fast lane       order messages and results over LayerZero; they may   *)
(*                   be delayed for ever, reordered or repeated            *)
(*   money route     each transfer arrives once, whole or less a cost, at  *)
(*                   the other end or back where it came from              *)
(*   canonical lane  deliveries (CCTP and a retryable ticket, which may be *)
(*                   re-created) and checkpoints of the vault's log        *)
(*                                                                         *)
(* Each step is a step of the hub or of the vault, or of both channels'    *)
(* ends when money arrives.                                                *)
(***************************************************************************)
EXTENDS StockHub, ReserveVault

CONSTANTS
  Costs,       \* what the money route may take from a transfer
  LossBound,   \* the most the route takes from one transfer
  HubDust,     \* amounts anyone may credit to an order through the route
  TopUpBound   \* bound: what strangers add to an order on the hub

VARIABLES
  resolved,   \* outbound transfers that were filled or bounced
  credited,   \* inbound transfers that reached the hub
  topUps,     \* history: what strangers added to an order on the hub
  donated     \* history: what strangers paid in for an order on the vault

routeVars == <<resolved, credited>>
giftVars == <<topUps, donated>>
layerVars == <<hubVars, vaultVars, routeVars, giftVars>>

ASSUME LayerAssumption ==
  /\ Refs = Ids
  /\ Migrations \subseteq Keys
  /\ InitialStock = InitialSupply
  /\ Costs \subseteq 0..LossBound /\ HubDust \subseteq Nat \ {0}
  /\ LossBound \in Nat /\ 2 * LossBound <= Principal   \* isBack: far below a half
  /\ TopUpBound \in Nat

LayerInit ==
  /\ HubInit /\ VaultInit
  /\ resolved = {} /\ credited = {}
  /\ topUps = [i \in Ids |-> 0] /\ donated = [i \in Ids |-> 0]

-----------------------------------------------------------------------------
(* The channels.                                                           *)

FastResult(r) ==
  /\ r \in lzSent
  /\ ReceiveResult(r)
  /\ UNCHANGED <<vaultVars, routeVars, giftVars>>

\* A result is provable once a checkpoint covers it.
ProvenResult(n) ==
  /\ n <= checkpointed
  /\ Reconcile(results[n])
  /\ UNCHANGED <<vaultVars, routeVars, giftVars>>

\* The route's solver pays the vault for the order, or the money comes back.
Fill(i) ==
  /\ i \in transfersSent \ resolved
  /\ Fund(i, Principal)
  /\ resolved' = resolved \cup {i}
  /\ UNCHANGED <<hubVars, credited, giftVars>>

Bounce(i, cost) ==
  /\ i \in transfersSent \ resolved
  /\ ReceiveReturn(i, Principal - cost)
  /\ resolved' = resolved \cup {i}
  /\ UNCHANGED <<vaultVars, credited, giftVars>>

Credit(t, cost) ==
  /\ t \in returnsSent \ credited
  /\ t.amount > cost
  /\ ReceiveReturn(t.ref, t.amount - cost)
  /\ credited' = credited \cup {t}
  /\ UNCHANGED <<vaultVars, resolved, giftVars>>

\* Strangers: a call that the route's executor forwards, a subsidy, money for a ref.
ToppedUp(i, amount) ==
  /\ topUps[i] + amount <= TopUpBound
  /\ topUps' = [topUps EXCEPT ![i] = @ + amount]
  /\ UNCHANGED <<vaultVars, routeVars, donated>>

CreditDust(i, amount) ==
  /\ Order(i).status # "None"
  /\ ReceiveReturn(i, amount)
  /\ ToppedUp(i, amount)

TopUpReserve(i, amount) == Subsidize(i, amount) /\ ToppedUp(i, amount)

Donation(r, amount) ==
  /\ donated[r] + amount <= PaidBound
  /\ Fund(r, amount)
  /\ donated' = [donated EXCEPT ![r] = @ + amount]
  /\ UNCHANGED <<hubVars, routeVars, topUps>>

VaultStep ==
  \/ \E o \in lzOrdersSent : ReceiveOrder(o)
  \/ \E r \in Refs : ExecuteFunded(r) \/ ReturnFunds(r) \/ ClaimUsd(r) \/ ClaimStock(r)
  \/ Checkpoint
  \/ \E d \in deliversSent : Deliver(d)
  \/ \E m \in Migrations : MigrateIn(m)
  \/ "vaultFloat" \in AdminActs /\ \E b \in BOOLEAN : SetVaultFloat(b)

LayerNext ==
  \/ HubStep /\ UNCHANGED <<vaultVars, routeVars, giftVars>>
  \/ VaultStep /\ UNCHANGED <<hubVars, routeVars, giftVars>>
  \/ \E r \in lzSent : FastResult(r)
  \/ \E n \in DOMAIN results : ProvenResult(n)
  \/ \E i \in Buys : Fill(i)
  \/ \E i \in Buys, cost \in Costs : Bounce(i, cost)
  \/ \E t \in returnsSent, cost \in Costs : Credit(t, cost)
  \/ \E i \in Ids, amount \in HubDust : CreditDust(i, amount)
  \/ \E i \in Ids, amount \in Subsidies : TopUpReserve(i, amount)
  \/ \E r \in Refs, amount \in FundAmounts : Donation(r, amount)

LayerSpec == LayerInit /\ [][LayerNext]_layerVars

-----------------------------------------------------------------------------
(* Properties.                                                             *)

ResultOf(i) == {n \in DOMAIN results : results[n].ref = i}
SoldOnVault(i) == \E n \in ResultOf(i) : results[n].outcome = "Sold"

\* Every share is backed by one the reserve holds for Arc: what circulates, what was
\* burned for sells the vault has not executed, and what the vault bought and the
\* hub has not minted yet add up to the entitlement, in every state between.
EveryShareBacked ==
  LET burned == {i \in Sells : /\ Order(i).status # "None" /\ Order(i).outcome # 3
                               /\ ~SoldOnVault(i)}
      unminted == {n \in DOMAIN results :
                     /\ results[n].outcome = "Bought"
                     /\ IF results[n].ref \in Ids THEN Order(results[n].ref).outcome # 1
                                                  ELSE results[n].ref \notin reconciled}
      bought == [n \in DOMAIN results |-> results[n].amountOut]
  IN entitled = hub.supply + SharesIn * Cardinality(burned) + SumFunctionOnSet(bought, unminted)

\* The hub never acts on anything but the vault's one answer, and finds no dispute
\* between the lanes, in whatever order the answers arrive.
HubAgreesWithVault ==
  \A i \in Ids :
    /\ Order(i).outcome # 0 => \E n \in ResultOf(i) : Matches(i, results[n])
    /\ ~Order(i).disputed

\* What the user of order i has received, or can take, on the two chains.
ReturnsOf(i) == {t \in returnsSent : t.ref = i}
Transferred(T) == SumFunctionOnSet([t \in T |-> t.amount], T)
SpentAtVenue(i) ==
  IF \E n \in ResultOf(i) : results[n].outcome = "Bought" THEN Principal ELSE 0
TakenOnVault(i) == paidOut[i] - Transferred(ReturnsOf(i)) - SpentAtVenue(i)
Gifts(i) == topUps[i] + donated[i]
Received(i) == Order(i).paid + Order(i).owed + TakenOnVault(i) + owedUsd[i]

\* Nobody is paid twice for one order, whichever of the two floats advanced it and
\* whichever lanes answered: besides what strangers gave, a buyer gets back at most what
\* was sent in for the order, a seller at most what the venue paid for the stock, and a
\* seller whose shares came back has no part of the sale.  A buyer never has both the
\* stock and the principal: next to shares there is only unused reserve, and what the
\* treasury could not be sent (_pay books it as the order's).
PaidOnce ==
  /\ \A i \in PublicBuys :
       /\ Received(i) <= Principal + BuyFee + Extra + Gifts(i)
       /\ Order(i).shares > 0 => Received(i) <= Extra + Gifts(i) + Order(i).late
  /\ \A i \in Sells :
       /\ Received(i) <= topUps[i] + paidIn[i]
       /\ Order(i).shares > 0 => Received(i) <= Gifts(i) /\ ~SoldOnVault(i)

\* A reward order ends with its stock in custody or its whole principal refundable,
\* never with both and never with a part: the manager's round counts on it.
RewardIsStockOrRefund ==
  \A i \in RewardBuys :
    LET o == Order(i)
    IN /\ o.status = "Filled" => o.shares + o.custodyRaw = o.amountOut /\ o.paid + o.refundReady = 0
       /\ o.status = "Cancelled" => o.shares + o.custodyRaw = 0 /\ o.paid + o.refundReady = Principal

\* A public buy that was cancelled has its principal with the user, or on its way:
\* held by the vault, on the route, or owed.  The route's costs are the only loss.
CancelledBuyIsWhole ==
  \A i \in PublicBuys :
    Order(i).status = "Cancelled" =>
      LET outbound == IF i \in transfersSent \ resolved THEN Principal ELSE 0
          inbound == Transferred(ReturnsOf(i) \ credited)
      IN /\ Order(i).shares = 0
         /\ Received(i) + outbound + inbound + funding[i] + proceeds[i] + LossBound
              >= Principal

\* The documentation of escalateFunds (SolonStockHub.sol:302): a buy the float already
\* refunded and the vault never answered can still be closed on the vault over the
\* canonical lane.
RefundedBuyIsEscalatable ==
  \A i \in PublicBuys :
    Order(i).advanced /\ Order(i).status = "Cancelled" /\ Order(i).outcome = 0 =>
      ENABLED EscalateFunds(i)

\* The reservation of a buy lasts until the vault's answer: while its principal may
\* be spent by the vault, cap room is kept for the stock it may become.
ReservedUntilAnswered ==
  \A i \in Buys :
    i \in transfersSent /\ Order(i).outcome = 0 =>
      book.tickets[i].state = "Reserved" /\ book.tickets[i].sent

=============================================================================
