------------------------------- MODULE StockHub -------------------------------
(***************************************************************************)
(* The hub on Arc (SolonStockHub.sol with its libraries HubSettlement and  *)
(* HubExits): the orders, the native money held for them, the STOCK.sol    *)
(* supply, the messages to the reserve chain and the two lanes of answers. *)
(*                                                                         *)
(* One listed underlying.  Money is in one unit for both chains (SCALE is  *)
(* the conversion; a principal is a whole number of units).  The delays    *)
(* CANCEL_AFTER and ESCALATE_AFTER may have passed at any time and the     *)
(* hub is never paused: both only take behaviours away.  A revert is no    *)
(* step.                                                                   *)
(*                                                                         *)
(* "hub" is one record, and each library function is an operator from hub  *)
(* to hub, so that a transaction is their composition in the code's order. *)
(***************************************************************************)
EXTENDS CapacityController, FiniteSets

CONSTANTS
  PublicBuys, RewardBuys, Sells,   \* order ids, by kind and lane
  Principal,     \* amountIn of a buy (18 dp, whole units)
  BuyFee,        \* service fee of a buy
  Extra,         \* reserve sent with a buy for route and LayerZero fees
  RouteFees,     \* fees a route quote may ask
  LzFee,         \* LayerZero fee of an order message
  SharesIn,      \* shares a sell burns
  FeeBps,        \* sell fee, in BPS
  Refusers,      \* orders whose user's address refuses native transfers
  HubFloat,      \* free native money at the start
  Subsidies,     \* amounts anyone may add to an order's reserve
  InitialSupply, \* STOCK.sol in circulation at the start
  AdminActs      \* bound: what operators do during a behaviour

Buys == PublicBuys \cup RewardBuys
Ids == Buys \cup Sells
Lane(i) == IF i \in RewardBuys THEN 1 ELSE 0
AmountIn(i) == IF i \in Buys THEN Principal ELSE SharesIn
Asset == CHOOSE a \in Assets : TRUE

ASSUME HubAssumption ==
  /\ Ids \subseteq Keys
  /\ PublicBuys \cap RewardBuys = {} /\ Buys \cap Sells = {}
  /\ Principal \in Nat \ {0} /\ SharesIn \in Nat \ {0}
  /\ BuyFee \in Nat /\ Extra \in Nat /\ LzFee \in Nat /\ HubFloat \in Nat
  /\ RouteFees \subseteq Nat /\ Subsidies \subseteq Nat \ {0}
  /\ FeeBps \in 0..BPS
  /\ Refusers \subseteq Ids
  /\ InitialSupply \in Nat
  /\ AdminActs \subseteq {"fees", "withdraw", "hubFloat", "mints", "vaultFloat"}
  /\ MinOrderUsd <= Principal /\ Principal <= InitialLimits.lRun   \* checkRun

VARIABLES
  hub,            \* orders, native money and supply
  reconciled,     \* refs proven against a checkpoint
  mintsHalted,
  floatEnabled,
  lzOrdersSent,   \* order messages ever sent to the vault
  deliversSent,   \* canonical deliveries ever sent
  transfersSent   \* orders whose principal was sent through the route

hubVars == <<hub, reconciled, mintsHalted, floatEnabled, lzOrdersSent, deliversSent,
             transfersSent, capVars>>
laneVars == <<reconciled, mintsHalted>>
sentVars == <<lzOrdersSent, deliversSent, transfersSent>>

Statuses == {"None", "Pending", "Funded", "Dispatched", "Filled", "Cancelled", "Escalated",
             "Returning", "Proceeds"}

\* outcome: 0 none, 1 Bought, 2 Sold, 3 Failed.  paid, shares and late are history: what
\* the order's user was sent here, in native money and in STOCK.sol, and what of owed
\* the treasury should have had.
NoOrder ==
  [status |-> "None", fee |-> 0, extra |-> 0, held |-> 0, owed |-> 0, amountOut |-> 0,
   rawOut |-> 0, outcome |-> 0, lzSettled |-> FALSE, cancelRequested |-> FALSE,
   disputed |-> FALSE, advanced |-> FALSE, orphaned |-> FALSE, voided |-> FALSE,
   custodyRaw |-> 0, refundReady |-> 0, paid |-> 0, shares |-> 0, late |-> 0]

\* The initial supply came from earlier migrations, which carry no USD basis.
HubInit ==
  /\ hub = [order |-> [i \in Ids |-> NoOrder], native |-> HubFloat, escrowed |-> 0,
            accruedFees |-> 0, claimableTotal |-> 0, supply |-> InitialSupply]
  /\ reconciled = {}
  /\ mintsHalted = FALSE
  /\ floatEnabled \in BOOLEAN
  /\ lzOrdersSent = {} /\ deliversSent = {} /\ transfersSent = {}
  /\ book = [EmptyBook EXCEPT !.issuedRaw[Asset] = InitialSupply]
  /\ limits = InitialLimits /\ pendingLimits = NoProposal
  /\ assetCap = [a \in Assets |-> NoCap]
  /\ pendingAssetCap = [a \in Assets |-> NoProposal]

-----------------------------------------------------------------------------
(* HubSettlement: money.                                                   *)

Order(i) == hub.order[i]

Owed(h) == h.escrowed + h.accruedFees + h.claimableTotal

\* Mutant: the float takes what is owed to claimants.
AvailableOverClaims(h) == h.native - h.escrowed - h.accruedFees

Available(h) == IF h.native > Owed(h) THEN h.native - Owed(h) ELSE 0

IsBack(got, due) == got * 2 >= due /\ got # 0

\* A transfer or a call with more native money than the hub has fails.
CanSend(h, amount) == h.native >= amount

\* _pay.  The user's address may refuse; Ops and the treasury take theirs.  What cannot
\* be sent is owed for the order, whomever it was for.
Paid(h, i, to, amount) ==
  IF ~CanSend(h, amount) \/ (to = "user" /\ i \in Refusers)
  THEN [h EXCEPT !.order[i].owed = @ + amount, !.claimableTotal = @ + amount,
                 !.order[i].late = IF to = "treasury" THEN @ + amount ELSE @]
  ELSE [h EXCEPT !.order[i].paid = IF to = "user" THEN @ + amount ELSE @,
                 !.native = @ - amount]

Beneficiary(i) == IF Lane(i) = 1 THEN "ops" ELSE "user"

\* Mutant: a late principal never goes to the buyer.
LateToTreasury(h, i, amount) ==
  IF i \in Buys /\ IsBack(amount, Principal) THEN "treasury" ELSE Beneficiary(i)

\* _lateTo.
LateTo(h, i, amount) ==
  IF i \in Buys /\ h.order[i].outcome = 1 /\ IsBack(amount, Principal)
  THEN "treasury" ELSE Beneficiary(i)

\* refundBuy: the principal never left.
BuyRefunded(h, i) ==
  LET o == h.order[i]
      amount == Principal + o.fee + o.extra + o.held
      c == [h EXCEPT !.order[i].status = "Cancelled", !.order[i].extra = 0,
                     !.order[i].held = 0, !.escrowed = @ - amount]
  IN IF Lane(i) = 1
     THEN Paid([c EXCEPT !.order[i].refundReady = Principal, !.escrowed = @ + Principal],
               i, "ops", amount - Principal)
     ELSE Paid(c, i, "user", amount)

\* _closeReturnedBuy.
ReturnedBuyClosed(h, i, force) ==
  LET o == h.order[i]
      pool == o.held + o.fee + o.extra
      c == [h EXCEPT !.order[i] = [o EXCEPT !.status = "Cancelled", !.held = 0, !.extra = 0,
                                            !.fee = 0]]
  IN IF ~force /\ ~IsBack(o.held, Principal) THEN h
     ELSE IF Lane(i) = 0 THEN Paid([c EXCEPT !.escrowed = @ - pool], i, "user", pool)
     ELSE IF pool < Principal THEN h
     ELSE Paid([c EXCEPT !.order[i].refundReady = Principal,
                         !.escrowed = @ - (pool - Principal)], i, "ops", pool - Principal)

\* _payHeldProceeds.
HeldProceedsPaid(h, i) ==
  LET o == h.order[i]
      fee == IF o.fee < o.held THEN o.fee ELSE o.held
      net == o.held - fee
  IN IF ~IsBack(o.held, o.amountOut) THEN h
     ELSE Paid([h EXCEPT !.order[i] = [o EXCEPT !.held = 0, !.fee = fee, !.amountOut = net,
                                                !.status = "Filled"],
                         !.escrowed = @ - o.held, !.accruedFees = @ + fee], i, "user", net)

\* _flushHeld.
HeldFlushed(h, i) ==
  LET held == h.order[i].held
  IN Paid([h EXCEPT !.order[i].held = 0, !.escrowed = @ - held], i, LateTo(h, i, held), held)

\* Mutant: a return of what the float advanced is paid again.
ReturnedPaysAgain(h, i, amount) ==
  LET o == h.order[i]
      g == [h EXCEPT !.native = @ + amount]
      k == [g EXCEPT !.escrowed = @ + amount, !.order[i].held = @ + amount]
  IN IF o.status = "Returning" THEN ReturnedBuyClosed(k, i, FALSE)
     ELSE IF o.status = "Proceeds" THEN HeldProceedsPaid(k, i)
     ELSE IF o.outcome = 0 /\ o.status \notin {"Filled", "Cancelled"} THEN k
     ELSE Paid(g, i, LateTo(h, i, amount), amount)

\* receiveReturn, after the money arrived.
Returned(h, i, amount) ==
  LET o == h.order[i]
      g == [h EXCEPT !.native = @ + amount]
      k == [g EXCEPT !.escrowed = @ + amount, !.order[i].held = @ + amount]
      closed == o.status \in {"Filled", "Cancelled"}
  IN IF o.advanced THEN g
     ELSE IF o.status = "Returning" THEN ReturnedBuyClosed(k, i, FALSE)
     ELSE IF o.status = "Proceeds" THEN HeldProceedsPaid(k, i)
     ELSE IF o.outcome = 0 /\ ~closed THEN k
     ELSE Paid(g, i, LateTo(h, i, amount), amount)

-----------------------------------------------------------------------------
(* HubSettlement: one result.  Each branch of settle is the next hub.      *)

\* _mint, to the order's user when "toUser".
Minted(h, i, raw, toUser) ==
  [h EXCEPT !.supply = @ + raw, !.order[i].shares = IF toUser THEN @ + raw ELSE @]

\* _markSettled on the fast lane.
LzMarked(h, i, canonical) == IF canonical THEN h ELSE [h EXCEPT !.order[i].lzSettled = TRUE]

Unanswered(i) ==
  Order(i).outcome = 0
    /\ (Order(i).status = "Dispatched" \/ (i \in Buys /\ Order(i).status = "Escalated"))

FloatCancelled(i) ==
  Order(i).status = "Cancelled" /\ Order(i).advanced /\ Order(i).outcome = 0 /\ i \in Buys

\* A buy the float refunded: the stock is real and goes to the treasury.
Orphaned(h, i, raw, canonical) ==
  LzMarked([Minted(h, i, raw, FALSE) EXCEPT !.order[i].orphaned = TRUE,
                                            !.order[i].rawOut = raw, !.order[i].outcome = 1],
           i, canonical)

BoughtApplied(h, i, raw, canonical) ==
  LET o == h.order[i]
      m == Minted(h, i, raw, Lane(i) = 0)
      filled == [m.order[i] EXCEPT !.status = "Filled", !.amountOut = raw, !.rawOut = raw,
                                   !.outcome = 1, !.extra = 0,
                                   !.custodyRaw = IF Lane(i) = 1 THEN raw ELSE @]
      c == [m EXCEPT !.order[i] = filled, !.escrowed = @ - o.fee - o.extra,
                     !.accruedFees = @ + o.fee]
  IN LzMarked(HeldFlushed(Paid(c, i, Beneficiary(i), o.extra), i), i, canonical)

\* The three ways a sale is paid: nothing owed, from what came back already, from
\* the float ("allowed": within the window allowance), or once it comes back.
SoldApplied(h, i, gross, canonical, allowed) ==
  LET fee == (gross * FeeBps) \div BPS
      net == gross - fee
      o == [h.order[i] EXCEPT !.fee = fee, !.rawOut = gross, !.outcome = 2]
      c == LzMarked([h EXCEPT !.order[i] = o], i, canonical)
      owing == [c EXCEPT !.order[i].amountOut = net, !.order[i].status = "Proceeds"]
  IN IF gross = 0 THEN HeldFlushed([c EXCEPT !.order[i].status = "Filled"], i)
     ELSE IF IsBack(o.held, net) THEN HeldProceedsPaid(owing, i)
     ELSE IF floatEnabled /\ Available(h) >= net /\ allowed
     THEN Paid([owing EXCEPT !.escrowed = @ - o.held, !.order[i].held = 0,
                             !.order[i].advanced = TRUE, !.order[i].status = "Filled",
                             !.accruedFees = @ + fee], i, "user", net)
     ELSE owing

BuyFailed(h, i, canonical) ==
  LET o == h.order[i]
      c == LzMarked([h EXCEPT !.order[i].outcome = 3, !.order[i].rawOut = 0], i, canonical)
  IN IF FloatCancelled(i) THEN c
     ELSE ReturnedBuyClosed([c EXCEPT !.order[i].status = "Returning"], i, o.status = "Escalated")

\* Mutant: the burn of a failed sell is not undone.
SellFailedBurned(h, i, canonical) ==
  LET c == [h EXCEPT !.order[i].outcome = 3, !.order[i].rawOut = 0,
                     !.order[i].status = "Cancelled"]
  IN HeldFlushed(LzMarked(c, i, canonical), i)

SellFailed(h, i, canonical) ==
  LET c == [h EXCEPT !.order[i].outcome = 3, !.order[i].rawOut = 0,
                     !.order[i].status = "Cancelled"]
  IN HeldFlushed(LzMarked(Minted(c, i, SharesIn, TRUE), i, canonical), i)

\* Whether settle applies a result; when it does not, it returns false.
Applies(i, outcome) ==
  \/ outcome = "Bought" /\ i \in Buys
       /\ (Unanswered(i) \/ (FloatCancelled(i) /\ ~Order(i).orphaned))
  \/ outcome = "Sold" /\ i \in Sells /\ Order(i).outcome = 0
       /\ Order(i).status \in {"Pending", "Dispatched", "Escalated"}
  \/ outcome = "Failed" /\ (Unanswered(i) \/ Order(i).status = "Pending" \/ FloatCancelled(i)
                            \/ (i \in Sells /\ Order(i).status = "Escalated" /\ Order(i).outcome = 0))

Settle(i, r, canonical) ==
  LET raw == r.amountOut
      done(b) == IF canonical THEN Reviewed(b, i) ELSE b
  IN /\ Applies(i, r.outcome)
     /\ reconciled' = IF canonical THEN reconciled \cup {i} ELSE reconciled
     /\ \/ /\ r.outcome = "Bought"
           /\ canonical \/ ~mintsHalted
           /\ hub' = IF FloatCancelled(i) THEN Orphaned(hub, i, raw, canonical)
                                          ELSE BoughtApplied(hub, i, raw, canonical)
           /\ book' = done(BuyFinalized(book, i, Asset, raw))
        \/ /\ r.outcome = "Sold"
           /\ \E allowed \in BOOLEAN : hub' = SoldApplied(hub, i, raw, canonical, allowed)
           /\ book' = RedeemFinalized(book, i, canonical)
        \/ /\ r.outcome = "Failed" /\ i \in Buys
           /\ hub' = BuyFailed(hub, i, canonical)
           /\ book' = Released(book, i)
        \/ /\ r.outcome = "Failed" /\ i \in Sells
           /\ hub' = SellFailed(hub, i, canonical)
           /\ book' = RedeemReverted(book, i)

-----------------------------------------------------------------------------
(* Placing and launching orders.                                           *)

\* The status change of a dispatch and the message it sends; a void asks for 0.
OrderMessage(i, amount) ==
  [ref |-> i, side |-> IF i \in Buys THEN "Buy" ELSE "Sell", amountIn |-> amount]

\* _dispatchFromReserve: the order's own reserve pays the LayerZero fee.
FeePaid(h, i) ==
  [h EXCEPT !.order[i].extra = @ - LzFee, !.escrowed = @ - LzFee, !.native = @ - LzFee]
Dispatched(h, i) == [h EXCEPT !.order[i].status = "Dispatched"]

PlacedBuy(h, i) ==
  [h EXCEPT !.order[i] = [NoOrder EXCEPT !.status = "Pending", !.fee = BuyFee, !.extra = Extra],
            !.escrowed = @ + Principal + BuyFee + Extra,
            !.native = @ + Principal + BuyFee + Extra]

RequestBuy(i) ==
  /\ i \in PublicBuys /\ Order(i).status = "None"
  /\ InRun(limits, Principal)
  /\ hub' = PlacedBuy(hub, i)
  /\ UNCHANGED <<laneVars, floatEnabled, sentVars, capVars>>

\* The RewardRoundManager reserves the capacity of a reward order ahead of it.
ReserveReward(i) ==
  /\ i \in RewardBuys /\ Order(i).status = "None"
  /\ ReserveFor(i, 1, Asset, Principal)
  /\ UNCHANGED <<hub, laneVars, floatEnabled, sentVars>>

BeginFunding(i) ==
  /\ i \in RewardBuys /\ Order(i).status = "None"
  /\ book.tickets[i].state = "Reserved" /\ ~book.tickets[i].sent
  /\ hub' = PlacedBuy(hub, i)
  /\ UNCHANGED <<laneVars, floatEnabled, sentVars, capVars>>

\* requestSell (its optional dispatch is the action Dispatch, right after).
RequestSell(i) ==
  /\ i \in Sells /\ Order(i).status = "None"
  /\ hub.supply >= SharesIn
  /\ hub' = [hub EXCEPT !.supply = @ - SharesIn, !.order[i].status = "Pending"]
  /\ book' = RedeemBegun(book, i, Asset, SharesIn)
  /\ UNCHANGED <<laneVars, floatEnabled, sentVars, governanceVars>>

\* launch.  A public buy that cannot go is refunded, a reward buy waits.
Launch(i, routeFee) ==
  LET o == Order(i)
      unfundable == \/ routeFee > o.extra
                    \/ Lane(i) = 0 /\ ~CanReserveFor(book, limits, assetCap, 0, Asset, Principal)
      sent == [hub EXCEPT !.order[i].extra = @ - routeFee, !.order[i].status = "Funded",
                          !.escrowed = @ - (Principal + routeFee),
                          !.native = @ - (Principal + routeFee)]
      atOnce == Lane(i) = 0 /\ sent.order[i].extra >= LzFee
  IN /\ i \in Buys /\ o.status = "Pending"
     /\ \/ /\ unfundable /\ Lane(i) = 0
           /\ hub' = BuyRefunded(hub, i)
           /\ UNCHANGED <<sentVars, book>>
        \/ /\ ~unfundable
           /\ CanSend(hub, Principal + routeFee + (IF atOnce THEN LzFee ELSE 0))
           /\ IF Lane(i) = 0
              THEN Reservable(book, i) /\ book' = SentMarked(Reserved(book, i, 0, Asset, Principal), i)
              ELSE book.tickets[i].state = "Reserved" /\ book' = SentMarked(book, i)
           /\ transfersSent' = transfersSent \cup {i}
           /\ hub' = IF atOnce THEN Dispatched(FeePaid(sent, i), i) ELSE sent
           /\ lzOrdersSent' = lzOrdersSent \cup (IF atOnce THEN {OrderMessage(i, Principal)} ELSE {})
           /\ UNCHANGED deliversSent
     /\ UNCHANGED <<laneVars, floatEnabled, governanceVars>>

\* dispatch: the caller pays the LayerZero fee.
Dispatch(i) ==
  /\ Order(i).status = IF i \in Buys THEN "Funded" ELSE "Pending"
  /\ hub' = Dispatched(hub, i)
  /\ lzOrdersSent' = lzOrdersSent \cup {OrderMessage(i, AmountIn(i))}
  /\ UNCHANGED <<laneVars, floatEnabled, deliversSent, transfersSent, capVars>>

SubmitFundedBuy(i) ==
  /\ i \in RewardBuys /\ Order(i).status = "Funded"
  /\ Order(i).extra >= LzFee /\ CanSend(hub, LzFee)
  /\ hub' = Dispatched(FeePaid(hub, i), i)
  /\ lzOrdersSent' = lzOrdersSent \cup {OrderMessage(i, Principal)}
  /\ UNCHANGED <<laneVars, floatEnabled, deliversSent, transfersSent, capVars>>

-----------------------------------------------------------------------------
(* Taking orders back.                                                     *)

\* cancelBuy of a queued buy.
CancelPending(i) ==
  /\ i \in PublicBuys /\ Order(i).status = "Pending"
  /\ hub' = BuyRefunded(hub, i)
  /\ UNCHANGED <<laneVars, floatEnabled, sentVars, capVars>>

\* requestCancel: the float, when it can, refunds a dispatched public buy now.
RequestCancel(i) ==
  LET o == Order(i)
      c == [hub EXCEPT !.order[i].cancelRequested = TRUE]
      byFloat == /\ floatEnabled /\ Lane(i) = 0 /\ o.status = "Dispatched" /\ o.held = 0
                 /\ Available(hub) >= Principal
  IN /\ i \in Buys /\ o.status \in {"Funded", "Dispatched"} /\ ~o.cancelRequested
     /\ hub' = IF ~byFloat THEN c
               ELSE Paid([c EXCEPT !.order[i].advanced = TRUE, !.order[i].status = "Cancelled",
                                   !.order[i].extra = 0, !.escrowed = @ - (o.fee + o.extra)],
                         i, "user", Principal + o.fee + o.extra)
     /\ UNCHANGED <<laneVars, floatEnabled, sentVars, capVars>>

CancelReward(i) ==
  /\ i \in RewardBuys /\ Order(i).status = "Pending"
  /\ book.tickets[i].state = "Reserved" /\ ~book.tickets[i].sent
  /\ hub' = BuyRefunded(hub, i)
  /\ book' = Dropped(book, i, TRUE)
  /\ UNCHANGED <<laneVars, floatEnabled, sentVars, governanceVars>>

\* voidOrder.  The fee comes from the caller, or once from the order's reserve.
VoidOrder(i, fromReserve) ==
  LET o == Order(i)
      h == IF fromReserve THEN [FeePaid(hub, i) EXCEPT !.order[i].voided = TRUE] ELSE hub
  IN /\ i \in Buys /\ o.outcome = 0
     /\ \/ o.advanced /\ o.status = "Cancelled"
        \/ /\ o.status \in {"Funded", "Dispatched"}
           /\ o.cancelRequested \/ IsBack(o.held, Principal) \/ Lane(i) = 1   \* operator
     /\ fromReserve => ~o.voided /\ o.extra >= LzFee /\ CanSend(hub, LzFee)
     /\ hub' = IF o.status = "Cancelled" THEN h ELSE Dispatched(h, i)
     /\ lzOrdersSent' = lzOrdersSent \cup {OrderMessage(i, 0)}
     /\ UNCHANGED <<laneVars, floatEnabled, deliversSent, transfersSent, capVars>>

Delivery(i, shares, mode) == [ref |-> i, shares |-> shares, mode |-> mode]

Escalate(i) ==
  /\ i \in Sells /\ Order(i).status \in {"Pending", "Dispatched"}
  /\ hub' = [hub EXCEPT !.order[i].status = "Escalated"]
  /\ deliversSent' = deliversSent \cup {Delivery(i, SharesIn, "Settlement")}
  /\ UNCHANGED <<laneVars, floatEnabled, lzOrdersSent, transfersSent, capVars>>

\* canonicalRedeem: a sell placed on the canonical lane (its fee is kept in shares).
CanonicalRedeem(i, mode) ==
  /\ i \in Sells /\ Order(i).status = "None"
  /\ hub.supply >= SharesIn
  /\ hub' = [hub EXCEPT !.supply = @ - SharesIn, !.order[i].status = "Escalated"]
  /\ book' = RedeemBegun(book, i, Asset, SharesIn)
  /\ deliversSent' = deliversSent \cup {Delivery(i, SharesIn, mode)}
  /\ UNCHANGED <<laneVars, floatEnabled, lzOrdersSent, transfersSent, governanceVars>>

\* escalateFunds.  Of an unanswered buy the money waits for the result; of an
\* answered order what Arc holds goes back now, and a sell pays its locked fee.
FundsTaken(h, i) ==
  LET o == h.order[i]
      fromHeld == IF o.fee < o.held THEN o.fee ELSE o.held
      c == [h EXCEPT !.order[i].status = "Escalated", !.order[i].held = 0]
  IN IF i \in Buys
     THEN Paid([c EXCEPT !.order[i].fee = 0, !.order[i].extra = 0,
                         !.escrowed = @ - (o.held + o.fee + o.extra)],
               i, "user", o.held + o.fee + o.extra)
     ELSE Paid([c EXCEPT !.escrowed = @ - o.held, !.accruedFees = @ + o.fee,
                         !.native = @ + (o.fee - fromHeld)],
               i, "user", o.held - fromHeld)

EscalateFunds(i) ==
  LET o == Order(i)
      unanswered == /\ i \in Buys /\ o.outcome = 0 /\ o.status \in {"Funded", "Dispatched"}
                    /\ o.cancelRequested \/ IsBack(o.held, Principal)
  IN /\ Lane(i) = 0
     /\ \/ unanswered /\ hub' = [hub EXCEPT !.order[i].status = "Escalated"]
        \/ o.status \in {"Returning", "Proceeds"} /\ hub' = FundsTaken(hub, i)
     /\ deliversSent' = deliversSent \cup {Delivery(i, 0, "Settlement")}
     /\ UNCHANGED <<laneVars, floatEnabled, lzOrdersSent, transfersSent, capVars>>

-----------------------------------------------------------------------------
(* Payouts and money from outside.                                         *)

\* Mutant: claimed custody is not cleared.
ClaimResultKept(i) ==
  /\ i \in RewardBuys /\ Order(i).custodyRaw # 0
  /\ hub' = [hub EXCEPT !.order[i].shares = @ + Order(i).custodyRaw]
  /\ UNCHANGED <<laneVars, floatEnabled, sentVars, capVars>>

ClaimResult(i) ==
  LET o == Order(i)
  IN /\ i \in RewardBuys
     /\ \/ /\ o.custodyRaw # 0
           /\ hub' = [hub EXCEPT !.order[i] = [o EXCEPT !.custodyRaw = 0,
                                                        !.shares = @ + o.custodyRaw]]
        \/ /\ o.custodyRaw = 0 /\ o.refundReady # 0 /\ CanSend(hub, o.refundReady)
           /\ hub' = [hub EXCEPT !.order[i] = [o EXCEPT !.refundReady = 0,
                                                        !.paid = @ + o.refundReady],
                                 !.escrowed = @ - o.refundReady,
                                 !.native = @ - o.refundReady]
     /\ UNCHANGED <<laneVars, floatEnabled, sentVars, capVars>>

\* claim: what could not be pushed, to the user, or to Ops for a reward order.
Claim(i) ==
  LET o == Order(i)
      paid == IF Lane(i) = 0 THEN o.paid + o.owed ELSE o.paid
  IN /\ o.owed # 0 /\ CanSend(hub, o.owed)
     /\ hub' = [hub EXCEPT !.order[i] = [o EXCEPT !.owed = 0, !.paid = paid],
                           !.claimableTotal = @ - o.owed, !.native = @ - o.owed]
     /\ UNCHANGED <<laneVars, floatEnabled, sentVars, capVars>>

ReceiveReturn(i, amount) ==
  /\ hub' = Returned(hub, i, amount)
  /\ UNCHANGED <<laneVars, floatEnabled, sentVars, capVars>>

\* Anyone may add to any order's reserve, a closed one's too.
Subsidize(i, amount) ==
  LET h == [hub EXCEPT !.order[i].extra = @ + amount, !.escrowed = @ + amount,
                       !.native = @ + amount]
  IN /\ Order(i).status # "None"
     /\ hub' = IF Order(i).status = "Returning" /\ Order(i).held # 0
               THEN ReturnedBuyClosed(h, i, FALSE) ELSE h
     /\ UNCHANGED <<laneVars, floatEnabled, sentVars, capVars>>

ClaimFees ==
  /\ hub.accruedFees > 0 /\ CanSend(hub, hub.accruedFees)
  /\ hub' = [hub EXCEPT !.native = @ - hub.accruedFees, !.accruedFees = 0]
  /\ UNCHANGED <<laneVars, floatEnabled, sentVars, capVars>>

\* withdrawFloat, of all there is (a smaller amount only delays it).
WithdrawHubFloat ==
  /\ Available(hub) > 0
  /\ hub' = [hub EXCEPT !.native = @ - Available(hub)]
  /\ UNCHANGED <<laneVars, floatEnabled, sentVars, capVars>>

SetHubFloat(b) ==
  /\ floatEnabled' = b
  /\ UNCHANGED <<hub, laneVars, sentVars, capVars>>

\* haltMints and resumeMints (the guardian, the owner).
SetMintsHalted(b) ==
  /\ mintsHalted' = b
  /\ UNCHANGED <<hub, reconciled, floatEnabled, sentVars, capVars>>

-----------------------------------------------------------------------------
(* The two lanes of answers.                                               *)

\* _lzReceive.
ReceiveResult(r) ==
  /\ r.ref \in Ids
  /\ Settle(r.ref, r, FALSE)
  /\ UNCHANGED <<mintsHalted, floatEnabled, sentVars, governanceVars>>

Matches(i, r) ==
  /\ Order(i).rawOut = r.amountOut
  /\ Order(i).outcome = CASE r.outcome = "Bought" -> 1 [] r.outcome = "Sold" -> 2
                           [] r.outcome = "Failed" -> 3

\* reconcile.  A result the fast lane applied is compared with the proof, one it
\* did not is applied; a migration is minted to the treasury.
ReconcileMigration(r) ==
  /\ r.ref \notin Ids
  /\ r.outcome = "Bought" /\ r.amountOut # 0
  /\ hub' = [hub EXCEPT !.supply = @ + r.amountOut]
  /\ book' = BuyFinalized(book, r.ref, Asset, r.amountOut)
  /\ reconciled' = reconciled \cup {r.ref}
  /\ UNCHANGED mintsHalted

ReconcileSettled(r) ==
  LET matched == Matches(r.ref, r)
  IN /\ r.ref \in Ids /\ Order(r.ref).lzSettled
     /\ reconciled' = reconciled \cup {r.ref}
     /\ book' = IF matched THEN Reviewed(book, r.ref) ELSE book
     /\ hub' = IF matched THEN hub ELSE [hub EXCEPT !.order[r.ref].disputed = TRUE]
     /\ mintsHalted' = (mintsHalted \/ ~matched)

Reconcile(r) ==
  /\ r.ref \notin reconciled
  /\ \/ ReconcileMigration(r)
     \/ ReconcileSettled(r)
     \/ /\ r.ref \in Ids /\ ~Order(r.ref).lzSettled
        /\ Settle(r.ref, r, TRUE)
        /\ UNCHANGED mintsHalted
  /\ UNCHANGED <<floatEnabled, sentVars, governanceVars>>

\* What users, keepers and operators do on Arc, in any order; the modules that use the
\* hub add what strangers do (Subsidize, ReceiveReturn).
UserStep(i) ==
  \/ RequestBuy(i) \/ RequestSell(i)
  \/ Dispatch(i) \/ CancelPending(i) \/ RequestCancel(i)
  \/ \E fromReserve \in BOOLEAN : VoidOrder(i, fromReserve)
  \/ Escalate(i) \/ EscalateFunds(i)
  \/ \E mode \in {"Stock", "Settlement"} : CanonicalRedeem(i, mode)
  \/ Claim(i)

KeeperStep(i) ==
  \/ \E routeFee \in RouteFees : Launch(i, routeFee)
  \/ ReserveReward(i) \/ BeginFunding(i) \/ SubmitFundedBuy(i)
  \/ CancelReward(i) \/ ClaimResult(i)

AdminStep ==
  \/ "fees" \in AdminActs /\ ClaimFees
  \/ "withdraw" \in AdminActs /\ WithdrawHubFloat
  \/ "hubFloat" \in AdminActs /\ \E b \in BOOLEAN : SetHubFloat(b)
  \/ "mints" \in AdminActs /\ \E b \in BOOLEAN : SetMintsHalted(b)

HubStep == (\E i \in Ids : UserStep(i) \/ KeeperStep(i)) \/ AdminStep

-----------------------------------------------------------------------------
(* Properties of the hub's books.                                          *)

\* Types.
HubTypeOK ==
  /\ \A i \in Ids :
       /\ Order(i).status \in Statuses /\ Order(i).outcome \in 0..3
       /\ {Order(i).fee, Order(i).extra, Order(i).held, Order(i).owed, Order(i).amountOut,
           Order(i).rawOut, Order(i).custodyRaw, Order(i).refundReady, Order(i).paid,
           Order(i).shares} \subseteq Nat
  /\ {hub.native, hub.escrowed, hub.accruedFees, hub.claimableTotal, hub.supply} \subseteq Nat
  /\ mintsHalted \in BOOLEAN /\ floatEnabled \in BOOLEAN

\* What the hub must hold for one order in its present state: a buy's fee until it
\* is filled or refunded, the principal until it leaves, the reserve, what came
\* back and a reward refund until they are paid.
EscrowOf(i) ==
  LET o == Order(i)
      keepsFee == o.status \in {"Pending", "Funded", "Dispatched", "Returning", "Escalated"}
  IN (IF i \in Buys /\ o.status = "Pending" THEN Principal ELSE 0)
       + (IF i \in Buys /\ keepsFee THEN o.fee ELSE 0)
       + o.extra + o.held + o.refundReady

\* escrowed is exactly what is held for the orders, along every path an order can
\* take: no money of one order is counted for another, twice, or not at all.
EscrowIsObligations ==
  /\ hub.escrowed = SumFunction([i \in Ids |-> EscrowOf(i)])
  /\ hub.claimableTotal = SumFunction([i \in Ids |-> Order(i).owed])

\* The fees of the sells that the float paid, whose proceeds may not be back yet.
FeesAdvanced == SumFunction([i \in Sells |-> IF Order(i).advanced THEN Order(i).fee ELSE 0])

\* The hub can pay everyone at once: its counters are its obligations, and what is
\* escrowed, earned and owed is there, whatever the float advanced, but for the fees of
\* the sells it paid; and no amount ever left Nat, as a checked subtraction that reverts
\* would strand an answer or a return (HubSettlement.settle, receiveReturn).
HubSolvent == HubTypeOK /\ EscrowIsObligations /\ hub.native + FeesAdvanced >= Owed(hub)

\* The invariant of the test suite (test/v3/StockLayerInvariant.t.sol:243,
\* invariant_moneyCoversEveryLiability): the fee of a sell that the float paid counts too.
MoneyCoversEveryLiability == hub.native >= Owed(hub)

=============================================================================
