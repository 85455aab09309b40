---------------------------- MODULE AccountProofs ----------------------------
(***************************************************************************)
(* Proofs about the accounts of the layer.                                 *)
(*                                                                         *)
(* The shares.  What holders are entitled to on the vault is, in every     *)
(* state, the shares the hub has issued, what it burned and the vault has  *)
(* not yet sold, and what the vault bought and the hub has not yet minted. *)
(* The part of one sell, or of one answer in the log, that is still on its *)
(* way is Unbacked.  Each operator of the hub moves the supply by what it  *)
(* moves for its one order, each step of the vault moves the entitlement   *)
(* by what its one answer says, and the sums follow from SumLemmas.        *)
(*                                                                         *)
(* The money of one order.  Each operator of the hub is told by what it    *)
(* does to the record of its order, and each step of the layer by whose    *)
(* money it moves (MoneyStep).  With this a reward order ends with its     *)
(* stock or with its whole principal.  At the vault each ref has an        *)
(* account: what came in, is held, was spent, returned and handed over.    *)
(***************************************************************************)
EXTENDS LayerProofs

-----------------------------------------------------------------------------
(* The shares.  Only the placing of a sell, an answer and a migration      *)
(* change what circulates.                                                 *)

\* The hub is a record; g has the supply of h.
HasHubShape(h) ==
  h = [order |-> h.order, native |-> h.native, escrowed |-> h.escrowed,
       accruedFees |-> h.accruedFees, claimableTotal |-> h.claimableTotal, supply |-> h.supply]
SameSupply(h, g) == HasHubShape(g) /\ g.supply = h.supply

\* _pay moves no shares.
LEMMA PaidSupply ==
  ASSUME NEW h, HasHubShape(h), NEW i, NEW to, NEW amount
  PROVE  SameSupply(h, Paid(h, i, to, amount))
BY Zenon DEF HasHubShape, SameSupply, Paid

\* Nor does _markSettled.
LEMMA LzMarkedSupply ==
  ASSUME NEW h, HasHubShape(h), NEW i, NEW canonical
  PROVE  SameSupply(h, LzMarked(h, i, canonical))
BY DEF HasHubShape, SameSupply, LzMarked

\* Nor does _flushHeld.
LEMMA HeldFlushedSupply ==
  ASSUME NEW h, HasHubShape(h), NEW i
  PROVE  SameSupply(h, HeldFlushed(h, i))
<1>1. PICK d : d = [h EXCEPT !.order[i].held = 0, !.escrowed = @ - h.order[i].held]  OBVIOUS
<1>2. SameSupply(h, d)  BY <1>1 DEF HasHubShape, SameSupply
<1>3. HeldFlushed(h, i) = Paid(d, i, LateTo(h, i, h.order[i].held), h.order[i].held)
  BY <1>1 DEF HeldFlushed
<1> QED  BY <1>2, <1>3, PaidSupply DEF SameSupply

\* Nor does refundBuy.
LEMMA BuyRefundedSupply ==
  ASSUME NEW h, HasHubShape(h), NEW i
  PROVE  SameSupply(h, BuyRefunded(h, i))
<1>1. PICK amount : amount = Principal + h.order[i].fee + h.order[i].extra + h.order[i].held
  OBVIOUS
<1>2. PICK c : c = [h EXCEPT !.order[i].status = "Cancelled", !.order[i].extra = 0,
                             !.order[i].held = 0, !.escrowed = @ - amount]
  OBVIOUS
<1>3. PICK d : d = [c EXCEPT !.order[i].refundReady = Principal, !.escrowed = @ + Principal]
  OBVIOUS
<1>4. SameSupply(h, c) /\ SameSupply(h, d)  BY <1>2, <1>3 DEF HasHubShape, SameSupply
<1>5. \/ BuyRefunded(h, i) = Paid(c, i, "user", amount)
      \/ BuyRefunded(h, i) = Paid(d, i, "ops", amount - Principal)
  BY <1>1, <1>2, <1>3, SMTT(60) DEF BuyRefunded
<1> QED  BY <1>4, <1>5, PaidSupply DEF SameSupply

\* Nor does _closeReturnedBuy.
LEMMA ReturnedBuyClosedSupply ==
  ASSUME NEW h, HasHubShape(h), NEW i, NEW force
  PROVE  SameSupply(h, ReturnedBuyClosed(h, i, force))
<1>1. PICK pool : pool = h.order[i].held + h.order[i].fee + h.order[i].extra  OBVIOUS
<1>2. PICK c : c = [h EXCEPT !.order[i] = [h.order[i] EXCEPT !.status = "Cancelled", !.held = 0,
                                                             !.extra = 0, !.fee = 0]]
  OBVIOUS
<1>3. PICK d : d = [c EXCEPT !.escrowed = @ - pool]  OBVIOUS
<1>4. PICK e : e = [c EXCEPT !.order[i].refundReady = Principal,
                             !.escrowed = @ - (pool - Principal)]
  OBVIOUS
<1>5. SameSupply(h, c)  BY <1>2 DEF HasHubShape, SameSupply
<1>6. SameSupply(h, d) /\ SameSupply(h, e)  BY <1>3, <1>4, <1>5 DEF HasHubShape, SameSupply
<1>7. \/ ReturnedBuyClosed(h, i, force) = h
      \/ ReturnedBuyClosed(h, i, force) = Paid(d, i, "user", pool)
      \/ ReturnedBuyClosed(h, i, force) = Paid(e, i, "ops", pool - Principal)
  BY <1>1, <1>2, <1>3, <1>4 DEF ReturnedBuyClosed
<1> QED  BY <1>6, <1>7, PaidSupply DEF SameSupply

\* Nor does _payHeldProceeds.
LEMMA HeldProceedsPaidSupply ==
  ASSUME NEW h, HasHubShape(h), NEW i
  PROVE  SameSupply(h, HeldProceedsPaid(h, i))
<1>1. PICK fee : fee = IF h.order[i].fee < h.order[i].held THEN h.order[i].fee ELSE h.order[i].held
  OBVIOUS
<1>2. PICK net : net = h.order[i].held - fee  OBVIOUS
<1>3. PICK d : d = [h EXCEPT !.order[i] = [h.order[i] EXCEPT !.held = 0, !.fee = fee,
                                                             !.amountOut = net,
                                                             !.status = "Filled"],
                             !.escrowed = @ - h.order[i].held, !.accruedFees = @ + fee]
  OBVIOUS
<1>4. SameSupply(h, d)  BY <1>3 DEF HasHubShape, SameSupply
<1>5. HeldProceedsPaid(h, i) = h \/ HeldProceedsPaid(h, i) = Paid(d, i, "user", net)
  BY <1>1, <1>2, <1>3 DEF HeldProceedsPaid
<1> QED  BY <1>4, <1>5, PaidSupply DEF SameSupply

\* Nor does money that arrives (receiveReturn).
LEMMA ReturnedSupply ==
  ASSUME NEW h, HasHubShape(h), NEW i, NEW amount
  PROVE  SameSupply(h, Returned(h, i, amount))
<1>1. PICK g : g = [h EXCEPT !.native = @ + amount]  OBVIOUS
<1>2. PICK k : k = [g EXCEPT !.escrowed = @ + amount, !.order[i].held = @ + amount]  OBVIOUS
<1>3. SameSupply(h, g) /\ SameSupply(h, k)  BY <1>1, <1>2 DEF HasHubShape, SameSupply
<1>4. HasHubShape(g) /\ HasHubShape(k)  BY <1>3 DEF SameSupply
<1>5. PICK o : o = h.order[i]  OBVIOUS
<1>6. CASE o.advanced
  <2>1. Returned(h, i, amount) = g  BY <1>1, <1>5, <1>6 DEF Returned
  <2> QED  BY <1>3, <2>1
<1>7. CASE ~o.advanced /\ o.status = "Returning"
  <2>1. Returned(h, i, amount) = ReturnedBuyClosed(k, i, FALSE)
    BY <1>1, <1>2, <1>5, <1>7 DEF Returned
  <2> QED  BY ZenonT(30), <1>3, <1>4, <2>1, ReturnedBuyClosedSupply DEF SameSupply
<1>8. CASE ~o.advanced /\ o.status = "Proceeds"
  <2>1. Returned(h, i, amount) = HeldProceedsPaid(k, i)
    BY <1>1, <1>2, <1>5, <1>8 DEF Returned
  <2> QED  BY <1>3, <1>4, <2>1, HeldProceedsPaidSupply DEF SameSupply
<1>9. CASE ~o.advanced /\ o.status \notin {"Returning", "Proceeds"}
  <2>1. CASE o.outcome = 0 /\ o.status \notin {"Filled", "Cancelled"}
    <3>1. Returned(h, i, amount) = k  BY <1>1, <1>2, <1>5, <1>9, <2>1 DEF Returned
    <3> QED  BY <1>3, <3>1
  <2>2. CASE ~(o.outcome = 0 /\ o.status \notin {"Filled", "Cancelled"})
    <3>1. Returned(h, i, amount) = Paid(g, i, LateTo(h, i, amount), amount)
      BY <1>1, <1>5, <1>9, <2>2 DEF Returned
    <3> QED  BY <1>3, <1>4, <3>1, PaidSupply DEF SameSupply
  <2> QED  BY <2>1, <2>2
<1> QED  BY <1>6, <1>7, <1>8, <1>9

\* Nor does escalateFunds.
LEMMA FundsTakenSupply ==
  ASSUME NEW h, HasHubShape(h), NEW i
  PROVE  SameSupply(h, FundsTaken(h, i))
<1>1. PICK o : o = h.order[i]  OBVIOUS
<1>2. PICK fromHeld : fromHeld = IF o.fee < o.held THEN o.fee ELSE o.held  OBVIOUS
<1>3. PICK c : c = [h EXCEPT !.order[i].status = "Escalated", !.order[i].held = 0]  OBVIOUS
<1>4. PICK d : d = [c EXCEPT !.order[i].fee = 0, !.order[i].extra = 0,
                             !.escrowed = @ - (o.held + o.fee + o.extra)]
  OBVIOUS
<1>5. PICK e : e = [c EXCEPT !.escrowed = @ - o.held, !.accruedFees = @ + o.fee,
                             !.native = @ + (o.fee - fromHeld)]
  OBVIOUS
<1>6. SameSupply(h, c)  BY <1>3 DEF HasHubShape, SameSupply
<1>7. SameSupply(h, d) /\ SameSupply(h, e)  BY <1>4, <1>5, <1>6 DEF HasHubShape, SameSupply
<1>8. CASE i \in Buys
  <2>1. FundsTaken(h, i) = Paid(d, i, "user", o.held + o.fee + o.extra)
    BY <1>1, <1>3, <1>4, <1>8 DEF FundsTaken
  <2> QED  BY <1>7, <2>1, PaidSupply DEF SameSupply
<1>9. CASE i \notin Buys
  <2>1. FundsTaken(h, i) = Paid(e, i, "user", o.held - fromHeld)
    BY <1>1, <1>2, <1>3, <1>5, <1>9 DEF FundsTaken
  <2> QED  BY <1>7, <2>1, PaidSupply DEF SameSupply
<1> QED  BY <1>8, <1>9

\* Minting adds the shares to the supply.
LEMMA MintedSupply ==
  ASSUME NEW h, HasHubShape(h), NEW i, NEW raw, NEW toUser
  PROVE  HasHubShape(Minted(h, i, raw, toUser)) /\ Minted(h, i, raw, toUser).supply = h.supply + raw
<1>1. PICK o : o = [h.order EXCEPT ![i].shares = IF toUser THEN @ + raw ELSE @]  OBVIOUS
<1>2. PICK n : n = h.supply + raw  OBVIOUS
<1>3. Minted(h, i, raw, toUser) = [h EXCEPT !.supply = n, !.order = o]
  BY <1>1, <1>2 DEF HasHubShape, Minted
<1> QED  BY <1>2, <1>3 DEF HasHubShape

\* The answers: shares are minted for a buy.
LEMMA BoughtSupply ==
  ASSUME NEW h, HasHubShape(h), NEW i, NEW raw, NEW canonical, NEW g,
         g = BoughtApplied(h, i, raw, canonical) \/ g = Orphaned(h, i, raw, canonical)
  PROVE  g.supply = h.supply + raw
<1>1. CASE g = BoughtApplied(h, i, raw, canonical)
  <2>1. PICK o : o = h.order[i]  OBVIOUS
  <2>2. PICK m : m = Minted(h, i, raw, Lane(i) = 0)  OBVIOUS
  <2>3. HasHubShape(m) /\ m.supply = h.supply + raw  BY <2>2, MintedSupply
  <2>4. PICK filled : filled = [m.order[i] EXCEPT !.status = "Filled", !.amountOut = raw,
                                                  !.rawOut = raw, !.outcome = 1, !.extra = 0,
                                                  !.custodyRaw = IF Lane(i) = 1 THEN raw ELSE @]
    OBVIOUS
  <2>5. PICK c : c = [m EXCEPT !.order[i] = filled, !.escrowed = @ - o.fee - o.extra,
                               !.accruedFees = @ + o.fee]
    OBVIOUS
  <2>6. SameSupply(m, c)  BY <2>3, <2>5 DEF HasHubShape, SameSupply
  <2>7. PICK d : d = Paid(c, i, Beneficiary(i), o.extra)  OBVIOUS
  <2>8. SameSupply(c, d)  BY <2>6, <2>7, PaidSupply DEF SameSupply
  <2>9. PICK e : e = HeldFlushed(d, i)  OBVIOUS
  <2>10. SameSupply(d, e)  BY <2>8, <2>9, HeldFlushedSupply DEF SameSupply
  <2>11. g = LzMarked(e, i, canonical)
    BY <1>1, <2>1, <2>2, <2>4, <2>5, <2>7, <2>9 DEF BoughtApplied
  <2>12. SameSupply(e, g)  BY <2>10, <2>11, LzMarkedSupply DEF SameSupply
  <2> QED  BY <2>3, <2>6, <2>8, <2>10, <2>12 DEF SameSupply
<1>2. CASE g = Orphaned(h, i, raw, canonical)
  <2>1. PICK m : m = Minted(h, i, raw, FALSE)  BY Zenon
  <2>2. HasHubShape(m) /\ m.supply = h.supply + raw  BY <2>1, MintedSupply
  <2>3. PICK c : c = [m EXCEPT !.order[i].orphaned = TRUE, !.order[i].rawOut = raw,
                               !.order[i].outcome = 1]
    OBVIOUS
  <2>4. SameSupply(m, c)  BY <2>2, <2>3 DEF HasHubShape, SameSupply
  <2>5. g = LzMarked(c, i, canonical)  BY <1>2, <2>1, <2>3 DEF Orphaned
  <2> QED  BY <2>2, <2>4, <2>5, LzMarkedSupply DEF SameSupply
<1> QED  BY <1>1, <1>2

\* They are gone with a sell that was executed.
LEMMA SoldSupply ==
  ASSUME NEW h, HasHubShape(h), NEW i, NEW raw, NEW canonical, NEW allowed, NEW g,
         g = SoldApplied(h, i, raw, canonical, allowed)
  PROVE  g.supply = h.supply
<1>1. PICK fee : fee = (raw * FeeBps) \div BPS  OBVIOUS
<1>2. PICK net : net = raw - fee  OBVIOUS
<1>3. PICK o : o = [h.order[i] EXCEPT !.fee = fee, !.rawOut = raw, !.outcome = 2]  OBVIOUS
<1>4. PICK b : b = [h EXCEPT !.order[i] = o]  OBVIOUS
<1>5. SameSupply(h, b)  BY <1>4 DEF HasHubShape, SameSupply
<1>6. PICK c : c = LzMarked(b, i, canonical)  OBVIOUS
<1>7. SameSupply(b, c)  BY <1>5, <1>6, LzMarkedSupply DEF SameSupply
<1>8. PICK owing : owing = [c EXCEPT !.order[i].amountOut = net, !.order[i].status = "Proceeds"]
  OBVIOUS
<1>9. PICK free : free = [c EXCEPT !.order[i].status = "Filled"]  OBVIOUS
<1>10. PICK lent : lent = [owing EXCEPT !.escrowed = @ - o.held, !.order[i].held = 0,
                                        !.order[i].advanced = TRUE,
                                        !.order[i].status = "Filled", !.accruedFees = @ + fee]
  OBVIOUS
<1>11. SameSupply(c, owing) /\ SameSupply(c, free)
  BY <1>7, <1>8, <1>9 DEF HasHubShape, SameSupply
<1>12. SameSupply(owing, lent)  BY <1>10, <1>11 DEF HasHubShape, SameSupply
<1>13. CASE raw = 0
  <2>1. g = HeldFlushed(free, i)
    BY <1>1, <1>3, <1>4, <1>6, <1>9, <1>13 DEF SoldApplied
  <2> QED  BY <1>5, <1>7, <1>11, <2>1, HeldFlushedSupply DEF SameSupply
<1>14. CASE raw # 0 /\ IsBack(o.held, net)
  <2>1. g = HeldProceedsPaid(owing, i)
    BY <1>1, <1>2, <1>3, <1>4, <1>6, <1>8, <1>14 DEF SoldApplied
  <2> QED  BY SMTT(30), <1>5, <1>7, <1>11, <2>1, HeldProceedsPaidSupply DEF SameSupply
<1>15. CASE raw # 0 /\ ~IsBack(o.held, net)
  <2>1. CASE floatEnabled /\ Available(h) >= net /\ allowed
    <3>1. g = Paid(lent, i, "user", net)
      BY ZenonT(30), <1>1, <1>2, <1>3, <1>4, <1>6, <1>8, <1>10, <1>15, <2>1 DEF SoldApplied
    <3> QED  BY SMTT(30), <1>5, <1>7, <1>11, <1>12, <3>1, PaidSupply DEF SameSupply
  <2>2. CASE ~(floatEnabled /\ Available(h) >= net /\ allowed)
    <3>1. g = owing
      BY <1>1, <1>2, <1>3, <1>4, <1>6, <1>8, <1>15, <2>2, ZenonT(60) DEF SoldApplied
    <3> QED  BY <1>5, <1>7, <1>11, <3>1 DEF SameSupply
  <2> QED  BY <2>1, <2>2
<1> QED  BY <1>13, <1>14, <1>15

\* Nothing was minted or burned for a buy that failed.
LEMMA BuyFailedSupply ==
  ASSUME NEW h, HasHubShape(h), NEW i, NEW canonical, NEW g, g = BuyFailed(h, i, canonical)
  PROVE  g.supply = h.supply
<1>1. PICK b : b = [h EXCEPT !.order[i].outcome = 3, !.order[i].rawOut = 0]  OBVIOUS
<1>2. SameSupply(h, b)  BY <1>1 DEF HasHubShape, SameSupply
<1>3. PICK c : c = LzMarked(b, i, canonical)  OBVIOUS
<1>4. SameSupply(b, c)  BY <1>2, <1>3, LzMarkedSupply DEF SameSupply
<1>5. PICK d : d = [c EXCEPT !.order[i].status = "Returning"]  OBVIOUS
<1>6. SameSupply(c, d)  BY <1>4, <1>5 DEF HasHubShape, SameSupply
<1>7. g = c \/ g = ReturnedBuyClosed(d, i, h.order[i].status = "Escalated")
  BY <1>1, <1>3, <1>5 DEF BuyFailed
<1> QED  BY <1>2, <1>4, <1>6, <1>7, ReturnedBuyClosedSupply DEF SameSupply

\* The shares of a failed sell are minted again.
LEMMA SellFailedSupply ==
  ASSUME NEW h, HasHubShape(h), NEW i, NEW canonical, NEW g, g = SellFailed(h, i, canonical)
  PROVE  g.supply = h.supply + SharesIn
<1>1. PICK b : b = [h EXCEPT !.order[i].outcome = 3, !.order[i].rawOut = 0,
                             !.order[i].status = "Cancelled"]
  OBVIOUS
<1>2. SameSupply(h, b)  BY <1>1 DEF HasHubShape, SameSupply
<1>3. PICK m : m = Minted(b, i, SharesIn, TRUE)  BY Zenon
<1>4. HasHubShape(m) /\ m.supply = b.supply + SharesIn  BY <1>2, <1>3, MintedSupply DEF SameSupply
<1>5. PICK c : c = LzMarked(m, i, canonical)  OBVIOUS
<1>6. SameSupply(m, c)  BY <1>4, <1>5, LzMarkedSupply
<1>7. g = HeldFlushed(c, i)  BY <1>1, <1>3, <1>5 DEF SellFailed
<1> QED  BY <1>2, <1>4, <1>6, <1>7, HeldFlushedSupply DEF SameSupply

-----------------------------------------------------------------------------
(* What the steps do to the shares in circulation, and to which sells are  *)
(* placed.                                                                 *)

\* No shares are minted or burned, and the placed sells are the same.
SharesKept(h, g) ==
  /\ g.supply = h.supply
  /\ \A j \in Sells : (g.order[j].status = "None") <=> (h.order[j].status = "None")

\* The sell i is placed and its shares are burned.
SharesBurned(h, g, i) ==
  /\ i \in Sells /\ h.order[i].status = "None" /\ g.order[i].status # "None"
  /\ g.supply = h.supply - SharesIn
  /\ \A j \in Sells \ {i} : (g.order[j].status = "None") <=> (h.order[j].status = "None")

\* A step about an order that is there, or no sell.
LEMMA PlacedBefore ==
  ASSUME NEW h, NEW g, NEW i \in Ids, Sound(h, g, i),
         i \in Buys \/ h.order[i].status # "None", g.supply = h.supply
  PROVE  SharesKept(h, g)
<1>1. \A j \in Sells : j \in Ids /\ j \notin Buys  BY HubAssumption DEF Ids
<1> QED  BY <1>1 DEF Sound, Differs, Follows, SharesKept

\* A hub whose order or totals were changed has its supply.
LEMMA SimpleSupply ==
  ASSUME NEW h, HasHubShape(h), NEW i
  PROVE  /\ SameSupply(h, FeePaid(h, i)) /\ SameSupply(h, Dispatched(h, i))
         /\ SameSupply(h, VoidPaid(h, i)) /\ SameSupply(h, PlacedBuy(h, i))
<1>1. SameSupply(h, FeePaid(h, i))
  <2>1. PICK o : o = [h.order EXCEPT ![i].extra = @ - LzFee]  OBVIOUS
  <2>2. FeePaid(h, i) = [h EXCEPT !.order = o, !.escrowed = @ - LzFee, !.native = @ - LzFee]
    BY <2>1 DEF FeePaid, HasHubShape
  <2> QED  BY <2>2 DEF HasHubShape, SameSupply
<1>2. SameSupply(h, Dispatched(h, i))  BY DEF HasHubShape, SameSupply, Dispatched
<1>3. SameSupply(h, VoidPaid(h, i))
  <2>1. PICK o : o = [h.order EXCEPT ![i].voided = TRUE]  OBVIOUS
  <2>2. VoidPaid(h, i) = [h EXCEPT !.order = o]  BY <2>1 DEF VoidPaid, HasHubShape
  <2> QED  BY <2>2 DEF HasHubShape, SameSupply
<1>4. SameSupply(h, PlacedBuy(h, i))
  <2>1. PICK o : o = [NoOrder EXCEPT !.status = "Pending", !.fee = BuyFee, !.extra = Extra]
    OBVIOUS
  <2>2. PlacedBuy(h, i) = [h EXCEPT !.order[i] = o,
                                    !.escrowed = @ + Principal + BuyFee + Extra,
                                    !.native = @ + Principal + BuyFee + Extra]
    BY <2>1 DEF PlacedBuy
  <2> QED  BY <2>2 DEF HasHubShape, SameSupply
<1> QED  BY <1>1, <1>2, <1>3, <1>4

\* What users do: only a sell that is placed burns shares.
LEMMA UserShares ==
  ASSUME BooksOK, NEW i \in Ids, UserStep(i), Quiet(hub, hub', i)
  PROVE  SharesKept(hub, hub') \/ SharesBurned(hub, hub', i)
<1>0. /\ HasHubShape(hub) /\ OrderOK(i, hub.order[i]) /\ Sound(hub, hub', i)
      /\ i \in Sells => i \notin Buys
  BY HubAssumption DEF BooksOK, IsHub, HasHubShape, Quiet
<1>1. PICK h : h = hub'  OBVIOUS
<1>2. SUFFICES \/ SharesBurned(hub, h, i)
               \/ /\ i \in Buys \/ hub.order[i].status # "None"
                  /\ h.supply = hub.supply
  BY <1>0, <1>1, PlacedBefore
<1>3. CASE RequestBuy(i)
  <2>1. h = PlacedBuy(hub, i) /\ i \in Buys  BY <1>1, <1>3 DEF RequestBuy, Buys
  <2> QED  BY <1>0, <2>1, SimpleSupply DEF SameSupply
<1>4. CASE RequestSell(i) \/ \E mode \in {"Stock", "Settlement"} : CanonicalRedeem(i, mode)
  <2>1. PICK st : /\ h = [hub EXCEPT !.supply = @ - SharesIn, !.order[i].status = st]
                  /\ i \in Sells /\ hub.order[i].status = "None"
    BY <1>1, <1>4, Zenon DEF RequestSell, CanonicalRedeem, Order
  <2>2. h.supply = hub.supply - SharesIn  BY <1>0, <2>1 DEF HasHubShape
  <2>3. h.order[i].status # "None" /\ \A j \in Ids \ {i} : h.order[j] = hub.order[j]
    BY <1>0, <1>1 DEF Sound, Follows, Differs
  <2> QED  BY <2>1, <2>2, <2>3 DEF SharesBurned, Ids
<1>5. CASE Dispatch(i)
  <2>1. h = Dispatched(hub, i) /\ hub.order[i].status # "None"
    BY <1>1, <1>5 DEF Dispatch, Order
  <2> QED  BY <1>0, <2>1, SimpleSupply DEF SameSupply
<1>6. CASE CancelPending(i)
  <2>1. h = BuyRefunded(hub, i) /\ hub.order[i].status # "None"
    BY <1>1, <1>6 DEF CancelPending, Order
  <2> QED  BY <1>0, <2>1, BuyRefundedSupply DEF SameSupply
<1>7. CASE RequestCancel(i)
  <2>1. PICK c : c = [hub EXCEPT !.order[i].cancelRequested = TRUE]  OBVIOUS
  <2>2. PICK amount : amount = hub.order[i].fee + hub.order[i].extra  OBVIOUS
  <2>3. PICK d : d = [c EXCEPT !.order[i].advanced = TRUE, !.order[i].status = "Cancelled",
                               !.order[i].extra = 0, !.escrowed = @ - amount]
    OBVIOUS
  <2>4. SameSupply(hub, c)  BY <1>0, <2>1 DEF HasHubShape, SameSupply
  <2>5. SameSupply(c, d)  BY <2>3, <2>4 DEF HasHubShape, SameSupply
  <2>6. /\ h = c \/ \E all : h = Paid(d, i, "user", all)
        /\ i \in Buys
    BY <1>1, <1>7, <2>1, <2>2, <2>3 DEF RequestCancel, Order
  <2> QED  BY <2>4, <2>5, <2>6, PaidSupply DEF SameSupply
<1>8. CASE \E fromReserve \in BOOLEAN : VoidOrder(i, fromReserve)
  <2>1. PICK fromReserve \in BOOLEAN : VoidOrder(i, fromReserve)  BY <1>8
  <2>2. PICK f : f = FeePaid(hub, i)  OBVIOUS
  <2>3. PICK v : v = VoidPaid(f, i)  OBVIOUS
  <2>4. SameSupply(hub, f)  BY <1>0, <2>2, SimpleSupply
  <2>5. SameSupply(f, v)  BY <2>3, <2>4, SimpleSupply DEF SameSupply
  <2>6. PICK c : /\ c = hub \/ c = v
                 /\ h = c \/ h = Dispatched(c, i)
                 /\ i \in Buys
    BY <1>1, <2>1, <2>2, <2>3 DEF VoidOrder, VoidPaid
  <2>7. HasHubShape(c) /\ c.supply = hub.supply  BY <1>0, <2>4, <2>5, <2>6 DEF SameSupply
  <2> QED  BY <2>6, <2>7, SimpleSupply DEF SameSupply
<1>9. CASE Escalate(i) \/ EscalateFunds(i)
  <2>1. /\ h = [hub EXCEPT !.order[i].status = "Escalated"] \/ h = FundsTaken(hub, i)
        /\ hub.order[i].status # "None"
    BY <1>1, <1>9 DEF Escalate, EscalateFunds, Order
  <2>2. [hub EXCEPT !.order[i].status = "Escalated"].supply = hub.supply
    BY <1>0 DEF HasHubShape
  <2> QED  BY <1>0, <2>1, <2>2, FundsTakenSupply DEF SameSupply
<1>10. CASE Claim(i)
  <2>1. PICK o, n, owed : h = [hub EXCEPT !.order[i] = o, !.claimableTotal = owed, !.native = n]
    BY <1>1, <1>10, Zenon DEF Claim
  <2>2. h.supply = hub.supply  BY <1>0, <2>1 DEF HasHubShape
  <2>3. hub.order[i].owed # 0  BY <1>10 DEF Claim, Order
  <2>4. hub.order[i].status # "None"  BY <1>0, <2>3 DEF OrderOK, NoOrder
  <2> QED  BY <2>2, <2>4
<1> QED  BY <1>3, <1>4, <1>5, <1>6, <1>7, <1>8, <1>9, <1>10 DEF UserStep

\* What keepers do burns nothing.
LEMMA KeeperShares ==
  ASSUME BooksOK, NEW i \in Ids, KeeperStep(i)
  PROVE  i \in Buys /\ hub'.supply = hub.supply
<1>0. HasHubShape(hub)  BY DEF BooksOK, IsHub, HasHubShape
<1>1. PICK h : h = hub'  OBVIOUS
<1>2. CASE \E routeFee \in RouteFees : Launch(i, routeFee)
  <2>1. PICK routeFee \in RouteFees : Launch(i, routeFee)  BY <1>2
  <2>2. PICK s : s = LaunchSent(hub, i, routeFee)  OBVIOUS
  <2>3. SameSupply(hub, s)  BY <1>0, <2>2 DEF HasHubShape, SameSupply, LaunchSent
  <2>4. PICK f : f = FeePaid(s, i)  OBVIOUS
  <2>5. SameSupply(s, f)  BY <2>3, <2>4, SimpleSupply DEF SameSupply
  <2>6. SameSupply(f, Dispatched(f, i))  BY <2>5, SimpleSupply DEF SameSupply
  <2>0. PICK atOnce \in BOOLEAN : atOnce = (Lane(i) = 0 /\ s.order[i].extra >= LzFee)  OBVIOUS
  <2>7. /\ h = BuyRefunded(hub, i) \/ h = IF atOnce THEN Dispatched(FeePaid(s, i), i) ELSE s
        /\ i \in Buys
    BY <1>1, <2>0, <2>1, <2>2 DEF Launch, LaunchSent, Order
  <2> QED  BY <1>0, <1>1, <2>3, <2>4, <2>5, <2>6, <2>7, BuyRefundedSupply DEF SameSupply
<1>3. CASE ReserveReward(i)  BY <1>3 DEF ReserveReward, Buys
<1>4. CASE BeginFunding(i)
  <2>1. h = PlacedBuy(hub, i) /\ i \in Buys  BY <1>1, <1>4 DEF BeginFunding, Buys
  <2> QED  BY <1>0, <1>1, <2>1, SimpleSupply DEF SameSupply
<1>5. CASE SubmitFundedBuy(i)
  <2>1. PICK f : f = FeePaid(hub, i)  OBVIOUS
  <2>2. SameSupply(hub, f)  BY <1>0, <2>1, SimpleSupply
  <2>3. h = Dispatched(f, i) /\ i \in Buys  BY <1>1, <1>5, <2>1 DEF SubmitFundedBuy, Buys
  <2> QED  BY <1>1, <2>2, <2>3, SimpleSupply DEF SameSupply
<1>6. CASE CancelReward(i)
  <2>1. h = BuyRefunded(hub, i) /\ i \in Buys  BY <1>1, <1>6 DEF CancelReward, Buys
  <2> QED  BY <1>0, <1>1, <2>1, BuyRefundedSupply DEF SameSupply
<1>7. CASE ClaimResult(i)
  <2>1. /\ h = CustodyTaken(hub, i) \/ h = RefundTaken(hub, i)
        /\ i \in Buys
    BY <1>1, <1>7 DEF ClaimResult, CustodyTaken, RefundTaken, Order, Buys
  <2>2. CustodyTaken(hub, i).supply = hub.supply  BY <1>0 DEF HasHubShape, CustodyTaken
  <2>3. RefundTaken(hub, i).supply = hub.supply  BY <1>0 DEF HasHubShape, RefundTaken
  <2> QED  BY <1>1, <2>1, <2>2, <2>3
<1> QED  BY <1>2, <1>3, <1>4, <1>5, <1>6, <1>7 DEF KeeperStep

\* The steps of the hub.
LEMMA HubShares ==
  ASSUME BooksOK, Owed(hub) >= 0, HubStep
  PROVE  SharesKept(hub, hub') \/ \E i \in Sells : SharesBurned(hub, hub', i)
<1>0. HasHubShape(hub)  BY DEF BooksOK, IsHub, HasHubShape
<1>1. ASSUME NEW i \in Ids, UserStep(i)
      PROVE  SharesKept(hub, hub') \/ \E j \in Sells : SharesBurned(hub, hub', j)
  <2>1. Quiet(hub, hub', i)  BY <1>1, UserQuiet
  <2> QED  BY <1>1, <2>1, UserShares DEF SharesBurned
<1>2. ASSUME NEW i \in Ids, KeeperStep(i)  PROVE SharesKept(hub, hub')
  <2>1. i \in Buys /\ hub'.supply = hub.supply  BY <1>2, KeeperShares
  <2>2. CASE hub' = hub  BY <2>2 DEF SharesKept
  <2>3. CASE Quiet(hub, hub', i)  BY <2>1, <2>3, PlacedBefore DEF Quiet
  <2> QED  BY <1>2, <2>2, <2>3, KeeperQuiet
<1>3. ASSUME AdminStep  PROVE SharesKept(hub, hub')
  <2>1. \/ \E n : hub' = [hub EXCEPT !.native = n]
        \/ \E n, e : hub' = [hub EXCEPT !.native = n, !.accruedFees = e]
        \/ hub' = hub
    BY <1>3, Zenon DEF AdminStep, ClaimFees, WithdrawHubFloat, SetHubFloat, SetMintsHalted
  <2> QED  BY <1>0, <2>1, Zenon DEF HasHubShape, SharesKept
<1> QED  BY <1>1, <1>2, <1>3 DEF HubStep

-----------------------------------------------------------------------------
(* The balance of the shares.  A step changes it in the part of one sell,  *)
(* in the part of one entry of the log, or not at all.                     *)

\* EveryShareBacked, of a hub, a log and the refs that were proven to the hub: a sell
\* whose shares are burned and not sold, and an entry that was not minted.
SoldIn(log, j) == \E n \in DOMAIN log : log[n].ref = j /\ log[n].outcome = "Sold"
IsBurned(h, log, j) ==
  h.order[j].status # "None" /\ h.order[j].outcome # 3 /\ ~SoldIn(log, j)
IsUnminted(h, log, proven, n) ==
  /\ log[n].outcome = "Bought"
  /\ IF log[n].ref \in Ids THEN h.order[log[n].ref].outcome # 1 ELSE log[n].ref \notin proven

Burned(h, log) == {j \in Sells : IsBurned(h, log, j)}
Unminted(h, log, proven) == {n \in DOMAIN log : IsUnminted(h, log, proven, n)}
RawOf(log) == [n \in DOMAIN log |-> log[n].amountOut]
Unbacked(h, log, proven) ==
  SharesIn * Cardinality(Burned(h, log)) + Sum(RawOf(log), Unminted(h, log, proven))

\* The parts of one sell and of one entry.
BurnedPart(h, log, i) == IF i \in Burned(h, log) THEN SharesIn ELSE 0
UnmintedPart(h, log, proven, n) == IF n \in Unminted(h, log, proven) THEN log[n].amountOut ELSE 0

\* A number of elements of one size each, with and without one of them.
LEMMA OneMore ==
  ASSUME NEW B, IsFiniteSet(B), NEW C, NEW i, \A j : j # i => (j \in C <=> j \in B)
  PROVE  /\ SharesIn * Cardinality(B) \in Nat /\ SharesIn * Cardinality(C) \in Nat
         /\ SharesIn * Cardinality(C) = SharesIn * Cardinality(B)
              + (IF i \in C THEN SharesIn ELSE 0) - (IF i \in B THEN SharesIn ELSE 0)
<1>1. PICK A : A = B \ {i}  OBVIOUS
<1>2. IsFiniteSet(A) /\ i \notin A  BY <1>1, FS_RemoveElement
<1>3. B = IF i \in B THEN A \cup {i} ELSE A  BY <1>1
<1>4. C = IF i \in C THEN A \cup {i} ELSE A  BY <1>1
<1>5. PICK k : k = Cardinality(A)  OBVIOUS
<1>6. k \in Nat /\ Cardinality(A \cup {i}) = k + 1
  BY <1>2, <1>5, FS_CardinalityType, FS_AddElement
<1>7. PICK x \in Nat : x = SharesIn  BY HubAssumption
<1>8. x * (k + 1) = x * k + x /\ x * k \in Nat  BY <1>6, <1>7
<1>9. /\ Cardinality(B) = IF i \in B THEN k + 1 ELSE k
      /\ Cardinality(C) = IF i \in C THEN k + 1 ELSE k
  BY <1>3, <1>4, <1>5, <1>6
<1>10. /\ x * Cardinality(B) = x * k + (IF i \in B THEN x ELSE 0)
       /\ x * Cardinality(C) = x * k + (IF i \in C THEN x ELSE 0)
  BY <1>7, <1>8, <1>9
<1>11. PICK p, b, c :
         /\ p \in Nat /\ p = x * k /\ b = x * Cardinality(B) /\ c = x * Cardinality(C)
  BY <1>8
<1>12. b = p + (IF i \in B THEN x ELSE 0) /\ c = p + (IF i \in C THEN x ELSE 0)
  BY <1>10, <1>11
<1> QED  BY <1>7, <1>11, <1>12

\* A sum with and without one of its summands.
LEMMA OneSummand ==
  ASSUME NEW U, IsFiniteSet(U), NEW V, NEW f, NEW g, NEW n,
         \A m \in U : f[m] \in Nat, \A m \in V : g[m] \in Nat,
         \A m : m # n => (m \in V <=> m \in U),
         \A m \in U : m # n => g[m] = f[m]
  PROVE  /\ Sum(f, U) \in Nat /\ Sum(g, V) \in Nat
         /\ Sum(g, V) = Sum(f, U) + (IF n \in V THEN g[n] ELSE 0) - (IF n \in U THEN f[n] ELSE 0)
<1>1. PICK A : A = U \ {n}  OBVIOUS
<1>2. IsFiniteSet(A) /\ A = V \ {n}  BY <1>1, FS_RemoveElement
<1>3. IsFiniteSet(V)
  <2>1. V = A \/ V = A \cup {n}  BY <1>1, <1>2
  <2>2. IsFiniteSet(A \cup {n})  BY <1>2, FS_AddElement
  <2> QED  BY <1>2, <2>1, <2>2
<1>4. Sum(f, U) \in Nat /\ Sum(g, V) \in Nat  BY <1>3, SumNat
<1>5. \A m \in A : f[m] = g[m] /\ f[m] \in Nat  BY <1>1
<1>6. PICK s \in Nat : s = Sum(f, A) /\ s = Sum(g, A)
  <2>1. Sum(f, A) \in Nat /\ Sum(f, A) = Sum(g, A)  BY <1>2, <1>5, SumNat, SumSame
  <2> QED  BY <2>1
<1>7. Sum(f, U) = s + (IF n \in U THEN f[n] ELSE 0)
  <2>1. CASE n \in U
    <3>1. \A m \in U : f[m] \in Int  OBVIOUS
    <3>2. Sum(f, U) = f[n] + Sum(f, U \ {n})  BY <2>1, <3>1, SumTake
    <3>3. f[n] \in Nat /\ Sum(f, U \ {n}) = s  BY <1>1, <1>6, <2>1
    <3> QED  BY <1>6, <2>1, <3>2, <3>3
  <2>2. CASE n \notin U
    <3>1. Sum(f, U) = s
      <4>1. A = U  BY <1>1, <2>2
      <4> QED  BY <1>6, <4>1
    <3> QED  BY <1>6, <2>2, <3>1
  <2> QED  BY <2>1, <2>2
<1>8. Sum(g, V) = s + (IF n \in V THEN g[n] ELSE 0)
  <2>1. CASE n \in V
    <3>1. \A m \in V : g[m] \in Int  OBVIOUS
    <3>2. Sum(g, V) = g[n] + Sum(g, V \ {n})  BY <1>3, <2>1, <3>1, SumTake
    <3>3. g[n] \in Nat /\ Sum(g, V \ {n}) = s  BY <1>2, <1>6, <2>1
    <3> QED  BY <1>6, <2>1, <3>2, <3>3
  <2>2. CASE n \notin V
    <3>1. Sum(g, V) = s
      <4>1. A = V  BY <1>2, <2>2
      <4> QED  BY <1>6, <4>1
    <3> QED  BY <1>6, <2>2, <3>1
  <2> QED  BY <2>1, <2>2
<1> QED  BY <1>4, <1>6, <1>7, <1>8

\* A log of results.
IsLog(log) == IsFiniteSet(DOMAIN log) /\ \A n \in DOMAIN log : log[n] \in ResultType

\* What is to be backed after a change to one sell and to one entry.
LEMMA UnbackedMoves ==
  ASSUME NEW h, NEW log, NEW proven, IsLog(log), NEW g, NEW next, NEW known, IsLog(next),
         NEW i, NEW n,
         \A j \in Sells : j # i => (IsBurned(g, next, j) <=> IsBurned(h, log, j)),
         \A m \in DOMAIN log : m \in DOMAIN next /\ next[m] = log[m],
         \A m \in DOMAIN next : m # n => m \in DOMAIN log,
         \A m \in DOMAIN log :
           m # n => (IsUnminted(g, next, known, m) <=> IsUnminted(h, log, proven, m))
  PROVE  /\ Unbacked(h, log, proven) \in Nat /\ Unbacked(g, next, known) \in Nat
         /\ Unbacked(g, next, known) = Unbacked(h, log, proven)
              + BurnedPart(g, next, i) - BurnedPart(h, log, i)
              + UnmintedPart(g, next, known, n) - UnmintedPart(h, log, proven, n)
<1>1. PICK B, C : B = Burned(h, log) /\ C = Burned(g, next)  OBVIOUS
<1>2. IsFiniteSet(B)
  <2>1. IsFiniteSet(Sells)
    <3>1. IsFiniteSet(Ids)  BY VaultAssumption, LayerAssumption
    <3> QED  BY <3>1, FS_Subset DEF Ids
  <2> QED  BY <1>1, <2>1, FS_Subset DEF Burned
<1>3. \A j : j # i => (j \in C <=> j \in B)  BY <1>1 DEF Burned
<1>4. PICK U, V : U = Unminted(h, log, proven) /\ V = Unminted(g, next, known)  OBVIOUS
<1>5. IsFiniteSet(U)  BY <1>4, FS_Subset DEF IsLog, Unminted
<1>6. \A m : m # n => (m \in V <=> m \in U)  BY <1>4 DEF Unminted
<1>7. PICK a, b : a = RawOf(log) /\ b = RawOf(next)  OBVIOUS
<1>8. /\ \A m \in U : m \in DOMAIN log /\ a[m] = log[m].amountOut
      /\ \A m \in V : m \in DOMAIN next /\ b[m] = next[m].amountOut
  BY <1>4, <1>7 DEF Unminted, RawOf
<1>9. /\ \A m \in U : a[m] \in Nat
      /\ \A m \in V : b[m] \in Nat
      /\ \A m \in U : m # n => b[m] = a[m]
  <2>1. \A m \in U : a[m] \in Nat  BY <1>8 DEF IsLog, ResultType
  <2>2. \A m \in V : b[m] \in Nat  BY <1>8 DEF IsLog, ResultType
  <2>3. ASSUME NEW m \in U, m # n  PROVE b[m] = a[m]
    <3>1. m \in V /\ next[m] = log[m]  BY <1>6, <1>8, <2>3
    <3> QED  BY <1>8, <3>1
  <2> QED  BY <2>1, <2>2, <2>3
<1>10. /\ Sum(a, U) \in Nat /\ Sum(b, V) \in Nat
       /\ Sum(b, V) = Sum(a, U) + (IF n \in V THEN b[n] ELSE 0) - (IF n \in U THEN a[n] ELSE 0)
  BY <1>5, <1>6, <1>9, OneSummand
<1>11. /\ SharesIn * Cardinality(B) \in Nat /\ SharesIn * Cardinality(C) \in Nat
       /\ SharesIn * Cardinality(C) = SharesIn * Cardinality(B)
            + (IF i \in C THEN SharesIn ELSE 0) - (IF i \in B THEN SharesIn ELSE 0)
  BY <1>2, <1>3, OneMore
<1>12. PICK x \in Nat, y \in Nat, s \in Nat, t \in Nat :
         /\ x = SharesIn * Cardinality(B) /\ y = SharesIn * Cardinality(C)
         /\ s = Sum(a, U) /\ t = Sum(b, V)
  BY <1>10, <1>11
<1>13. PICK p, q, d, e :
         /\ p = (IF i \in C THEN SharesIn ELSE 0) /\ q = (IF i \in B THEN SharesIn ELSE 0)
         /\ d = (IF n \in V THEN b[n] ELSE 0) /\ e = (IF n \in U THEN a[n] ELSE 0)
  OBVIOUS
<1>14. p \in Nat /\ q \in Nat /\ d \in Nat /\ e \in Nat  BY <1>9, <1>13, HubAssumption
<1>15. y = x + p - q /\ t = s + d - e  BY <1>10, <1>11, <1>12, <1>13
<1>16. /\ Unbacked(h, log, proven) = x + s /\ Unbacked(g, next, known) = y + t
       /\ p = BurnedPart(g, next, i) /\ q = BurnedPart(h, log, i)
       /\ d = UnmintedPart(g, next, known, n) /\ e = UnmintedPart(h, log, proven, n)
  BY <1>1, <1>4, <1>7, <1>8, <1>12, <1>13 DEF Unbacked, BurnedPart, UnmintedPart
<1> QED  BY <1>14, <1>15, <1>16

-----------------------------------------------------------------------------
(* Each kind of step keeps the balance.                                    *)

\* The log of the vault, with one entry of each ref.
LEMMA LogShape ==
  ASSUME LayerInv
  PROVE  /\ IsLog(results)
         /\ \A m, n \in DOMAIN results : results[m].ref = results[n].ref => m = n
<1>1. results \in Seq(ResultType)  BY DEF LayerInv, VaultTypeOK, LogTypeOK
<1>2. DOMAIN results = 1..Len(results) /\ Len(results) \in Nat  BY <1>1
<1>3. IsFiniteSet(DOMAIN results)  BY <1>2, FS_Interval
<1>4. \A n \in DOMAIN results : results[n] \in ResultType  BY <1>1
<1> QED  BY <1>3, <1>4 DEF IsLog, LayerInv, OneResultPerRef

\* Nothing is minted, burned, answered or logged; proofs only of orders.
LEMMA KeptBalances ==
  ASSUME NEW h, NEW g, SharesKept(h, g), \A j \in Ids : g.order[j].outcome = h.order[j].outcome,
         NEW log, IsLog(log), NEW proven, NEW known,
         \A r : r \notin Ids => (r \in known <=> r \in proven)
  PROVE  g.supply = h.supply /\ Unbacked(g, log, known) = Unbacked(h, log, proven)
<1>1. \A j \in Sells : IsBurned(g, log, j) <=> IsBurned(h, log, j)
  BY DEF SharesKept, IsBurned, Ids
<1>2. \A m \in DOMAIN log : IsUnminted(g, log, known, m) <=> IsUnminted(h, log, proven, m)
  BY DEF IsUnminted
<1>3. Burned(g, log) = Burned(h, log)  BY <1>1 DEF Burned
<1>4. Unminted(g, log, known) = Unminted(h, log, proven)  BY <1>2 DEF Unminted
<1> QED  BY <1>3, <1>4 DEF SharesKept, Unbacked

\* A sell is placed: its shares leave the circulation and are to be sold.
LEMMA BurnedBalances ==
  ASSUME NEW h, NEW g, NEW i, SharesBurned(h, g, i), h.supply \in Nat,
         \A j \in Ids : g.order[j].outcome = h.order[j].outcome, h.order[i].outcome # 3,
         NEW log, IsLog(log), ~SoldIn(log, i), NEW proven
  PROVE  g.supply + Unbacked(g, log, proven) = h.supply + Unbacked(h, log, proven)
<1>1. \A j \in Sells : j # i => (IsBurned(g, log, j) <=> IsBurned(h, log, j))
  BY DEF SharesBurned, IsBurned, Ids
<1>2. \A m \in DOMAIN log : IsUnminted(g, log, proven, m) <=> IsUnminted(h, log, proven, m)
  BY DEF IsUnminted
<1>3. UnmintedPart(g, log, proven, 0) = UnmintedPart(h, log, proven, 0)
  BY <1>2 DEF UnmintedPart, Unminted
<1>4. BurnedPart(h, log, i) = 0 /\ BurnedPart(g, log, i) = SharesIn
  BY DEF SharesBurned, BurnedPart, Burned, IsBurned, Ids
<1>5. PICK u, v, p, q :
        /\ u = Unbacked(h, log, proven) /\ v = Unbacked(g, log, proven)
        /\ p = UnmintedPart(h, log, proven, 0) /\ q = UnmintedPart(g, log, proven, 0)
  OBVIOUS
<1>6. u \in Nat /\ v \in Nat /\ v = u + SharesIn - 0 + q - p
  BY <1>1, <1>2, <1>4, <1>5, UnbackedMoves
<1>7. p \in Nat /\ q = p  BY <1>3, <1>5 DEF UnmintedPart, Unminted, IsLog, ResultType
<1>8. g.supply = h.supply - SharesIn /\ SharesIn \in Nat
  BY HubAssumption DEF SharesBurned
<1> QED  BY <1>5, <1>6, <1>7, <1>8

\* An answer: the shares of a buy are minted, those of a failed sell again, and those of a
\* sell that was executed stay with the vault.
LEMMA AnsweredBalances ==
  ASSUME NEW h, h.supply \in Nat, NEW log, IsLog(log), NEW n \in DOMAIN log,
         \A m \in DOMAIN log : log[m].ref = log[n].ref => m = n,
         log[n].ref \in Ids, h.order[log[n].ref].outcome = 0, h.order[log[n].ref].status # "None",
         NEW g, g.order[log[n].ref].outcome = Code(log[n].outcome),
         g.order[log[n].ref].status # "None",
         \A j \in Ids : j # log[n].ref => g.order[j] = h.order[j],
         log[n].ref \in Buys \/ log[n].outcome # "Bought",
         log[n].ref \in Sells \/ log[n].outcome # "Sold",
         g.supply = h.supply + (IF log[n].outcome = "Bought" THEN log[n].amountOut
                                ELSE IF log[n].outcome = "Failed" /\ log[n].ref \in Sells
                                THEN SharesIn ELSE 0),
         NEW proven, NEW known, \A r : r \notin Ids => (r \in known <=> r \in proven)
  PROVE  g.supply + Unbacked(g, log, known) = h.supply + Unbacked(h, log, proven)
<1>1. PICK r \in ResultType : r = log[n]  BY DEF IsLog
<1>2. PICK i \in Ids : i = r.ref  BY <1>1
<1>3. i \in Sells => i \notin Buys  BY HubAssumption
<1>4. \A j \in Sells : j # i => (IsBurned(g, log, j) <=> IsBurned(h, log, j))
  BY <1>1, <1>2 DEF IsBurned, Ids
<1>5. \A m \in DOMAIN log :
        m # n => (IsUnminted(g, log, known, m) <=> IsUnminted(h, log, proven, m))
  BY <1>1, <1>2 DEF IsUnminted
<1>6. SoldIn(log, i) <=> r.outcome = "Sold"  BY <1>1, <1>2 DEF SoldIn
<1>7. BurnedPart(h, log, i) = IF i \in Sells /\ r.outcome # "Sold" THEN SharesIn ELSE 0
  BY <1>1, <1>2, <1>6 DEF BurnedPart, Burned, IsBurned
<1>8. BurnedPart(g, log, i) = IF i \in Sells /\ r.outcome = "Bought" THEN SharesIn ELSE 0
  BY <1>1, <1>2, <1>6 DEF BurnedPart, Burned, IsBurned, Code, ResultType
<1>9. UnmintedPart(h, log, proven, n) = IF r.outcome = "Bought" THEN r.amountOut ELSE 0
  BY <1>1, <1>2 DEF UnmintedPart, Unminted, IsUnminted
<1>10. UnmintedPart(g, log, known, n) = 0
  BY <1>1, <1>2 DEF UnmintedPart, Unminted, IsUnminted, Code
<1>11. PICK u, v, p, q, x :
         /\ u = Unbacked(h, log, proven) /\ v = Unbacked(g, log, known)
         /\ p = BurnedPart(h, log, i) /\ q = UnmintedPart(h, log, proven, n)
         /\ x = BurnedPart(g, log, i)
  OBVIOUS
<1>12. u \in Nat /\ v \in Nat /\ v = u + x - p + 0 - q
  BY <1>4, <1>5, <1>10, <1>11, UnbackedMoves
<1>13. r.amountOut \in Nat /\ SharesIn \in Nat  BY HubAssumption DEF ResultType
<1>14. x = 0  BY <1>1, <1>2, <1>3, <1>8, <1>11
<1>15. g.supply = h.supply + p + q
  BY <1>1, <1>2, <1>3, <1>7, <1>9, <1>11, <1>13 DEF ResultType
<1>16. p \in Nat /\ q \in Nat  BY <1>7, <1>9, <1>11, <1>13
<1> QED  BY <1>11, <1>12, <1>14, <1>15, <1>16

\* A migration is proven to the hub: its shares are minted.
LEMMA MigratedBalances ==
  ASSUME NEW h, h.supply \in Nat, NEW log, IsLog(log), NEW n \in DOMAIN log,
         \A m \in DOMAIN log : log[m].ref = log[n].ref => m = n,
         log[n].ref \notin Ids, log[n].outcome = "Bought",
         NEW g, g.order = h.order, g.supply = h.supply + log[n].amountOut,
         NEW proven, log[n].ref \notin proven
  PROVE  g.supply + Unbacked(g, log, proven \cup {log[n].ref})
           = h.supply + Unbacked(h, log, proven)
<1>1. PICK r \in ResultType : r = log[n]  BY DEF IsLog
<1>2. PICK known : known = proven \cup {r.ref}  OBVIOUS
<1>3. \A j \in Sells : IsBurned(g, log, j) <=> IsBurned(h, log, j)  BY DEF IsBurned
<1>4. \A m \in DOMAIN log :
        m # n => (IsUnminted(g, log, known, m) <=> IsUnminted(h, log, proven, m))
  BY <1>1, <1>2 DEF IsUnminted
<1>5. BurnedPart(g, log, 0) = BurnedPart(h, log, 0)  BY <1>3 DEF BurnedPart, Burned
<1>6. UnmintedPart(h, log, proven, n) = r.amountOut /\ UnmintedPart(g, log, known, n) = 0
  BY <1>1, <1>2 DEF UnmintedPart, Unminted, IsUnminted
<1>7. PICK u, v, p :
        /\ u = Unbacked(h, log, proven) /\ v = Unbacked(g, log, known)
        /\ p = BurnedPart(h, log, 0)
  OBVIOUS
<1>8. u \in Nat /\ v \in Nat /\ v = u + p - p + 0 - r.amountOut
  BY <1>3, <1>4, <1>5, <1>6, <1>7, UnbackedMoves
<1>9. p \in Nat /\ r.amountOut \in Nat
  BY <1>7, HubAssumption DEF BurnedPart, ResultType
<1> QED  BY <1>1, <1>2, <1>7, <1>8, <1>9

\* The log has one more entry, of a ref that had none.
LongerLog(h, log, proven, next, n) ==
  /\ n \notin DOMAIN log /\ DOMAIN next = DOMAIN log \cup {n}
  /\ \A m \in DOMAIN log : next[m] = log[m] /\ log[m].ref # next[n].ref
  /\ next[n].ref \in Ids => h.order[next[n].ref].outcome = 0
  /\ next[n].outcome = "Sold" =>
       /\ next[n].ref \in Sells /\ h.order[next[n].ref].status # "None"
       /\ next[n].amountIn = SharesIn
  /\ next[n].ref \notin proven

\* The vault logs an answer: what it bought is to be minted, what it sold was burned.
LEMMA LoggedBalances ==
  ASSUME NEW h, NEW log, IsLog(log), NEW next, IsLog(next), NEW proven, NEW n,
         LongerLog(h, log, proven, next, n)
  PROVE  /\ Unbacked(h, log, proven) \in Nat /\ Unbacked(h, next, proven) \in Nat
         /\ Unbacked(h, next, proven) = Unbacked(h, log, proven) + StockOf(next[n])
<1> USE DEF LongerLog
<1>1. PICK r \in ResultType : r = next[n]  BY DEF IsLog
<1>2. PICK i : i = r.ref  OBVIOUS
<1>3. \A j : SoldIn(next, j) <=> SoldIn(log, j) \/ (j = i /\ r.outcome = "Sold")
  BY <1>1, <1>2 DEF SoldIn
<1>4. ~SoldIn(log, i)  BY <1>1, <1>2 DEF SoldIn
<1>5. \A j \in Sells : j # i => (IsBurned(h, next, j) <=> IsBurned(h, log, j))
  BY <1>3 DEF IsBurned
<1>6. \A m \in DOMAIN log : IsUnminted(h, next, proven, m) <=> IsUnminted(h, log, proven, m)
  BY DEF IsUnminted
<1>7. UnmintedPart(h, log, proven, n) = 0  BY DEF UnmintedPart, Unminted
<1>8. UnmintedPart(h, next, proven, n) = IF r.outcome = "Bought" THEN r.amountOut ELSE 0
  BY <1>1, <1>2 DEF UnmintedPart, Unminted, IsUnminted
<1>9. PICK u, v, p, q, x :
        /\ u = Unbacked(h, log, proven) /\ v = Unbacked(h, next, proven)
        /\ p = BurnedPart(h, log, i) /\ q = BurnedPart(h, next, i)
        /\ x = UnmintedPart(h, next, proven, n)
  OBVIOUS
<1>10. u \in Nat /\ v \in Nat /\ v = u + q - p + x - 0
  <2>1. \A m \in DOMAIN log : m \in DOMAIN next /\ next[m] = log[m]  OBVIOUS
  <2>2. \A m \in DOMAIN next : m # n => m \in DOMAIN log  OBVIOUS
  <2> QED  BY <1>5, <1>6, <1>7, <1>9, <2>1, <2>2, UnbackedMoves
<1>11. /\ p \in Nat /\ q \in Nat /\ x \in Nat /\ r.amountOut \in Nat /\ r.amountIn \in Nat
       /\ SharesIn \in Nat
  BY <1>8, <1>9, HubAssumption DEF BurnedPart, ResultType
<1>12. CASE r.outcome = "Sold"
  <2>1. p = SharesIn /\ q = 0
    BY <1>1, <1>2, <1>3, <1>4, <1>9, <1>12 DEF BurnedPart, Burned, IsBurned, Ids
  <2>2. x = 0 /\ StockOf(r) = -SharesIn  BY <1>1, <1>8, <1>9, <1>12 DEF StockOf
  <2> QED  BY <1>1, <1>9, <1>10, <1>11, <2>1, <2>2
<1>13. CASE r.outcome # "Sold"
  <2>1. p = q  BY <1>3, <1>9, <1>13 DEF BurnedPart, Burned, IsBurned
  <2>2. x = StockOf(r)  BY <1>8, <1>9, <1>13 DEF StockOf, ResultType
  <2> QED  BY <1>1, <1>9, <1>10, <1>11, <2>1, <2>2
<1> QED  BY <1>12, <1>13

-----------------------------------------------------------------------------
(* The shares in the layer.                                                *)

\* What the hub asks the vault to sell: the shares of a sell, whichever the lane.
MessagesOK ==
  /\ \A o \in lzOrdersSent : o.side = "Sell" => o.ref \in Sells /\ o.amountIn = SharesIn
  /\ \A d \in deliversSent : d.shares > 0 => d.ref \in Sells /\ d.shares = SharesIn
\* What was proven to the hub is in the vault's log.
ProvenOK == \A r \in reconciled : Logged(r)
\* EveryShareBacked.
SharesBalance == entitled = hub.supply + Unbacked(hub, results, reconciled)

\* The invariant behind the backing of the shares.
SharesInv == LayerInv /\ MessagesOK /\ ProvenOK /\ SharesBalance

\* The messages that the hub sends are for the shares of the sell.
LEMMA MessagesSent ==
  ASSUME MessagesOK, HubStep \/ UNCHANGED sentVars
  PROVE  MessagesOK'
<1>1. ASSUME UNCHANGED sentVars  PROVE MessagesOK'  BY <1>1 DEF sentVars, MessagesOK
<1>2. ASSUME NEW i \in Ids, NEW amount, i \in Buys \/ amount = SharesIn,
             lzOrdersSent' \subseteq lzOrdersSent \cup {OrderMessage(i, amount)},
             deliversSent' = deliversSent
      PROVE  MessagesOK'
  BY <1>2 DEF MessagesOK, OrderMessage, Ids
<1>3. ASSUME NEW i \in Ids, NEW shares, NEW mode, shares = 0 \/ (i \in Sells /\ shares = SharesIn),
             deliversSent' = deliversSent \cup {Delivery(i, shares, mode)},
             lzOrdersSent' = lzOrdersSent
      PROVE  MessagesOK'
  BY <1>3 DEF MessagesOK, Delivery
<1>4. ASSUME NEW i \in Ids, UserStep(i)  PROVE MessagesOK'
  <2>1. CASE Dispatch(i)
    <3>1. i \in Buys \/ AmountIn(i) = SharesIn  BY DEF AmountIn
    <3> QED  BY <1>2, <2>1, <3>1 DEF Dispatch
  <2>2. ASSUME NEW fromReserve \in BOOLEAN, VoidOrder(i, fromReserve)  PROVE MessagesOK'
    <3>1. i \in Buys /\ lzOrdersSent' = lzOrdersSent \cup {OrderMessage(i, 0)}
          /\ deliversSent' = deliversSent
      BY <2>2 DEF VoidOrder
    <3> QED  BY <1>2, <3>1
  <2>3. CASE Escalate(i)  BY <1>3, <2>3 DEF Escalate
  <2>4. CASE EscalateFunds(i)
    <3>1. /\ deliversSent' = deliversSent \cup {Delivery(i, 0, "Settlement")}
          /\ lzOrdersSent' = lzOrdersSent
      BY <2>4 DEF EscalateFunds
    <3> QED  BY <1>3, <3>1
  <2>5. ASSUME NEW mode, CanonicalRedeem(i, mode)  PROVE MessagesOK'
    BY <1>3, <2>5 DEF CanonicalRedeem
  <2>6. \/ UNCHANGED sentVars
        \/ Dispatch(i) \/ Escalate(i) \/ EscalateFunds(i)
        \/ \E fromReserve \in BOOLEAN : VoidOrder(i, fromReserve)
        \/ \E mode \in {"Stock", "Settlement"} : CanonicalRedeem(i, mode)
    BY <1>4 DEF UserStep, RequestBuy, RequestSell, CancelPending, RequestCancel, Claim
  <2> QED  BY <1>1, <2>1, <2>2, <2>3, <2>4, <2>5, <2>6
<1>5. ASSUME NEW i \in Ids, KeeperStep(i)  PROVE MessagesOK'
  <2>1. ASSUME NEW routeFee, Launch(i, routeFee)  PROVE MessagesOK'
    <3>1. /\ i \in Buys /\ deliversSent' = deliversSent
          /\ lzOrdersSent' \subseteq lzOrdersSent \cup {OrderMessage(i, Principal)}
      BY <2>1 DEF Launch, sentVars
    <3> QED  BY <1>2, <3>1
  <2>2. CASE SubmitFundedBuy(i)
    <3>1. /\ i \in Buys /\ deliversSent' = deliversSent
          /\ lzOrdersSent' \subseteq lzOrdersSent \cup {OrderMessage(i, Principal)}
      BY <2>2, HubAssumption DEF SubmitFundedBuy, Buys
    <3> QED  BY <1>2, <3>1
  <2>3. UNCHANGED sentVars \/ SubmitFundedBuy(i) \/ \E routeFee \in RouteFees : Launch(i, routeFee)
    BY <1>5 DEF KeeperStep, ReserveReward, BeginFunding, CancelReward, ClaimResult
  <2> QED  BY <1>1, <2>1, <2>2, <2>3
<1>6. ASSUME AdminStep PROVE UNCHANGED sentVars
  BY <1>6 DEF AdminStep, ClaimFees, WithdrawHubFloat, SetHubFloat, SetMintsHalted
<1> QED  BY <1>1, <1>4, <1>5, <1>6 DEF HubStep

\* What the vault sells is what it was asked to.
NewSales ==
  \A n \in DOMAIN results' \ DOMAIN results :
    results'[n].outcome = "Sold" =>
      /\ results'[n].ref \in Sells /\ Ready(results'[n].ref)
      /\ results'[n].amountIn = SharesIn

\* The vault sells what an order message or a delivery asked it to.
LEMMA VaultSells ==
  ASSUME LayerInv, MessagesOK, VaultMoves
  PROVE  NewSales
<1>1. ASSUME UNCHANGED results  PROVE NewSales  BY <1>1 DEF NewSales
<1>2. ASSUME NEW e, results' = Append(results, e),
             e.outcome = "Sold" => e.ref \in Sells /\ Ready(e.ref) /\ e.amountIn = SharesIn
      PROVE  NewSales
  <2>1. results \in Seq(ResultType)  BY DEF LayerInv, VaultTypeOK, LogTypeOK
  <2>2. \A n \in DOMAIN results' \ DOMAIN results : results'[n] = e  BY <1>2, <2>1
  <2> QED  BY <1>2, <2>2 DEF NewSales
<1>3. ASSUME NEW r, NEW outcome, NEW in, NEW out, NEW overLz, Record(r, outcome, in, out, overLz),
             outcome = "Sold" => r \in Sells /\ Ready(r) /\ in = SharesIn
      PROVE  NewSales
  <2>1. PICK e : e = [ref |-> r, outcome |-> outcome, amountIn |-> in, amountOut |-> out,
                      seq |-> Len(results)]
    OBVIOUS
  <2>2. results' = Append(results, e)  BY <1>3, <2>1 DEF Record
  <2>3. e.outcome = "Sold" => e.ref \in Sells /\ Ready(e.ref) /\ e.amountIn = SharesIn
    BY <1>3, <2>1
  <2> QED  BY <1>2, <2>2, <2>3
<1>4. ASSUME NEW o, Execute(o),
             o.side = "Sell" => o.ref \in Sells /\ Ready(o.ref) /\ o.amountIn = SharesIn
      PROVE  NewSales
  <2>1. CASE Bought(o)
    <3>1. PICK shares \in BuyOuts : Record(o.ref, "Bought", o.amountIn, shares, TRUE)
      BY <2>1 DEF Bought
    <3> QED  BY <1>3, <3>1
  <2>2. CASE Sold(o)
    <3>1. PICK out \in SellOuts : Record(o.ref, "Sold", o.amountIn, out, TRUE)
      BY <2>2 DEF Sold
    <3> QED  BY <1>3, <1>4, <2>2, <3>1 DEF Sold
  <2>3. CASE Failed(o)  BY <1>3, <2>3 DEF Failed
  <2> QED  BY <1>4, <2>1, <2>2, <2>3 DEF Execute
<1>5. ASSUME NEW o \in lzOrdersSent, ReceiveOrder(o)  PROVE NewSales
  <2>1. o.side = "Sell" => o.ref \in Sells /\ Ready(o.ref) /\ o.amountIn = SharesIn
    BY DEF LayerInv, SentOK, MessagesOK
  <2>2. Execute(o) \/ UNCHANGED results
    BY <1>5 DEF ReceiveOrder, Execute, vaultVars, logVars
  <2> QED  BY <1>1, <1>4, <2>1, <2>2
<1>6. ASSUME NEW r \in Refs, ExecuteFunded(r)  PROVE NewSales
  <2>1. PICK o : o = [ref |-> r, side |-> "Buy", amountIn |-> waiting[r]]  OBVIOUS
  <2>2. o.side # "Sell" /\ Execute(o)  BY <1>6, <2>1 DEF ExecuteFunded
  <2> QED  BY <1>4, <2>2
<1>7. ASSUME NEW d \in deliversSent, Deliver(d)  PROVE NewSales
  <2>1. CASE DeliverSettled(d)  BY <1>1, <2>1 DEF DeliverSettled, vaultVars, logVars
  <2>2. CASE DeliverVoid(d)
    <3>1. Record(d.ref, "Failed", 0, 0, FALSE)  BY <2>2 DEF DeliverVoid
    <3> QED  BY <1>3, <3>1
  <2>3. CASE DeliverShares(d)
    <3>1. Record(d.ref, "Sold", d.shares, 0, FALSE) /\ d.shares > 0
      BY <2>3 DEF DeliverShares
    <3>2. d.ref \in Sells /\ Ready(d.ref) /\ d.shares = SharesIn
      BY <3>1 DEF LayerInv, SentOK, MessagesOK
    <3> QED  BY <1>3, <3>1, <3>2
  <2> QED  BY <1>7, <2>1, <2>2, <2>3 DEF Deliver
<1>8. ASSUME NEW m, MigrateIn(m)  PROVE NewSales
  <2>1. PICK amount \in MigrationIns, shares \in BuyOuts :
          results' = Append(results, [ref |-> m, outcome |-> "Bought", amountIn |-> amount,
                                      amountOut |-> shares, seq |-> Len(results)])
    BY <1>8 DEF MigrateIn
  <2>2. PICK e : e = [ref |-> m, outcome |-> "Bought", amountIn |-> amount,
                      amountOut |-> shares, seq |-> Len(results)]
    OBVIOUS
  <2> QED  BY <1>2, <2>1, <2>2
<1>9. ASSUME \/ \E r \in Refs : ReturnFunds(r) \/ ClaimUsd(r) \/ ClaimStock(r)
             \/ \E r, amount : Fund(r, amount)
             \/ Checkpoint \/ \E b \in BOOLEAN : SetVaultFloat(b)
      PROVE  UNCHANGED results
  BY <1>9 DEF ReturnFunds, ClaimUsd, ClaimStock, Fund, Checkpoint, SetVaultFloat, logVars
<1> QED  BY <1>1, <1>5, <1>6, <1>7, <1>8, <1>9 DEF VaultMoves, VaultStep

\* The entitlement moves with what the vault logs.
LEMMA VaultKeepsBalance ==
  ASSUME SharesInv, UNCHANGED <<hub, reconciled>>, AnyVaultStep, NewSales, LayerInv'
  PROVE  SharesBalance'
<1>0. LayerInv /\ LogStep  BY NextLogs DEF SharesInv, LayerInv
<1>1. CASE UNCHANGED <<results, entitled>>  BY <1>1 DEF SharesInv, SharesBalance
<1>2. ASSUME NEW e \in ResultType, Appends(e)  PROVE SharesBalance'
  <2>1. PICK next : next = results'  OBVIOUS
  <2>2. results \in Seq(ResultType) /\ next = Append(results, e)
    BY <1>0, <1>2, <2>1 DEF LayerInv, VaultTypeOK, LogTypeOK, Appends
  <2>3. PICK n : n = Len(results) + 1  OBVIOUS
  <2>4. /\ n \notin DOMAIN results /\ DOMAIN next = DOMAIN results \cup {n}
        /\ \A m \in DOMAIN results : next[m] = results[m]
        /\ next[n] = e
    BY <2>2, <2>3
  <2>5. IsLog(results)  BY <1>0, LogShape
  <2>6. IsLog(next)
    <3>1. IsFiniteSet(DOMAIN next)  BY <2>4, <2>5, FS_AddElement DEF IsLog
    <3> QED  BY <2>4, <2>5, <3>1 DEF IsLog
  <2>7. ~Logged(e.ref)
    BY <1>0, <1>2 DEF Appends, LayerInv, OneResultPerRef
  <2>8. \A m \in DOMAIN results : results[m].ref # e.ref  BY <2>7 DEF Logged
  <2>9. e.ref \notin reconciled  BY <2>7 DEF SharesInv, ProvenOK
  <2>10. e.ref \in Ids => hub.order[e.ref].outcome = 0
    BY <1>0, <2>8 DEF LayerInv, HubAgreesWithVault, ResultOf, Order
  <2>11. e.outcome = "Sold" =>
           e.ref \in Sells /\ hub.order[e.ref].status # "None" /\ e.amountIn = SharesIn
    BY <2>1, <2>4 DEF NewSales, Ready, Order
  <2>12. PICK h, log, proven : h = hub /\ log = results /\ proven = reconciled  OBVIOUS
  <2>13. PICK u, v, x, y : /\ u = Unbacked(h, log, proven) /\ v = Unbacked(h, next, proven)
                           /\ x = h.supply /\ y = StockOf(e)
    OBVIOUS
  <2>14. u \in Nat /\ v \in Nat /\ v = u + y
    <3>1. IsLog(log) /\ IsLog(next) /\ LongerLog(h, log, proven, next, n)
      BY <2>4, <2>5, <2>6, <2>8, <2>9, <2>10, <2>11, <2>12 DEF LongerLog
    <3>2. /\ Unbacked(h, log, proven) \in Nat /\ Unbacked(h, next, proven) \in Nat
          /\ Unbacked(h, next, proven) = Unbacked(h, log, proven) + StockOf(next[n])
      BY <3>1, LoggedBalances
    <3> QED  BY <2>4, <2>13, <3>2
  <2>15. PICK a \in Int, b \in Int : a = entitled /\ b = entitled'
    BY <1>0 DEF SharesInv, LayerInv, VaultTypeOK, MoneyTypeOK
  <2>16. a = x + u /\ b - a = y
    BY <1>2, <2>12, <2>13, <2>15 DEF SharesInv, SharesBalance, Appends
  <2>17. x \in Nat  BY <1>0, <2>12, <2>13 DEF LayerInv, BooksOK, IsHub
  <2>18. b = x + v  BY <2>14, <2>16, <2>17
  <2> QED  BY <2>1, <2>12, <2>13, <2>15, <2>18 DEF SharesBalance
<1> QED  BY <1>0, <1>1, <1>2 DEF LogStep

\* The supply after an answer.
LEMMA SettleSupply ==
  ASSUME BooksOK, NEW i \in Ids, NEW r, WellFormed(r), NEW canonical, Settle(i, r, canonical)
  PROVE  /\ hub.order[i].outcome = 0
         /\ r.outcome = "Bought" => i \in Buys
         /\ r.outcome = "Sold" => i \in Sells
         /\ hub'.supply = hub.supply + (IF r.outcome = "Bought" THEN r.amountOut
                                        ELSE IF r.outcome = "Failed" /\ i \in Sells
                                        THEN SharesIn ELSE 0)
<1>0. HasHubShape(hub) /\ hub.supply \in Nat  BY DEF BooksOK, IsHub, HasHubShape
<1>1. Applies(i, r.outcome) /\ OrderOK(i, hub.order[i])  BY DEF Settle, BooksOK
<1>2. hub.order[i].outcome = 0
  BY <1>1 DEF Applies, Unanswered, FloatCancelled, OrderOK, Order
<1>3. /\ r.outcome = "Bought" => i \in Buys
      /\ r.outcome = "Sold" => i \in Sells
  BY <1>1 DEF Applies
<1>4. PICK g, raw : g = hub' /\ raw = r.amountOut  OBVIOUS
<1>5. CASE r.outcome = "Bought"
  <2>1. g = Orphaned(hub, i, raw, canonical) \/ g = BoughtApplied(hub, i, raw, canonical)
    BY <1>4, <1>5 DEF Settle
  <2>2. g.supply = hub.supply + raw  BY <1>0, <2>1, BoughtSupply
  <2> QED  BY <1>2, <1>3, <1>4, <1>5, <2>2
<1>6. CASE r.outcome = "Sold"
  <2>1. PICK allowed : g = SoldApplied(hub, i, raw, canonical, allowed)
    BY <1>4, <1>6 DEF Settle
  <2>2. g.supply = hub.supply  BY <1>0, <2>1, SoldSupply
  <2> QED  BY <1>0, <1>2, <1>3, <1>4, <1>6, <2>2
<1>7. CASE r.outcome = "Failed" /\ i \in Buys
  <2>1. i \notin Sells  BY <1>7, HubAssumption
  <2>2. g = BuyFailed(hub, i, canonical)  BY <1>4, <1>7, <2>1 DEF Settle
  <2>3. g.supply = hub.supply  BY <1>0, <2>2, BuyFailedSupply
  <2> QED  BY <1>0, <1>2, <1>3, <1>4, <1>7, <2>1, <2>3
<1>8. CASE r.outcome = "Failed" /\ i \in Sells
  <2>1. i \notin Buys  BY <1>8, HubAssumption
  <2>2. g = SellFailed(hub, i, canonical)  BY <1>4, <1>8, <2>1 DEF Settle
  <2>3. g.supply = hub.supply + SharesIn  BY <1>0, <2>2, SellFailedSupply
  <2> QED  BY <1>2, <1>3, <1>4, <1>8, <2>3
<1> QED  BY <1>5, <1>6, <1>7, <1>8 DEF WellFormed, ResultType, Ids

\* The balance after a step of the hub: what it mints or burns it answers for.
Rebalanced ==
  hub'.supply + Unbacked(hub', results, reconciled')
    = hub.supply + Unbacked(hub, results, reconciled)

\* An answer by either lane.
LEMMA AnswerBalances ==
  ASSUME LayerInv, NEW n \in DOMAIN results, NEW r, r = results[n], r.ref \in Ids,
         NEW canonical \in BOOLEAN, Settle(r.ref, r, canonical)
  PROVE  Rebalanced
<1>1. BooksOK /\ WellFormed(r) /\ Ready(r.ref)  BY LoggedIsReady DEF LayerInv
<1>2. PICK h, g, log : h = hub /\ g = hub' /\ log = results  OBVIOUS
<1>3. PICK proven, known : proven = reconciled /\ known = reconciled'  OBVIOUS
<1>4. Answers(h, g, r.ref, Code(r.outcome), r.amountOut)
  BY <1>1, <1>2, SettleAnswers
<1>5. /\ h.order[r.ref].outcome = 0
      /\ r.ref \in Buys \/ r.outcome # "Bought"
      /\ r.ref \in Sells \/ r.outcome # "Sold"
      /\ g.supply = h.supply + (IF r.outcome = "Bought" THEN r.amountOut
                                ELSE IF r.outcome = "Failed" /\ r.ref \in Sells
                                THEN SharesIn ELSE 0)
  BY <1>1, <1>2, SettleSupply
<1>6. IsLog(log) /\ n \in DOMAIN log /\ r = log[n]
      /\ \A m \in DOMAIN log : log[m].ref = log[n].ref => m = n
  BY <1>2, LogShape
<1>7. /\ g.order[r.ref].outcome = Code(r.outcome)
      /\ g.order[r.ref].status # "None" /\ h.order[r.ref].status # "None"
      /\ \A j \in Ids : j # r.ref => g.order[j] = h.order[j]
  BY <1>1, <1>2, <1>4 DEF Answers, Sound, Follows, Differs, Ready, Order
<1>8. \A x : x \notin Ids => (x \in known <=> x \in proven)  BY <1>3 DEF Settle
<1>9. h.supply \in Nat  BY <1>1, <1>2 DEF BooksOK, IsHub
<1>10. g.supply + Unbacked(g, log, known) = h.supply + Unbacked(h, log, proven)
  BY <1>5, <1>6, <1>7, <1>8, <1>9, AnsweredBalances
<1> QED  BY <1>2, <1>3, <1>10 DEF Rebalanced

\* Shares and answers as they were.
LEMMA QuietBalances ==
  ASSUME LayerInv, SharesKept(hub, hub'),
         hub' = hub \/ Level(hub, hub') \/ \E i \in Ids : Quiet(hub, hub', i),
         \A r : r \notin Ids => (r \in reconciled' <=> r \in reconciled)
  PROVE  Rebalanced
<1>1. \A j \in Ids : hub'.order[j].outcome = hub.order[j].outcome
  BY DEF Level, Quiet, Sound, Differs, SameAnswer
<1>2. IsLog(results)  BY LogShape
<1>3. PICK h, g, log, proven, known :
        /\ h = hub /\ g = hub' /\ log = results /\ proven = reconciled /\ known = reconciled'
  OBVIOUS
<1>4. g.supply = h.supply /\ Unbacked(g, log, known) = Unbacked(h, log, proven)
  BY <1>1, <1>2, <1>3, KeptBalances
<1> QED  BY <1>3, <1>4 DEF Rebalanced

\* The hub's own steps.
LEMMA HubBalances ==
  ASSUME LayerInv, HubStep
  PROVE  Rebalanced /\ reconciled' = reconciled
<1>0. BooksOK /\ Owed(hub) >= 0  BY TotalsAreAmounts DEF LayerInv, BooksOK
<1>1. reconciled' = reconciled
  <2>1. ASSUME NEW i \in Ids, UserStep(i)  PROVE reconciled' = reconciled
    BY ZenonT(30), <2>1
    DEF UserStep, RequestBuy, RequestSell, Dispatch, CancelPending, RequestCancel, VoidOrder,
        Escalate, EscalateFunds, CanonicalRedeem, Claim, laneVars
  <2>2. ASSUME NEW i \in Ids, KeeperStep(i)  PROVE reconciled' = reconciled
    BY <2>2, Zenon DEF KeeperStep, Launch, ReserveReward, BeginFunding, SubmitFundedBuy, CancelReward,
                ClaimResult, laneVars
  <2>3. ASSUME AdminStep  PROVE reconciled' = reconciled
    BY <2>3 DEF AdminStep, ClaimFees, WithdrawHubFloat, SetHubFloat, SetMintsHalted, laneVars
  <2> QED  BY SMTT(30), <2>1, <2>2, <2>3 DEF HubStep
<1>2. Level(hub, hub') \/ \E i \in Ids : Quiet(hub, hub', i)  BY <1>0, HubStepKind
<1>3. CASE SharesKept(hub, hub')  BY <1>1, <1>2, <1>3, QuietBalances
<1>4. ASSUME NEW i \in Sells, SharesBurned(hub, hub', i)  PROVE Rebalanced
  <2>1. PICK h, g, log, proven : h = hub /\ g = hub' /\ log = results /\ proven = reconciled
    OBVIOUS
  <2>2. \A j \in Ids : g.order[j].outcome = h.order[j].outcome
    BY <1>2, <2>1 DEF Level, Quiet, Sound, Differs, SameAnswer
  <2>3. i \in Ids /\ h.order[i].status = "None"  BY <1>4, <2>1 DEF SharesBurned, Ids
  <2>4. h.order[i].outcome = 0  BY <1>0, <2>1, <2>3 DEF BooksOK, OrderOK, NoOrder
  <2>5. ~SoldIn(log, i)
    BY <2>1, <2>3, LoggedIsReady DEF SoldIn, Ready, Order
  <2>6. IsLog(log) /\ h.supply \in Nat  BY <1>0, <2>1, LogShape DEF BooksOK, IsHub
  <2>7. SharesBurned(h, g, i)  BY <1>4, <2>1
  <2>8. g.supply + Unbacked(g, log, proven) = h.supply + Unbacked(h, log, proven)
    BY <2>2, <2>4, <2>5, <2>6, <2>7, BurnedBalances
  <2> QED  BY <1>1, <2>1, <2>8 DEF Rebalanced
<1>5. SharesKept(hub, hub') \/ \E i \in Sells : SharesBurned(hub, hub', i)
  BY <1>0, HubShares
<1> QED  BY <1>1, <1>3, <1>4, <1>5

\* Money that arrives mints and burns nothing.
LEMMA ReturnBalances ==
  ASSUME LayerInv, NEW i \in Ids, Order(i).status # "None", NEW amount \in Nat,
         ReceiveReturn(i, amount)
  PROVE  Rebalanced /\ reconciled' = reconciled
<1>0. /\ IsHub(hub) /\ OrderOK(i, hub.order[i]) /\ hub.order[i].status # "None"
      /\ HasHubShape(hub)
  BY DEF LayerInv, BooksOK, Order, IsHub, HasHubShape
<1>1. PICK h : h = hub'  OBVIOUS
<1>2. h = Returned(hub, i, amount)  BY <1>1 DEF ReceiveReturn
<1>3. Quiet(hub, h, i)  BY <1>0, <1>2, ReturnedEffect
<1>4. h.supply = hub.supply  BY <1>0, <1>2, ReturnedSupply DEF SameSupply
<1>5. SharesKept(hub, h)  BY <1>0, <1>3, <1>4, PlacedBefore DEF Quiet
<1>6. reconciled' = reconciled  BY DEF ReceiveReturn, laneVars
<1> QED  BY <1>1, <1>3, <1>5, <1>6, QuietBalances

\* So does a subsidy.
LEMMA SubsidyBalances ==
  ASSUME LayerInv, NEW i \in Ids, NEW amount \in Nat, Subsidize(i, amount)
  PROVE  Rebalanced /\ reconciled' = reconciled
<1>0. /\ BooksOK /\ HasHubShape(hub) /\ OrderOK(i, hub.order[i])
      /\ hub.order[i].status # "None"
  BY DEF LayerInv, BooksOK, IsHub, HasHubShape, Subsidize, Order
<1>1. PICK h : h = hub'  OBVIOUS
<1>2. PICK c : c = [hub EXCEPT !.order[i].extra = @ + amount, !.escrowed = @ + amount,
                               !.native = @ + amount]
  OBVIOUS
<1>3. SameSupply(hub, c)  BY <1>0, <1>2 DEF HasHubShape, SameSupply
<1>4. h = c \/ h = ReturnedBuyClosed(c, i, FALSE)  BY <1>1, <1>2 DEF Subsidize
<1>5. h.supply = hub.supply
  BY ZenonT(30), <1>3, <1>4, ReturnedBuyClosedSupply DEF SameSupply
<1>6. Quiet(hub, h, i)  BY <1>0, <1>1, SubsidizeQuiet
<1>7. SharesKept(hub, h)  BY <1>0, <1>5, <1>6, PlacedBefore DEF Quiet
<1>8. reconciled' = reconciled  BY DEF Subsidize, laneVars
<1> QED  BY <1>1, <1>6, <1>7, <1>8, QuietBalances

\* What a checkpoint proves.
LEMMA ProofBalances ==
  ASSUME LayerInv, NEW n \in DOMAIN results, ProvenResult(n)
  PROVE  Rebalanced /\ reconciled' = reconciled \cup {results[n].ref}
<1>1. PICK r : r = results[n]  OBVIOUS
<1>2. BooksOK /\ Reconcile(r) /\ r.ref \notin reconciled
  BY <1>1 DEF LayerInv, ProvenResult, Reconcile
<1>3. CASE ReconcileMigration(r)
  <2>1. PICK h, g, log, proven : h = hub /\ g = hub' /\ log = results /\ proven = reconciled
    OBVIOUS
  <2>2. /\ log[n].ref \notin Ids /\ log[n].outcome = "Bought" /\ log[n].ref \notin proven
        /\ n \in DOMAIN log
    BY <1>1, <1>2, <1>3, <2>1 DEF ReconcileMigration
  <2>3. g = [h EXCEPT !.supply = @ + log[n].amountOut]
    BY <1>1, <1>3, <2>1 DEF ReconcileMigration
  <2>4. HasHubShape(h) /\ h.supply \in Nat  BY <1>2, <2>1 DEF BooksOK, IsHub, HasHubShape
  <2>5. g.order = h.order /\ g.supply = h.supply + log[n].amountOut
    BY <2>3, <2>4 DEF HasHubShape
  <2>6. IsLog(log) /\ \A m \in DOMAIN log : log[m].ref = log[n].ref => m = n
    BY <2>1, <2>2, LogShape
  <2>7. g.supply + Unbacked(g, log, proven \cup {log[n].ref})
          = h.supply + Unbacked(h, log, proven)
    BY <2>2, <2>4, <2>5, <2>6, MigratedBalances
  <2>8. reconciled' = proven \cup {log[n].ref}  BY <1>1, <1>3, <2>1 DEF ReconcileMigration
  <2> QED  BY <2>1, <2>7, <2>8 DEF Rebalanced
<1>4. CASE ReconcileSettled(r)
  <2>1. r.ref \in Ids /\ Order(r.ref).lzSettled  BY <1>4 DEF ReconcileSettled
  <2>2. Order(r.ref).outcome # 0  BY <1>2, <2>1 DEF BooksOK, OrderOK, Order
  <2>3. PICK m \in ResultOf(r.ref) : Matches(r.ref, results[m])
    BY <2>1, <2>2 DEF LayerInv, HubAgreesWithVault
  <2>4. m = n  BY <1>1, <2>3 DEF LayerInv, OneResultPerRef, ResultOf
  <2>5. hub' = hub /\ reconciled' = reconciled \cup {r.ref}
    BY <1>1, <1>4, <2>3, <2>4 DEF ReconcileSettled
  <2>6. SharesKept(hub, hub')  BY <2>5 DEF SharesKept
  <2>7. Rebalanced  BY <2>1, <2>5, <2>6, QuietBalances
  <2> QED  BY <1>1, <2>5, <2>7
<1>5. CASE r.ref \in Ids /\ Settle(r.ref, r, TRUE)
  <2>1. Rebalanced  BY <1>1, <1>5, AnswerBalances
  <2> QED  BY <1>1, <1>5, <2>1 DEF Settle
<1> QED  BY <1>2, <1>3, <1>4, <1>5 DEF Reconcile

\* Each step of the hub, or of the channels, keeps the balance.
LEMMA HubSideBalances ==
  ASSUME LayerInv, LayerNext, UNCHANGED vaultVars
  PROVE  \/ Rebalanced /\ \A r \in reconciled' \ reconciled : Logged(r)
         \/ UNCHANGED <<hub, reconciled, sentVars>>
<1>1. ASSUME NEW n \in DOMAIN results  PROVE Logged(results[n].ref)  BY DEF Logged
<1>2. ASSUME NEW n \in DOMAIN results, ProvenResult(n)
      PROVE  Rebalanced /\ \A r \in reconciled' \ reconciled : Logged(r)
  BY <1>1, <1>2, ProofBalances
<1>3. ASSUME NEW r \in lzSent, FastResult(r)  PROVE Rebalanced /\ reconciled' = reconciled
  <2>1. PICK n \in DOMAIN results : results[n] = r  BY DEF LayerInv, LogOK
  <2>2. r.ref \in Ids /\ Settle(r.ref, r, FALSE)  BY <1>3 DEF FastResult, ReceiveResult
  <2>3. Rebalanced  BY <2>1, <2>2, AnswerBalances
  <2> QED  BY <2>2, <2>3 DEF Settle
<1>4. ASSUME NEW i \in Buys, NEW cost \in Costs, Bounce(i, cost)
      PROVE  Rebalanced /\ reconciled' = reconciled
  <2>1. i \in Ids /\ Order(i).status # "None"
    BY <1>4 DEF Bounce, LayerInv, SentOK, Ids, Ready
  <2>2. Principal - cost \in Nat  BY HubAssumption, LayerAssumption
  <2> QED  BY <1>4, <2>1, <2>2, ReturnBalances DEF Bounce
<1>5. ASSUME NEW t \in returnsSent, NEW cost \in Costs, Credit(t, cost)
      PROVE  Rebalanced /\ reconciled' = reconciled
  <2>1. t.ref \in Ids /\ t.amount \in Nat
    BY LayerAssumption DEF LayerInv, VaultTypeOK, TransferType
  <2>2. Order(t.ref).status # "None"  BY <2>1, LayerAssumption DEF LayerInv, HeldOK, Ready
  <2>3. t.amount - cost \in Nat  BY <1>5, <2>1, LayerAssumption, HubAssumption DEF Credit
  <2> QED  BY <1>5, <2>1, <2>2, <2>3, ReturnBalances DEF Credit
<1>6. ASSUME NEW i \in Ids, NEW amount \in HubDust, CreditDust(i, amount)
      PROVE  Rebalanced /\ reconciled' = reconciled
  <2>1. amount \in Nat  BY LayerAssumption
  <2> QED  BY <1>6, <2>1, ReturnBalances DEF CreditDust
<1>7. ASSUME NEW i \in Buys, Fill(i)  PROVE UNCHANGED <<hub, reconciled, sentVars>>
  BY <1>7 DEF Fill, hubVars, sentVars
<1>8. CASE UNCHANGED hubVars  BY <1>8 DEF hubVars, sentVars
<1>9. CASE HubStep  BY <1>9, HubBalances
<1>10. ASSUME NEW i \in Ids, NEW amount \in Subsidies, TopUpReserve(i, amount)
       PROVE  Rebalanced /\ reconciled' = reconciled
  BY <1>10, SubsidyBalances, HubAssumption DEF TopUpReserve
<1> QED
  BY <1>2, <1>3, <1>4, <1>5, <1>6, <1>7, <1>8, <1>9, <1>10 DEF LayerNext, Donation

\* Every step of the layer keeps the balance.
LEMMA SharesStep ==
  ASSUME SharesInv, [LayerNext]_layerVars
  PROVE  SharesInv'
<1>1. LayerInv /\ LayerInv'  BY LayerStep DEF SharesInv
<1>2. CASE UNCHANGED <<hub, reconciled, sentVars>> /\ UNCHANGED vaultVars
  <2>1. results' = results /\ entitled' = entitled
    BY <1>2 DEF vaultVars, logVars, custodyVars
  <2>2. MessagesOK'  BY <1>2, MessagesSent DEF SharesInv
  <2>3. ProvenOK'  BY <1>2, <2>1 DEF SharesInv, ProvenOK, Logged
  <2>4. SharesBalance'  BY <1>2, <2>1 DEF SharesInv, SharesBalance
  <2> QED  BY <1>1, <2>2, <2>3, <2>4 DEF SharesInv
<1>3. CASE LayerNext /\ UNCHANGED vaultVars /\ (HubStep \/ UNCHANGED sentVars)
  <2>1. CASE UNCHANGED <<hub, reconciled, sentVars>>  BY <1>2, <1>3, <2>1
  <2>2. CASE Rebalanced /\ \A r \in reconciled' \ reconciled : Logged(r)
    <3>1. results' = results /\ entitled' = entitled
      BY <1>3 DEF vaultVars, logVars, custodyVars
    <3>2. MessagesOK'  BY <1>3, MessagesSent DEF SharesInv
    <3>3. ProvenOK'  BY <2>2, <3>1 DEF SharesInv, ProvenOK, Logged
    <3>4. SharesBalance'  BY <2>2, <3>1 DEF SharesInv, SharesBalance, Rebalanced
    <3> QED  BY <1>1, <3>2, <3>3, <3>4 DEF SharesInv
  <2> QED  BY <1>1, <1>3, <2>1, <2>2, HubSideBalances
<1>4. CASE LayerNext /\ UNCHANGED <<hub, sentVars>> /\ VaultMoves
  <2>0. AnyVaultStep /\ NewSales  BY <1>1, <1>4, VaultStepIsAny, VaultSells DEF SharesInv, LayerInv
  <2>1. Kept  BY <1>1, <2>0, VaultLogs DEF LayerInv
  <2>2. CASE UNCHANGED vaultVars
    <3>1. \/ Rebalanced /\ \A r \in reconciled' \ reconciled : Logged(r)
          \/ UNCHANGED <<hub, reconciled, sentVars>>
      BY <1>1, <1>4, <2>2, HubSideBalances
    <3> QED  BY <1>2, <1>3, <1>4, <2>2
  <2>3. CASE reconciled' = reconciled
    <3>1. MessagesOK'  BY <1>4, MessagesSent DEF SharesInv
    <3>2. ProvenOK'  BY <2>1, <2>3 DEF SharesInv, ProvenOK, Logged, Kept
    <3>3. SharesBalance'  BY <1>1, <1>4, <2>0, <2>3, VaultKeepsBalance
    <3> QED  BY <1>1, <3>1, <3>2, <3>3 DEF SharesInv
  <2>4. UNCHANGED vaultVars \/ reconciled' = reconciled
    <3>1. ASSUME NEW r \in lzSent, FastResult(r)  PROVE UNCHANGED vaultVars
      BY <3>1 DEF FastResult
    <3>2. ASSUME NEW n, ProvenResult(n)  PROVE UNCHANGED vaultVars  BY <3>2 DEF ProvenResult
    <3>3. ASSUME \/ \E i \in Buys, cost \in Costs : Bounce(i, cost)
                 \/ \E t \in returnsSent, cost \in Costs : Credit(t, cost)
                 \/ \E i \in Ids, amount \in HubDust : CreditDust(i, amount)
                 \/ \E i \in Ids, amount \in Subsidies : TopUpReserve(i, amount)
          PROVE  UNCHANGED vaultVars
      BY <3>3 DEF Bounce, Credit, CreditDust, TopUpReserve, ToppedUp
    <3>4. ASSUME NEW i, Fill(i)  PROVE reconciled' = reconciled  BY <3>4 DEF Fill, hubVars
    <3>5. UNCHANGED hubVars => reconciled' = reconciled  BY DEF hubVars
    <3>6. ASSUME NEW r, NEW amount, Donation(r, amount)  PROVE reconciled' = reconciled
      BY <3>6 DEF Donation, hubVars
    <3> QED  BY <1>4, <3>1, <3>2, <3>3, <3>4, <3>5, <3>6 DEF LayerNext
  <2> QED  BY <2>2, <2>3, <2>4
<1>5. UNCHANGED layerVars => UNCHANGED <<hub, reconciled, sentVars>> /\ UNCHANGED vaultVars
  BY DEF layerVars, hubVars, sentVars
<1> QED  BY <1>1, <1>2, <1>3, <1>4, <1>5, LayerStepKind

\* At first the stock of the vault is the initial supply.
LEMMA SharesStart ==
  ASSUME LayerInit
  PROVE  SharesInv
<1>1. LayerInv  BY LayerStarts
<1>2. /\ lzOrdersSent = {} /\ deliversSent = {} /\ reconciled = {}
      /\ hub.order = [i \in Ids |-> NoOrder] /\ hub.supply = InitialSupply
      /\ results = <<>> /\ entitled = InitialStock
  BY DEF LayerInit, HubInit, VaultInit
<1>3. MessagesOK /\ ProvenOK  BY <1>2 DEF MessagesOK, ProvenOK
<1>4. Burned(hub, results) = {}  BY <1>2 DEF Burned, IsBurned, NoOrder, Ids
<1>5. Unminted(hub, results, reconciled) = {}  BY <1>2 DEF Unminted
<1>6. Cardinality({}) = 0 /\ Sum(RawOf(results), {}) = 0
  BY FS_EmptySet, SumZero
<1>7. Unbacked(hub, results, reconciled) = 0
  BY <1>4, <1>5, <1>6, HubAssumption DEF Unbacked
<1>8. SharesBalance  BY <1>2, <1>7, LayerAssumption, HubAssumption DEF SharesBalance
<1> QED  BY <1>1, <1>3, <1>8 DEF SharesInv

\* In every state the entitlement of the reserve is the shares in circulation, those
\* burned for sells that were not executed and those bought that were not minted
\* (StockLayer.EveryShareBacked), whatever the channels delay, repeat or reorder.
THEOREM SharesAlwaysBacked == LayerSpec => []EveryShareBacked
<1>1. ASSUME SharesInv  PROVE EveryShareBacked
  <2>1. Burned(hub, results) = {i \in Sells : /\ Order(i).status # "None" /\ Order(i).outcome # 3
                                              /\ ~SoldOnVault(i)}
    BY DEF Burned, IsBurned, SoldIn, SoldOnVault, ResultOf, Order
  <2>2. Unminted(hub, results, reconciled)
          = {n \in DOMAIN results :
               /\ results[n].outcome = "Bought"
               /\ IF results[n].ref \in Ids THEN Order(results[n].ref).outcome # 1
                                            ELSE results[n].ref \notin reconciled}
    BY DEF Unminted, IsUnminted, Order
  <2>3. PICK B, U, f : /\ B = Burned(hub, results) /\ U = Unminted(hub, results, reconciled)
                       /\ f = RawOf(results)
    OBVIOUS
  <2>4. PICK x, y : x = SharesIn * Cardinality(B) /\ y = SumFunctionOnSet(f, U)  OBVIOUS
  <2>5. x \in Nat
    <3>1. IsFiniteSet(Ids)  BY VaultAssumption, LayerAssumption
    <3>2. IsFiniteSet(B)  BY <2>3, <3>1, FS_Subset DEF Burned, Ids
    <3> QED  BY <2>4, <3>2, FS_CardinalityType, HubAssumption
  <2>6. y \in Nat
    <3>1. IsLog(results)  BY <1>1, LogShape DEF SharesInv
    <3>2. IsFiniteSet(U)  BY <2>3, <3>1, FS_Subset DEF Unminted, IsLog
    <3>3. \A n \in U : f[n] \in Nat  BY <2>3, <3>1 DEF Unminted, RawOf, IsLog, ResultType
    <3> QED  BY <2>4, <3>2, <3>3, SumNat DEF Sum
  <2>7. entitled = hub.supply + (x + y) /\ hub.supply \in Nat
    BY <1>1, <2>3, <2>4 DEF SharesInv, SharesBalance, Unbacked, Sum, LayerInv, BooksOK, IsHub
  <2>8. entitled = hub.supply + x + y  BY <2>5, <2>6, <2>7
  <2> QED  BY <2>1, <2>2, <2>3, <2>4, <2>8 DEF EveryShareBacked, RawOf
<1> QED  BY <1>1, SharesStart, SharesStep, PTL DEF LayerSpec

-----------------------------------------------------------------------------
(* What a step does to the money of one order, told by its record.         *)

\* An order is a record, and the hub has one for it.
OrderShape(o) ==
  o = [status |-> o.status, fee |-> o.fee, extra |-> o.extra, held |-> o.held, owed |-> o.owed,
       amountOut |-> o.amountOut, rawOut |-> o.rawOut, outcome |-> o.outcome,
       lzSettled |-> o.lzSettled, cancelRequested |-> o.cancelRequested,
       disputed |-> o.disputed, advanced |-> o.advanced, orphaned |-> o.orphaned,
       voided |-> o.voided, custodyRaw |-> o.custodyRaw, refundReady |-> o.refundReady,
       paid |-> o.paid, shares |-> o.shares, late |-> o.late]
Shaped(h, i) == HasHubShape(h) /\ i \in DOMAIN h.order /\ OrderShape(h.order[i])

\* The fields that tell what became of the money and of the shares.
SameMoney(p, o) ==
  /\ p.status = o.status /\ p.fee = o.fee /\ p.extra = o.extra /\ p.held = o.held
  /\ p.owed = o.owed /\ p.amountOut = o.amountOut /\ p.rawOut = o.rawOut
  /\ p.outcome = o.outcome /\ p.advanced = o.advanced /\ p.custodyRaw = o.custodyRaw
  /\ p.refundReady = o.refundReady /\ p.paid = o.paid /\ p.shares = o.shares
  /\ p.late = o.late

\* The order p is o after a payment: owed for it, or paid.
PaidTo(p, o, to, amount) ==
  \/ SameMoney(p, [o EXCEPT !.owed = @ + amount,
                            !.late = IF to = "treasury" THEN @ + amount ELSE @])
  \/ SameMoney(p, [o EXCEPT !.paid = IF to = "user" THEN @ + amount ELSE @])

\* A payment of a record that holds the same money is the same payment.
LEMMA PaidSame ==
  ASSUME NEW p, NEW m, NEW b, OrderShape(m), OrderShape(b), SameMoney(m, b), NEW to, NEW amount,
         PaidTo(p, m, to, amount)
  PROVE  PaidTo(p, b, to, amount)
<1>1. PICK late : late = IF to = "treasury" THEN m.late + amount ELSE m.late  OBVIOUS
<1>2. PICK paid : paid = IF to = "user" THEN m.paid + amount ELSE m.paid  OBVIOUS
<1>3. /\ SameMoney([m EXCEPT !.owed = m.owed + amount, !.late = late],
                   [b EXCEPT !.owed = m.owed + amount, !.late = late])
      /\ SameMoney([m EXCEPT !.paid = paid], [b EXCEPT !.paid = paid])
  BY DEF OrderShape, SameMoney
<1>4. CASE SameMoney(p, [m EXCEPT !.owed = m.owed + amount, !.late = late])
  <2>1. SameMoney(p, [b EXCEPT !.owed = m.owed + amount, !.late = late])
    BY <1>3, <1>4 DEF SameMoney
  <2>2. /\ m.owed = b.owed
        /\ late = IF to = "treasury" THEN b.late + amount ELSE b.late
    BY <1>1 DEF SameMoney
  <2> QED  BY <2>1, <2>2 DEF PaidTo
<1>5. CASE SameMoney(p, [m EXCEPT !.paid = paid])
  <2>1. SameMoney(p, [b EXCEPT !.paid = paid])  BY <1>3, <1>5 DEF SameMoney
  <2>2. paid = IF to = "user" THEN b.paid + amount ELSE b.paid  BY <1>2 DEF SameMoney
  <2> QED  BY <2>1, <2>2 DEF PaidTo
<1> QED  BY <1>1, <1>2, <1>4, <1>5 DEF PaidTo

\* _pay: the amount is paid out, or booked as owed to the order.
LEMMA PaidTurn ==
  ASSUME NEW h, NEW i, Shaped(h, i), NEW to, NEW amount, NEW g, g = Paid(h, i, to, amount)
  PROVE  Shaped(g, i) /\ PaidTo(g.order[i], h.order[i], to, amount)
<1>3. HasHubShape(g)  BY PaidSupply DEF Shaped, SameSupply
<1>1. CASE ~CanSend(h, amount) \/ (to = "user" /\ i \in Refusers)
  <2>1. g = [h EXCEPT !.order[i].owed = @ + amount, !.claimableTotal = @ + amount,
                      !.order[i].late = IF to = "treasury" THEN @ + amount ELSE @]
    BY <1>1 DEF Paid
  <2>2. g.order[i] = [h.order[i] EXCEPT !.owed = @ + amount,
                                        !.late = IF to = "treasury" THEN @ + amount ELSE @]
    BY <2>1 DEF Shaped, HasHubShape
  <2>3. OrderShape(g.order[i])  BY <2>2 DEF Shaped, OrderShape
  <2>4. i \in DOMAIN g.order  BY <2>1 DEF Shaped, HasHubShape
  <2> QED  BY <1>3, <2>2, <2>3, <2>4, SMTT(60) DEF Shaped, PaidTo, SameMoney
<1>2. CASE ~(~CanSend(h, amount) \/ (to = "user" /\ i \in Refusers))
  <2>1. g = [h EXCEPT !.order[i].paid = IF to = "user" THEN @ + amount ELSE @,
                      !.native = @ - amount]
    BY <1>2 DEF Paid
  <2>2. g.order[i] = [h.order[i] EXCEPT !.paid = IF to = "user" THEN @ + amount ELSE @]
    BY <2>1 DEF Shaped, HasHubShape
  <2>3. OrderShape(g.order[i])  BY <2>2 DEF Shaped, OrderShape
  <2>4. i \in DOMAIN g.order  BY <2>1 DEF Shaped, HasHubShape
  <2> QED  BY <1>3, <2>2, <2>3, <2>4, SMTT(60) DEF Shaped, PaidTo, SameMoney
<1> QED  BY <1>1, <1>2

\* An order put in its place.
LEMMA PutTurn ==
  ASSUME NEW h, NEW i, Shaped(h, i), NEW o, OrderShape(o), NEW n, NEW e, NEW f, NEW c, NEW s,
         NEW g, g = With(h, i, o, n, e, f, c, s)
  PROVE  Shaped(g, i) /\ g.order[i] = o
BY DEF Shaped, With, HasHubShape

\* _lateTo, of the record.
LateFor(i, o, amount) ==
  IF i \in Buys /\ o.outcome = 1 /\ IsBack(amount, Principal) THEN "treasury" ELSE Beneficiary(i)

\* refundBuy.
Refunded(i, p, o) ==
  LET c == [o EXCEPT !.status = "Cancelled", !.extra = 0, !.held = 0]
      amount == Principal + o.fee + o.extra + o.held
  IN IF Lane(i) = 1 THEN PaidTo(p, [c EXCEPT !.refundReady = Principal], "ops", amount - Principal)
                    ELSE PaidTo(p, c, "user", amount)

\* refundBuy: the principal, the fee and the reserve go back.
LEMMA RefundTurn ==
  ASSUME NEW h, NEW i, Shaped(h, i), NEW g, g = BuyRefunded(h, i)
  PROVE  Shaped(g, i) /\ Refunded(i, g.order[i], h.order[i])
<1> DEFINE o == h.order[i]
           amount == Principal + o.fee + o.extra + o.held
<1>1. PICK c : c = [h EXCEPT !.order[i].status = "Cancelled", !.order[i].extra = 0,
                             !.order[i].held = 0, !.escrowed = @ - amount]
  OBVIOUS
<1>2. PICK b : b = [o EXCEPT !.status = "Cancelled", !.extra = 0, !.held = 0]  OBVIOUS
<1>3. OrderShape(b)  BY <1>2 DEF Shaped, OrderShape
<1>4. c = With(h, i, b, h.native, h.escrowed - amount, h.accruedFees, h.claimableTotal, h.supply)
  BY <1>1, <1>2 DEF Shaped, HasHubShape, With
<1>5. Shaped(c, i) /\ c.order[i] = b  BY <1>3, <1>4, PutTurn
<1>6. CASE Lane(i) = 1
  <2>1. PICK d : d = [c EXCEPT !.order[i].refundReady = Principal, !.escrowed = @ + Principal]
    OBVIOUS
  <2>2. PICK e : e = [b EXCEPT !.refundReady = Principal]  OBVIOUS
  <2>3. OrderShape(e)  BY <1>3, <2>2 DEF OrderShape
  <2>4. d = With(c, i, e, c.native, c.escrowed + Principal, c.accruedFees, c.claimableTotal,
                 c.supply)
    BY <1>5, <2>1, <2>2 DEF Shaped, HasHubShape, With
  <2>5. Shaped(d, i) /\ d.order[i] = e  BY <1>5, <2>3, <2>4, PutTurn
  <2>6. g = Paid(d, i, "ops", amount - Principal)  BY <1>1, <1>6, <2>1 DEF BuyRefunded
  <2>7. Shaped(g, i) /\ PaidTo(g.order[i], e, "ops", amount - Principal)
    BY <2>5, <2>6, PaidTurn
  <2> QED  BY <1>2, <1>6, <2>2, <2>7 DEF Refunded
<1>7. CASE Lane(i) # 1
  <2>1. g = Paid(c, i, "user", amount)  BY <1>1, <1>7 DEF BuyRefunded
  <2>2. Shaped(g, i) /\ PaidTo(g.order[i], b, "user", amount)  BY <1>5, <2>1, PaidTurn, SMTT(60)
  <2> QED  BY <1>2, <1>7, <2>2 DEF Refunded
<1> QED  BY <1>6, <1>7

\* _closeReturnedBuy: it stays as it is, or it is closed.
Closed(i, p, o) ==
  LET c == [o EXCEPT !.status = "Cancelled", !.held = 0, !.extra = 0, !.fee = 0]
      pool == o.held + o.fee + o.extra
  IN \/ p = o
     \/ Lane(i) = 0 /\ PaidTo(p, c, "user", pool)
     \/ Lane(i) = 1 /\ PaidTo(p, [c EXCEPT !.refundReady = Principal], "ops", pool - Principal)

\* _closeReturnedBuy: the order stays open, or its pool is paid or kept for the manager.
LEMMA ClosedTurn ==
  ASSUME NEW h, NEW i, Shaped(h, i), NEW force, NEW g, g = ReturnedBuyClosed(h, i, force)
  PROVE  Shaped(g, i) /\ Closed(i, g.order[i], h.order[i])
<1> DEFINE o == h.order[i]
           pool == o.held + o.fee + o.extra
<1>1. PICK b : b = [o EXCEPT !.status = "Cancelled", !.held = 0, !.extra = 0, !.fee = 0]
  OBVIOUS
<1>2. PICK c : c = [h EXCEPT !.order[i] = b]  OBVIOUS
<1>3. OrderShape(b)  BY <1>1 DEF Shaped, OrderShape
<1>4. CASE g = h  BY <1>4 DEF Closed
<1>5. ASSUME Lane(i) = 0, g = Paid([c EXCEPT !.escrowed = @ - pool], i, "user", pool)
      PROVE  Shaped(g, i) /\ Closed(i, g.order[i], o)
  <2>1. PICK d : d = [c EXCEPT !.escrowed = @ - pool]  OBVIOUS
  <2>2. d = With(h, i, b, h.native, h.escrowed - pool, h.accruedFees, h.claimableTotal, h.supply)
    BY <1>2, <2>1 DEF Shaped, HasHubShape, With
  <2>3. Shaped(d, i) /\ d.order[i] = b  BY <1>3, <2>2, PutTurn
  <2>4. Shaped(g, i) /\ PaidTo(g.order[i], b, "user", pool)  BY <1>5, <2>1, <2>3, PaidTurn
  <2> QED  BY <1>1, <1>5, <2>4 DEF Closed
<1>6. ASSUME Lane(i) = 1,
             g = Paid([c EXCEPT !.order[i].refundReady = Principal,
                                !.escrowed = @ - (pool - Principal)], i, "ops", pool - Principal)
      PROVE  Shaped(g, i) /\ Closed(i, g.order[i], o)
  <2>1. PICK d : d = [c EXCEPT !.order[i].refundReady = Principal,
                               !.escrowed = @ - (pool - Principal)]
    OBVIOUS
  <2>2. PICK e : e = [b EXCEPT !.refundReady = Principal]  OBVIOUS
  <2>3. OrderShape(e)  BY <1>3, <2>2 DEF OrderShape
  <2>4. d = With(h, i, e, h.native, h.escrowed - (pool - Principal), h.accruedFees,
                 h.claimableTotal, h.supply)
    BY <1>2, <2>1, <2>2 DEF Shaped, HasHubShape, With
  <2>5. Shaped(d, i) /\ d.order[i] = e  BY <2>3, <2>4, PutTurn
  <2>6. Shaped(g, i) /\ PaidTo(g.order[i], e, "ops", pool - Principal)
    BY <1>6, <2>1, <2>5, PaidTurn
  <2> QED  BY <1>1, <1>6, <2>2, <2>6 DEF Closed
<1>7. Lane(i) \in {0, 1}  BY DEF Lane
<1> QED  BY <1>1, <1>2, <1>4, <1>5, <1>6, <1>7 DEF ReturnedBuyClosed

\* _payHeldProceeds: nothing yet, or the sale's net.
ProceedsPaid(i, p, o) ==
  LET fee == IF o.fee < o.held THEN o.fee ELSE o.held
  IN \/ p = o
     \/ PaidTo(p, [o EXCEPT !.held = 0, !.fee = fee, !.amountOut = o.held - fee,
                            !.status = "Filled"], "user", o.held - fee)

\* _payHeldProceeds: the held proceeds are paid less the fee.
LEMMA ProceedsTurn ==
  ASSUME NEW h, NEW i, Shaped(h, i), NEW g, g = HeldProceedsPaid(h, i)
  PROVE  Shaped(g, i) /\ ProceedsPaid(i, g.order[i], h.order[i])
<1> DEFINE o == h.order[i]
           fee == IF o.fee < o.held THEN o.fee ELSE o.held
<1>1. PICK b : b = [o EXCEPT !.held = 0, !.fee = fee, !.amountOut = o.held - fee,
                             !.status = "Filled"]
  OBVIOUS
<1>2. PICK c : c = [h EXCEPT !.order[i] = b, !.escrowed = @ - o.held, !.accruedFees = @ + fee]
  OBVIOUS
<1>3. OrderShape(b)
  <2> HIDE DEF fee
  <2> QED  BY <1>1 DEF Shaped, OrderShape
<1>4. g = h \/ g = Paid(c, i, "user", o.held - fee)  BY <1>1, <1>2 DEF HeldProceedsPaid
<1>5. c = With(h, i, b, h.native, h.escrowed - o.held, h.accruedFees + fee, h.claimableTotal,
               h.supply)
  <2> HIDE DEF fee
  <2> QED  BY <1>2 DEF Shaped, HasHubShape, With
<1>6. Shaped(c, i) /\ c.order[i] = b  BY <1>3, <1>5, PutTurn
<1>7. CASE g = h  BY <1>7 DEF ProceedsPaid
<1>8. CASE g = Paid(c, i, "user", o.held - fee)
  <2>1. PICK due : due = o.held - fee  BY SMTT(60)
  <2>2. Shaped(g, i) /\ PaidTo(g.order[i], b, "user", due)  BY <1>6, <1>8, <2>1, PaidTurn
  <2> QED  BY <1>1, <2>1, <2>2 DEF ProceedsPaid
<1> QED  BY <1>4, <1>7, <1>8

\* _flushHeld.
Flushed(i, p, o) == PaidTo(p, [o EXCEPT !.held = 0], LateFor(i, o, o.held), o.held)

\* _flushHeld: what is held goes to whom a late payment goes.
LEMMA FlushTurn ==
  ASSUME NEW h, NEW i, Shaped(h, i), NEW g, g = HeldFlushed(h, i)
  PROVE  Shaped(g, i) /\ Flushed(i, g.order[i], h.order[i])
<1> DEFINE o == h.order[i]
<1>1. PICK b, to : b = [o EXCEPT !.held = 0] /\ to = LateTo(h, i, o.held)  OBVIOUS
<1>2. PICK c : c = [h EXCEPT !.order[i].held = 0, !.escrowed = @ - o.held]  OBVIOUS
<1>3. OrderShape(b)  BY <1>1 DEF Shaped, OrderShape
<1>4. c = With(h, i, b, h.native, h.escrowed - o.held, h.accruedFees, h.claimableTotal, h.supply)
  BY <1>1, <1>2 DEF Shaped, HasHubShape, With
<1>5. Shaped(c, i) /\ c.order[i] = b  BY <1>3, <1>4, PutTurn
<1>6. g = Paid(c, i, to, o.held)  BY <1>1, <1>2 DEF HeldFlushed
<1>7. Shaped(g, i) /\ PaidTo(g.order[i], b, to, o.held)  BY <1>5, <1>6, PaidTurn
<1> QED  BY <1>1, <1>7 DEF Flushed, LateTo, LateFor

\* receiveReturn.
Arrives(i, p, o, amount) ==
  LET k == [o EXCEPT !.held = @ + amount]
  IN IF o.advanced THEN p = o
     ELSE IF o.status = "Returning" THEN Closed(i, p, k)
     ELSE IF o.status = "Proceeds" THEN ProceedsPaid(i, p, k)
     ELSE IF o.outcome = 0 /\ o.status \notin {"Filled", "Cancelled"} THEN p = k
     ELSE PaidTo(p, o, LateFor(i, o, amount), amount)

\* What money that arrives for an order does to its record (receiveReturn).
LEMMA ArrivalTurn ==
  ASSUME NEW h, NEW i, Shaped(h, i), NEW amount, NEW g, g = Returned(h, i, amount)
  PROVE  Shaped(g, i) /\ Arrives(i, g.order[i], h.order[i], amount)
<1> DEFINE o == h.order[i]
<1>1. PICK to : to = LateTo(h, i, amount)  OBVIOUS
<1>2. PICK b : b = [o EXCEPT !.held = @ + amount]  OBVIOUS
<1>3. OrderShape(b)  BY <1>2 DEF Shaped, OrderShape
<1>4. PICK c : c = [h EXCEPT !.native = @ + amount]  OBVIOUS
<1>5. Shaped(c, i) /\ c.order[i] = o  BY <1>4 DEF Shaped, HasHubShape
<1>6. PICK k : k = [c EXCEPT !.escrowed = @ + amount, !.order[i].held = @ + amount]  OBVIOUS
<1>7. k = With(c, i, b, c.native, c.escrowed + amount, c.accruedFees, c.claimableTotal, c.supply)
  BY <1>2, <1>5, <1>6 DEF Shaped, HasHubShape, With
<1>8. Shaped(k, i) /\ k.order[i] = b  BY <1>3, <1>5, <1>7, PutTurn
<1>9. g = IF o.advanced THEN c
          ELSE IF o.status = "Returning" THEN ReturnedBuyClosed(k, i, FALSE)
          ELSE IF o.status = "Proceeds" THEN HeldProceedsPaid(k, i)
          ELSE IF o.outcome = 0 /\ o.status \notin {"Filled", "Cancelled"} THEN k
          ELSE Paid(c, i, to, amount)
  BY <1>1, <1>4, <1>6 DEF Returned
<1>10. CASE o.advanced  BY <1>5, <1>9, <1>10 DEF Arrives
<1>11. CASE ~o.advanced /\ o.status = "Returning"
  <2>1. Shaped(g, i) /\ Closed(i, g.order[i], b)  BY <1>8, <1>9, <1>11, ClosedTurn
  <2> QED  BY <1>2, <1>11, <2>1 DEF Arrives
<1>12. CASE ~o.advanced /\ o.status = "Proceeds"
  <2>1. Shaped(g, i) /\ ProceedsPaid(i, g.order[i], b)  BY <1>8, <1>9, <1>12, ProceedsTurn
  <2> QED  BY <1>2, <1>12, <2>1 DEF Arrives
<1>13. CASE ~o.advanced /\ o.status \notin {"Returning", "Proceeds"}
  <2>1. CASE o.outcome = 0 /\ o.status \notin {"Filled", "Cancelled"}
    BY <1>2, <1>8, <1>9, <1>13, <2>1 DEF Arrives
  <2>2. CASE ~(o.outcome = 0 /\ o.status \notin {"Filled", "Cancelled"})
    <3>1. Shaped(g, i) /\ PaidTo(g.order[i], o, to, amount)
      BY <1>5, <1>9, <1>13, <2>2, PaidTurn
    <3>2. to = LateFor(i, o, amount)  BY <1>1 DEF LateTo, LateFor
    <3> QED  BY <1>13, <2>2, <3>1, <3>2 DEF Arrives
  <2> QED  BY <2>1, <2>2
<1> QED  BY <1>10, <1>11, <1>12, <1>13

\* subsidize.
Topped(i, p, o, amount) ==
  LET k == [o EXCEPT !.extra = @ + amount]
  IN p = k \/ (o.status = "Returning" /\ Closed(i, p, k))

\* subsidize: the reserve of the order grows; a returning buy may close on it.
LEMMA TopUpTurn ==
  ASSUME NEW i \in Ids, Shaped(hub, i), NEW amount, Subsidize(i, amount)
  PROVE  Shaped(hub', i) /\ Topped(i, hub'.order[i], hub.order[i], amount)
<1> DEFINE o == hub.order[i]
<1>1. PICK g : g = hub'  OBVIOUS
<1>2. PICK b : b = [o EXCEPT !.extra = @ + amount]  OBVIOUS
<1>3. OrderShape(b)  BY <1>2 DEF Shaped, OrderShape
<1>4. PICK c : c = [hub EXCEPT !.order[i].extra = @ + amount, !.escrowed = @ + amount,
                               !.native = @ + amount]
  OBVIOUS
<1>5. c = With(hub, i, b, hub.native + amount, hub.escrowed + amount, hub.accruedFees,
               hub.claimableTotal, hub.supply)
  BY <1>2, <1>4 DEF Shaped, HasHubShape, With
<1>6. Shaped(c, i) /\ c.order[i] = b  BY <1>3, <1>5, PutTurn
<1>7. g = IF o.status = "Returning" /\ o.held # 0 THEN ReturnedBuyClosed(c, i, FALSE) ELSE c
  BY <1>1, <1>4 DEF Subsidize, Order
<1>8. CASE g = c  BY <1>1, <1>2, <1>6, <1>8 DEF Topped
<1>9. CASE o.status = "Returning" /\ g = ReturnedBuyClosed(c, i, FALSE)
  <2>1. Shaped(g, i) /\ Closed(i, g.order[i], b)  BY <1>6, <1>9, ClosedTurn
  <2> QED  BY <1>1, <1>2, <1>9, <2>1 DEF Topped
<1> QED  BY <1>7, <1>8, <1>9

\* _markSettled leaves the money alone.
LEMMA MarkTurn ==
  ASSUME NEW h, NEW i, Shaped(h, i), NEW canonical, NEW g, g = LzMarked(h, i, canonical)
  PROVE  Shaped(g, i) /\ SameMoney(g.order[i], h.order[i])
<1>1. CASE g = h  BY <1>1 DEF SameMoney
<1>2. CASE g = [h EXCEPT !.order[i].lzSettled = TRUE]
  <2>1. PICK o : o = [h.order[i] EXCEPT !.lzSettled = TRUE]  OBVIOUS
  <2>2. OrderShape(o) /\ SameMoney(o, h.order[i])  BY <2>1 DEF Shaped, OrderShape, SameMoney
  <2>3. g = With(h, i, o, h.native, h.escrowed, h.accruedFees, h.claimableTotal, h.supply)
    BY <1>2, <2>1 DEF Shaped, HasHubShape, With
  <2> QED  BY <2>2, <2>3, PutTurn
<1> QED  BY <1>1, <1>2 DEF LzMarked

\* settle, of a buy that was bought.
FilledWith(i, p, o, raw) ==
  \E q, r :
    /\ OrderShape(q)
    /\ PaidTo(q, [o EXCEPT !.status = "Filled", !.amountOut = raw, !.rawOut = raw, !.outcome = 1,
                           !.extra = 0, !.custodyRaw = IF Lane(i) = 1 THEN raw ELSE @,
                           !.shares = IF Lane(i) = 0 THEN @ + raw ELSE @],
              Beneficiary(i), o.extra)
    /\ Flushed(i, r, q) /\ SameMoney(p, r)

\* settle, of a bought buy: the stock is minted or kept, and what is held is paid.
LEMMA BoughtTurn ==
  ASSUME NEW h, NEW i, Shaped(h, i), NEW raw, NEW canonical, NEW g,
         g = BoughtApplied(h, i, raw, canonical)
  PROVE  Shaped(g, i) /\ FilledWith(i, g.order[i], h.order[i], raw)
<1> DEFINE o == h.order[i]
<1>1. PICK shares : shares = IF Lane(i) = 0 THEN o.shares + raw ELSE o.shares  OBVIOUS
<1>2. PICK a : a = [o EXCEPT !.shares = shares]  OBVIOUS
<1>3. OrderShape(a)  BY <1>2 DEF Shaped, OrderShape
<1>4. PICK m : m = Minted(h, i, raw, Lane(i) = 0)  OBVIOUS
<1>5. m = With(h, i, a, h.native, h.escrowed, h.accruedFees, h.claimableTotal, h.supply + raw)
  BY <1>1, <1>2, <1>4 DEF Minted, Shaped, HasHubShape, With
<1>6. Shaped(m, i) /\ m.order[i] = a  BY <1>3, <1>5, PutTurn
<1>7. PICK custody : custody = IF Lane(i) = 1 THEN raw ELSE o.custodyRaw  OBVIOUS
<1>8. PICK b : b = [a EXCEPT !.status = "Filled", !.amountOut = raw, !.rawOut = raw,
                             !.outcome = 1, !.extra = 0, !.custodyRaw = custody]
  OBVIOUS
<1>9. OrderShape(b)  BY <1>3, <1>8 DEF OrderShape
<1>10. PICK c : c = [m EXCEPT !.order[i] = b, !.escrowed = @ - o.fee - o.extra,
                              !.accruedFees = @ + o.fee]
  OBVIOUS
<1>11. c = With(m, i, b, m.native, m.escrowed - o.fee - o.extra, m.accruedFees + o.fee,
                m.claimableTotal, m.supply)
  BY <1>6, <1>10 DEF Shaped, HasHubShape, With
<1>12. Shaped(c, i) /\ c.order[i] = b  BY <1>6, <1>9, <1>11, PutTurn
<1>13. PICK d : d = Paid(c, i, Beneficiary(i), o.extra)  OBVIOUS
<1>14. Shaped(d, i) /\ PaidTo(d.order[i], b, Beneficiary(i), o.extra)
  BY <1>12, <1>13, PaidTurn
<1>15. PICK e : e = HeldFlushed(d, i)  OBVIOUS
<1>16. Shaped(e, i) /\ Flushed(i, e.order[i], d.order[i])  BY <1>14, <1>15, FlushTurn
<1>17. a.custodyRaw = o.custodyRaw  BY <1>2 DEF Shaped, OrderShape
<1>18. g = LzMarked(e, i, canonical)
  BY <1>4, <1>6, <1>7, <1>8, <1>10, <1>13, <1>15, <1>17 DEF BoughtApplied
<1>19. Shaped(g, i) /\ SameMoney(g.order[i], e.order[i])  BY <1>16, <1>18, MarkTurn
<1>20. b = [o EXCEPT !.status = "Filled", !.amountOut = raw, !.rawOut = raw, !.outcome = 1,
                     !.extra = 0, !.custodyRaw = IF Lane(i) = 1 THEN raw ELSE @,
                     !.shares = IF Lane(i) = 0 THEN @ + raw ELSE @]
  BY <1>1, <1>2, <1>7, <1>8, ZenonT(60) DEF Shaped, OrderShape
<1> QED  BY <1>14, <1>16, <1>19, <1>20 DEF FilledWith, Shaped

\* A buy that the float had refunded and the vault bought after all.
LEMMA OrphanTurn ==
  ASSUME NEW h, NEW i, Shaped(h, i), NEW raw, NEW canonical, NEW g,
         g = Orphaned(h, i, raw, canonical)
  PROVE  Shaped(g, i) /\ SameMoney(g.order[i], [h.order[i] EXCEPT !.rawOut = raw, !.outcome = 1])
<1>1. PICK o : o = [h.order[i] EXCEPT !.orphaned = TRUE, !.rawOut = raw, !.outcome = 1]
  OBVIOUS
<1>2. OrderShape(o)  BY <1>1 DEF Shaped, OrderShape
<1>3. PICK m : m = Minted(h, i, raw, FALSE)  BY Zenon
<1>4. m = With(h, i, h.order[i], h.native, h.escrowed, h.accruedFees, h.claimableTotal,
               h.supply + raw)
  BY <1>3 DEF Minted, Shaped, OrderShape, HasHubShape, With
<1>5. Shaped(m, i) /\ m.order[i] = h.order[i]  BY <1>4, PutTurn DEF Shaped
<1>6. PICK c : c = [m EXCEPT !.order[i].orphaned = TRUE, !.order[i].rawOut = raw,
                             !.order[i].outcome = 1]
  OBVIOUS
<1>7. c = With(m, i, o, m.native, m.escrowed, m.accruedFees, m.claimableTotal, m.supply)
  BY <1>1, <1>5, <1>6 DEF Shaped, HasHubShape, With
<1>8. Shaped(c, i) /\ c.order[i] = o  BY <1>2, <1>5, <1>7, PutTurn
<1>9. g = LzMarked(c, i, canonical)  BY <1>3, <1>6 DEF Orphaned
<1>10. Shaped(g, i) /\ SameMoney(g.order[i], o)  BY <1>8, <1>9, MarkTurn
<1>11. SameMoney(o, [h.order[i] EXCEPT !.rawOut = raw, !.outcome = 1])
  BY <1>1 DEF Shaped, OrderShape, SameMoney
<1> QED  BY <1>10, <1>11 DEF SameMoney

\* settle, of a sell that was sold: nothing is owed for it, or its proceeds are paid from
\* what is back, by the float, or later.
SoldFor(i, p, o, raw) ==
  LET fee == (raw * FeeBps) \div BPS
      net == raw - fee
      b == [o EXCEPT !.fee = fee, !.rawOut = raw, !.outcome = 2]
      owing == [b EXCEPT !.amountOut = net, !.status = "Proceeds"]
      lent == [b EXCEPT !.amountOut = net, !.status = "Filled", !.held = 0, !.advanced = TRUE]
  IN \/ raw = 0 /\ \E q : OrderShape(q) /\ SameMoney(q, [b EXCEPT !.status = "Filled"])
                            /\ Flushed(i, p, q)
     \/ raw # 0 /\ \E q : OrderShape(q) /\ SameMoney(q, owing) /\ ProceedsPaid(i, p, q)
     \/ raw # 0 /\ \E q : OrderShape(q) /\ SameMoney(q, lent) /\ PaidTo(p, q, "user", net)

\* settle, of a sale: it is paid by the float, or waits for its proceeds.
LEMMA SoldTurn ==
  ASSUME NEW h, NEW i, Shaped(h, i), NEW raw, NEW canonical, NEW allowed, NEW g,
         g = SoldApplied(h, i, raw, canonical, allowed)
  PROVE  Shaped(g, i) /\ SoldFor(i, g.order[i], h.order[i], raw)
<1>1. PICK fee : fee = (raw * FeeBps) \div BPS  OBVIOUS
<1>2. PICK net : net = raw - fee  OBVIOUS
<1>3. PICK o : o = [h.order[i] EXCEPT !.fee = fee, !.rawOut = raw, !.outcome = 2]  OBVIOUS
<1>4. OrderShape(o)  BY <1>3 DEF Shaped, OrderShape
<1>5. PICK b : b = [h EXCEPT !.order[i] = o]  OBVIOUS
<1>6. b = With(h, i, o, h.native, h.escrowed, h.accruedFees, h.claimableTotal, h.supply)
  BY <1>5 DEF Shaped, HasHubShape, With
<1>7. Shaped(b, i) /\ b.order[i] = o  BY <1>4, <1>6, PutTurn
<1>8. PICK c : c = LzMarked(b, i, canonical)  OBVIOUS
<1>9. Shaped(c, i) /\ SameMoney(c.order[i], o)  BY <1>7, <1>8, MarkTurn
<1>10. PICK m : m = c.order[i]  OBVIOUS
<1>11. OrderShape(m)  BY <1>9, <1>10 DEF Shaped
<1>12. PICK free : free = [c EXCEPT !.order[i].status = "Filled"]  OBVIOUS
<1>13. PICK owing : owing = [c EXCEPT !.order[i].amountOut = net, !.order[i].status = "Proceeds"]
  OBVIOUS
<1>14. PICK lent : lent = [owing EXCEPT !.escrowed = @ - o.held, !.order[i].held = 0,
                                        !.order[i].advanced = TRUE,
                                        !.order[i].status = "Filled", !.accruedFees = @ + fee]
  OBVIOUS
<1>15. PICK f, w, l :
         /\ f = [m EXCEPT !.status = "Filled"]
         /\ w = [m EXCEPT !.amountOut = net, !.status = "Proceeds"]
         /\ l = [w EXCEPT !.held = 0, !.advanced = TRUE, !.status = "Filled"]
  BY Zenon
<1>16. OrderShape(f) /\ OrderShape(w)  BY <1>11, <1>15 DEF OrderShape
<1>17. OrderShape(l)  BY <1>15, <1>16 DEF OrderShape
<1>18. free = With(c, i, f, c.native, c.escrowed, c.accruedFees, c.claimableTotal, c.supply)
  BY <1>9, <1>10, <1>12, <1>15 DEF Shaped, HasHubShape, With
<1>19. owing = With(c, i, w, c.native, c.escrowed, c.accruedFees, c.claimableTotal, c.supply)
  BY <1>9, <1>10, <1>13, <1>15 DEF Shaped, HasHubShape, With
<1>20. Shaped(free, i) /\ free.order[i] = f  BY <1>9, <1>16, <1>18, PutTurn
<1>21. Shaped(owing, i) /\ owing.order[i] = w  BY <1>9, <1>16, <1>19, PutTurn
<1>22. lent = With(owing, i, l, owing.native, owing.escrowed - o.held, owing.accruedFees + fee,
                   owing.claimableTotal, owing.supply)
  BY <1>14, <1>15, <1>21 DEF Shaped, HasHubShape, With
<1>23. Shaped(lent, i) /\ lent.order[i] = l  BY <1>17, <1>21, <1>22, PutTurn
<1>24. /\ SameMoney(f, [o EXCEPT !.status = "Filled"])
       /\ SameMoney(w, [o EXCEPT !.amountOut = net, !.status = "Proceeds"])
  BY <1>4, <1>9, <1>10, <1>11, <1>15, SMTT(60) DEF OrderShape, SameMoney
<1>25. SameMoney(l, [o EXCEPT !.amountOut = net, !.status = "Filled", !.held = 0,
                              !.advanced = TRUE])
  BY <1>4, <1>9, <1>10, <1>11, <1>15, <1>16 DEF OrderShape, SameMoney
<1>26. CASE raw = 0
  <2>1. g = HeldFlushed(free, i)
    BY <1>1, <1>3, <1>5, <1>8, <1>12, <1>26 DEF SoldApplied
  <2>2. Shaped(g, i) /\ Flushed(i, g.order[i], f)  BY <1>20, <2>1, FlushTurn
  <2> QED  BY <1>1, <1>3, <1>16, <1>24, <1>26, <2>2, SMTT(60) DEF SoldFor
<1>27. CASE raw # 0 /\ IsBack(o.held, net)
  <2>1. g = HeldProceedsPaid(owing, i)
    BY <1>1, <1>2, <1>3, <1>5, <1>8, <1>13, <1>27 DEF SoldApplied
  <2>2. Shaped(g, i) /\ ProceedsPaid(i, g.order[i], w)  BY <1>21, <2>1, ProceedsTurn
  <2> QED  BY <1>1, <1>2, <1>3, <1>16, <1>24, <1>27, <2>2, SMTT(60) DEF SoldFor
<1>28. CASE raw # 0 /\ ~IsBack(o.held, net)
  <2>1. CASE floatEnabled /\ Available(h) >= net /\ allowed
    <3>1. g = Paid(lent, i, "user", net)
      BY ZenonT(30), <1>1, <1>2, <1>3, <1>5, <1>8, <1>13, <1>14, <1>28, <2>1 DEF SoldApplied
    <3>2. Shaped(g, i) /\ PaidTo(g.order[i], l, "user", net)  BY <1>23, <3>1, PaidTurn
    <3> QED  BY <1>1, <1>2, <1>3, <1>17, <1>25, <1>28, <3>2 DEF SoldFor
  <2>2. CASE ~(floatEnabled /\ Available(h) >= net /\ allowed)
    <3>1. g = owing
      BY <1>1, <1>2, <1>3, <1>5, <1>8, <1>13, <1>28, <2>2, ZenonT(60) DEF SoldApplied
    <3>2. ProceedsPaid(i, w, w)  BY DEF ProceedsPaid
    <3> QED  BY <1>1, <1>2, <1>3, <1>16, <1>21, <1>24, <1>28, <3>1, <3>2, SMTT(60) DEF SoldFor
  <2> QED  BY <2>1, <2>2
<1> QED  BY <1>26, <1>27, <1>28

\* settle, of a buy that failed: the float's refund stands, or what is back is paid.
FailedBuy(i, p, o) ==
  LET b == [o EXCEPT !.outcome = 3, !.rawOut = 0]
  IN \/ o.status = "Cancelled" /\ o.advanced /\ SameMoney(p, b)
     \/ /\ ~(o.status = "Cancelled" /\ o.advanced)
        /\ \E q : /\ OrderShape(q) /\ SameMoney(q, [b EXCEPT !.status = "Returning"])
                  /\ Closed(i, p, q)

\* settle, of a failed buy: it waits for its principal, or is closed.
LEMMA BuyFailedTurn ==
  ASSUME NEW i \in Buys, Shaped(hub, i), Applies(i, "Failed"), NEW canonical, NEW g,
         g = BuyFailed(hub, i, canonical)
  PROVE  Shaped(g, i) /\ FailedBuy(i, g.order[i], hub.order[i])
<1> DEFINE h == hub
           o == hub.order[i]
<1>1. PICK a : a = [o EXCEPT !.outcome = 3, !.rawOut = 0]  OBVIOUS
<1>2. OrderShape(a)  BY <1>1 DEF Shaped, OrderShape
<1>3. PICK b : b = [h EXCEPT !.order[i].outcome = 3, !.order[i].rawOut = 0]  OBVIOUS
<1>4. b = With(h, i, a, h.native, h.escrowed, h.accruedFees, h.claimableTotal, h.supply)
  BY <1>1, <1>3 DEF Shaped, HasHubShape, With
<1>5. Shaped(b, i) /\ b.order[i] = a  BY <1>2, <1>4, PutTurn
<1>6. PICK c : c = LzMarked(b, i, canonical)  OBVIOUS
<1>7. Shaped(c, i) /\ SameMoney(c.order[i], a)  BY <1>5, <1>6, MarkTurn
<1>8. PICK m : m = [c.order[i] EXCEPT !.status = "Returning"]  OBVIOUS
<1>9. OrderShape(m) /\ SameMoney(m, [a EXCEPT !.status = "Returning"])
  BY <1>2, <1>7, <1>8 DEF Shaped, OrderShape, SameMoney
<1>10. PICK d : d = [c EXCEPT !.order[i].status = "Returning"]  OBVIOUS
<1>11. d = With(c, i, m, c.native, c.escrowed, c.accruedFees, c.claimableTotal, c.supply)
  BY <1>7, <1>8, <1>10 DEF Shaped, HasHubShape, With
<1>12. Shaped(d, i) /\ d.order[i] = m  BY <1>7, <1>9, <1>11, PutTurn, SMTT(60)
<1>13. g = IF FloatCancelled(i) THEN c ELSE ReturnedBuyClosed(d, i, o.status = "Escalated")
  BY <1>3, <1>6, <1>10 DEF BuyFailed
<1>14. CASE FloatCancelled(i)
  BY <1>1, <1>7, <1>13, <1>14 DEF FailedBuy, FloatCancelled, Order
<1>15. CASE ~FloatCancelled(i)
  <2>1. Shaped(g, i) /\ Closed(i, g.order[i], m)  BY <1>12, <1>13, <1>15, ClosedTurn
  <2>2. ~(o.status = "Cancelled" /\ o.advanced)
    BY <1>15 DEF Applies, Unanswered, FloatCancelled, Order
  <2> QED  BY <1>1, <1>9, <2>1, <2>2 DEF FailedBuy
<1> QED  BY <1>14, <1>15

\* settle, of a sell that failed: the shares are back, and what was paid in for it.
FailedSell(i, p, o) ==
  \E q : /\ OrderShape(q)
         /\ SameMoney(q, [o EXCEPT !.outcome = 3, !.rawOut = 0, !.status = "Cancelled",
                                   !.shares = @ + SharesIn])
         /\ Flushed(i, p, q)

\* settle, of a failed sell: the shares go back, and what is held is paid.
LEMMA SellFailedTurn ==
  ASSUME NEW h, NEW i, Shaped(h, i), NEW canonical, NEW g, g = SellFailed(h, i, canonical)
  PROVE  Shaped(g, i) /\ FailedSell(i, g.order[i], h.order[i])
<1>1. PICK a : a = [h.order[i] EXCEPT !.outcome = 3, !.rawOut = 0, !.status = "Cancelled"]
  OBVIOUS
<1>2. OrderShape(a)  BY <1>1 DEF Shaped, OrderShape
<1>3. PICK b : b = [h EXCEPT !.order[i].outcome = 3, !.order[i].rawOut = 0,
                             !.order[i].status = "Cancelled"]
  OBVIOUS
<1>4. b = With(h, i, a, h.native, h.escrowed, h.accruedFees, h.claimableTotal, h.supply)
  BY <1>1, <1>3 DEF Shaped, HasHubShape, With
<1>5. Shaped(b, i) /\ b.order[i] = a  BY <1>2, <1>4, PutTurn
<1>6. PICK m : m = Minted(b, i, SharesIn, TRUE)  BY Zenon
<1>7. PICK n : n = [a EXCEPT !.shares = @ + SharesIn]  OBVIOUS
<1>8. OrderShape(n)  BY <1>2, <1>7 DEF OrderShape
<1>9. m = With(b, i, n, b.native, b.escrowed, b.accruedFees, b.claimableTotal,
               b.supply + SharesIn)
  BY <1>5, <1>6, <1>7 DEF Minted, Shaped, HasHubShape, With
<1>10. Shaped(m, i) /\ m.order[i] = n  BY <1>5, <1>8, <1>9, PutTurn
<1>11. PICK c : c = LzMarked(m, i, canonical)  OBVIOUS
<1>12. Shaped(c, i) /\ SameMoney(c.order[i], n)  BY <1>10, <1>11, MarkTurn
<1>13. g = HeldFlushed(c, i)  BY <1>3, <1>6, <1>11 DEF SellFailed
<1>14. Shaped(g, i) /\ Flushed(i, g.order[i], c.order[i])  BY <1>12, <1>13, FlushTurn
<1>15. n = [h.order[i] EXCEPT !.outcome = 3, !.rawOut = 0, !.status = "Cancelled",
                              !.shares = @ + SharesIn]
  BY <1>1, <1>7 DEF Shaped, OrderShape
<1> QED  BY <1>12, <1>14, <1>15 DEF FailedSell, Shaped

\* escalateFunds of an answered order.
Taken(i, p, o) ==
  LET fromHeld == IF o.fee < o.held THEN o.fee ELSE o.held
      b == [o EXCEPT !.status = "Escalated", !.held = 0]
  IN IF i \in Buys THEN PaidTo(p, [b EXCEPT !.fee = 0, !.extra = 0], "user", o.held + o.fee + o.extra)
                   ELSE PaidTo(p, b, "user", o.held - fromHeld)

\* escalateFunds: what the hub holds for the order is paid out.
LEMMA TakenTurn ==
  ASSUME NEW h, NEW i, Shaped(h, i), NEW g, g = FundsTaken(h, i)
  PROVE  Shaped(g, i) /\ Taken(i, g.order[i], h.order[i])
<1>1. PICK o : o = h.order[i]  OBVIOUS
<1>2. PICK fromHeld : fromHeld = IF o.fee < o.held THEN o.fee ELSE o.held  OBVIOUS
<1>3. PICK b : b = [o EXCEPT !.status = "Escalated", !.held = 0]  OBVIOUS
<1>4. PICK a : a = [b EXCEPT !.fee = 0, !.extra = 0]  OBVIOUS
<1>5. OrderShape(b)  BY <1>1, <1>3 DEF Shaped, OrderShape
<1>6. OrderShape(a)  BY <1>4, <1>5 DEF OrderShape
<1>7. PICK c : c = [h EXCEPT !.order[i].status = "Escalated", !.order[i].held = 0]  OBVIOUS
<1>8. c = With(h, i, b, h.native, h.escrowed, h.accruedFees, h.claimableTotal, h.supply)
  BY <1>1, <1>3, <1>7 DEF Shaped, HasHubShape, With
<1>9. Shaped(c, i) /\ c.order[i] = b  BY <1>5, <1>8, PutTurn
<1>10. CASE i \in Buys
  <2>1. PICK d : d = [c EXCEPT !.order[i].fee = 0, !.order[i].extra = 0,
                               !.escrowed = @ - (o.held + o.fee + o.extra)]
    OBVIOUS
  <2>2. d = With(c, i, a, c.native, c.escrowed - (o.held + o.fee + o.extra), c.accruedFees,
                 c.claimableTotal, c.supply)
    BY <1>4, <1>9, <2>1 DEF Shaped, HasHubShape, With
  <2>3. Shaped(d, i) /\ d.order[i] = a  BY <1>6, <1>9, <2>2, PutTurn
  <2>4. g = Paid(d, i, "user", o.held + o.fee + o.extra)
    BY <1>1, <1>7, <1>10, <2>1 DEF FundsTaken
  <2>5. PICK amount : amount = o.held + o.fee + o.extra  OBVIOUS
  <2>6. Shaped(g, i) /\ PaidTo(g.order[i], a, "user", amount)  BY <2>3, <2>4, <2>5, PaidTurn
  <2> QED  BY <1>1, <1>3, <1>4, <1>10, <2>5, <2>6 DEF Taken
<1>11. CASE i \notin Buys
  <2>1. PICK e : e = [c EXCEPT !.escrowed = @ - o.held, !.accruedFees = @ + o.fee,
                               !.native = @ + (o.fee - fromHeld)]
    OBVIOUS
  <2>2. Shaped(e, i) /\ e.order[i] = b  BY <1>9, <2>1 DEF Shaped, HasHubShape
  <2>3. PICK amount : amount = o.held - fromHeld  OBVIOUS
  <2>4. g = Paid(e, i, "user", amount)
    BY <1>1, <1>2, <1>7, <1>11, <2>1, <2>3 DEF FundsTaken
  <2>5. Shaped(g, i) /\ PaidTo(g.order[i], b, "user", amount)  BY <2>2, <2>4, PaidTurn
  <2> QED  BY <1>1, <1>2, <1>3, <1>11, <2>3, <2>5 DEF Taken
<1> QED  BY <1>10, <1>11

-----------------------------------------------------------------------------
(* What the steps of the hub do to an order's money.                       *)

\* The hub's state is a record, with a record for every order.
LEMMA HubShaped ==
  ASSUME NEW h, IsHub(h), NEW i \in Ids
  PROVE  Shaped(h, i) /\ h.order[i] \in HubOrder
<1>1. h.order[i] \in HubOrder  BY DEF IsHub
<1>2. OrderShape(h.order[i])  BY <1>1 DEF HubOrder, OrderShape
<1> QED  BY <1>1, <1>2 DEF IsHub, Shaped, HasHubShape

\* A delivery without shares was sent for the order: escalateFunds.
Delivered(i) == \E d \in deliversSent : d.ref = i /\ d.shares = 0
SameDelivered == \A j \in Ids : Delivered(j)' <=> Delivered(j)

\* requestBuy, beginFunding, requestSell, canonicalRedeem.
Opened(i, p, o) ==
  /\ o = NoOrder
  /\ \/ i \in Buys /\ SameMoney(p, [o EXCEPT !.status = "Pending", !.fee = BuyFee, !.extra = Extra])
     \/ i \in Sells /\ \E st \in {"Pending", "Escalated"} : SameMoney(p, [o EXCEPT !.status = st])

\* A status, and what was spent of the reserve.
Onward(p, o, st) ==
  \E x \in Nat : x <= o.extra /\ SameMoney(p, [o EXCEPT !.status = st, !.extra = x])

\* requestCancel, by the float.
FloatPaid(p, o) ==
  PaidTo(p, [o EXCEPT !.advanced = TRUE, !.status = "Cancelled", !.extra = 0],
         "user", Principal + o.fee + o.extra)

\* claim, claimResult.
Claimed(i, p, o) ==
  SameMoney(p, [o EXCEPT !.owed = 0, !.paid = IF Lane(i) = 0 THEN @ + o.owed ELSE @])
ResultClaimed(p, o) ==
  \/ o.custodyRaw # 0 /\ SameMoney(p, [o EXCEPT !.custodyRaw = 0, !.shares = @ + o.custodyRaw])
  \/ o.refundReady # 0 /\ SameMoney(p, [o EXCEPT !.refundReady = 0, !.paid = @ + o.refundReady])

\* What users and keepers do to the order i, but for what sends money or asks for it.
Handled(i, p, o) ==
  \/ SameMoney(p, o) \/ Opened(i, p, o)
  \/ i \in Buys /\ o.status \in {"Funded", "Dispatched"} /\ Onward(p, o, "Dispatched")
  \/ i \in Buys /\ o.status = "Cancelled" /\ o.advanced /\ Onward(p, o, "Cancelled")
  \/ /\ i \in Sells /\ o.status \in {"Pending", "Dispatched"}
     /\ Onward(p, o, "Dispatched") \/ Onward(p, o, "Escalated")
  \/ i \in Buys /\ o.status = "Pending" /\ Refunded(i, p, o)
  \/ i \in PublicBuys /\ o.status = "Dispatched" /\ o.held = 0 /\ FloatPaid(p, o)
  \/ Claimed(i, p, o)
  \/ i \in RewardBuys /\ ResultClaimed(p, o)

\* launch, and escalateFunds.
LaunchedNow(i, p, o) ==
  /\ i \in Buys /\ o.status = "Pending"
  /\ Onward(p, o, "Funded") \/ Onward(p, o, "Dispatched")
EscalatedNow(i, p, o) ==
  /\ Lane(i) = 0
  /\ \/ i \in Buys /\ o.status \in {"Funded", "Dispatched"} /\ Onward(p, o, "Escalated")
     \/ o.status \in {"Returning", "Proceeds"} /\ Taken(i, p, o)

\* A step of the hub about the order i.
Acted(i) ==
  LET p == hub'.order[i]
      o == hub.order[i]
  IN \/ Handled(i, p, o) /\ UNCHANGED transfersSent /\ SameDelivered
     \/ LaunchedNow(i, p, o) /\ transfersSent' = transfersSent \cup {i} /\ SameDelivered
     \/ EscalatedNow(i, p, o) /\ UNCHANGED transfersSent
          /\ deliversSent' = deliversSent \cup {Delivery(i, 0, "Settlement")}

\* A delivery with shares asks for no money.
LEMMA SharesAreNoMoney ==
  ASSUME \/ deliversSent' = deliversSent
         \/ \E i, mode : deliversSent' = deliversSent \cup {Delivery(i, SharesIn, mode)}
  PROVE  SameDelivered
<1>1. CASE deliversSent' = deliversSent  BY <1>1 DEF SameDelivered, Delivered
<1>2. ASSUME NEW i, NEW mode, deliversSent' = deliversSent \cup {Delivery(i, SharesIn, mode)}
      PROVE  SameDelivered
  <2>1. Delivery(i, SharesIn, mode).shares # 0  BY HubAssumption DEF Delivery
  <2> QED  BY <1>2, <2>1 DEF SameDelivered, Delivered
<1> QED  BY <1>1, <1>2

\* The simple changes of a hub's order.
LEMMA SimpleTurns ==
  ASSUME NEW h, NEW i, Shaped(h, i)
  PROVE  /\ Shaped(FeePaid(h, i), i)
         /\ FeePaid(h, i).order[i] = [h.order[i] EXCEPT !.extra = @ - LzFee]
         /\ Shaped(Dispatched(h, i), i)
         /\ Dispatched(h, i).order[i] = [h.order[i] EXCEPT !.status = "Dispatched"]
         /\ Shaped(VoidPaid(h, i), i)
         /\ VoidPaid(h, i).order[i] = [h.order[i] EXCEPT !.voided = TRUE]
<1>1. /\ Shaped(FeePaid(h, i), i)
      /\ FeePaid(h, i).order[i] = [h.order[i] EXCEPT !.extra = @ - LzFee]
  <2>1. PICK o : o = [h.order[i] EXCEPT !.extra = @ - LzFee]  OBVIOUS
  <2>2. PICK g : g = FeePaid(h, i)  OBVIOUS
  <2>3. OrderShape(o)  BY <2>1 DEF Shaped, OrderShape
  <2>4. g = With(h, i, o, h.native - LzFee, h.escrowed - LzFee, h.accruedFees,
                 h.claimableTotal, h.supply)
    BY <2>1, <2>2 DEF FeePaid, Shaped, HasHubShape, With
  <2> QED  BY <2>1, <2>2, <2>3, <2>4, PutTurn
<1>2. /\ Shaped(Dispatched(h, i), i)
      /\ Dispatched(h, i).order[i] = [h.order[i] EXCEPT !.status = "Dispatched"]
  <2>1. PICK o : o = [h.order[i] EXCEPT !.status = "Dispatched"]  OBVIOUS
  <2>2. PICK g : g = Dispatched(h, i)  OBVIOUS
  <2>3. OrderShape(o)  BY <2>1 DEF Shaped, OrderShape
  <2>4. g = With(h, i, o, h.native, h.escrowed, h.accruedFees, h.claimableTotal, h.supply)
    BY <2>1, <2>2 DEF Dispatched, Shaped, HasHubShape, With
  <2> QED  BY <2>1, <2>2, <2>3, <2>4, PutTurn
<1>3. /\ Shaped(VoidPaid(h, i), i)
      /\ VoidPaid(h, i).order[i] = [h.order[i] EXCEPT !.voided = TRUE]
  <2>1. PICK o : o = [h.order[i] EXCEPT !.voided = TRUE]  OBVIOUS
  <2>2. PICK g : g = VoidPaid(h, i)  OBVIOUS
  <2>3. OrderShape(o)  BY <2>1 DEF Shaped, OrderShape
  <2>4. g = With(h, i, o, h.native, h.escrowed, h.accruedFees, h.claimableTotal, h.supply)
    BY <2>1, <2>2 DEF VoidPaid, Shaped, HasHubShape, With
  <2> QED  BY <2>1, <2>2, <2>3, <2>4, PutTurn
<1> QED  BY <1>1, <1>2, <1>3

\* So they are steps onward.
LEMMA SimpleOnward ==
  ASSUME NEW o \in HubOrder, NEW st
  PROVE  /\ Onward([o EXCEPT !.status = st], o, st)
         /\ o.extra >= LzFee => Onward([o EXCEPT !.extra = @ - LzFee, !.status = st], o, st)
<1>1. o.extra \in Nat /\ LzFee \in Nat  BY HubAssumption DEF HubOrder
<1>2. SameMoney([o EXCEPT !.status = st], [o EXCEPT !.status = st, !.extra = o.extra])
  BY DEF HubOrder, SameMoney
<1>3. ASSUME NEW x \in Nat
      PROVE  SameMoney([o EXCEPT !.extra = x, !.status = st], [o EXCEPT !.status = st, !.extra = x])
  BY DEF HubOrder, SameMoney
<1>4. ASSUME o.extra >= LzFee
      PROVE  Onward([o EXCEPT !.extra = @ - LzFee, !.status = st], o, st)
  <2>1. PICK x : x = o.extra - LzFee  OBVIOUS
  <2>2. x \in Nat /\ x <= o.extra  BY <1>1, <1>4, <2>1, SMTT(60)
  <2>3. SameMoney([o EXCEPT !.extra = x, !.status = st], [o EXCEPT !.status = st, !.extra = x])
    BY <1>3, <2>2, Zenon
  <2>4. PICK q : q = [o EXCEPT !.extra = @ - LzFee, !.status = st]  OBVIOUS
  <2>5. q = [o EXCEPT !.extra = x, !.status = st]  BY <2>1, <2>4
  <2>6. Onward(q, o, st)  BY <2>2, <2>3, <2>5, Zenon DEF Onward
  <2> QED  BY <2>4, <2>6
<1>5. Onward([o EXCEPT !.status = st], o, st)
  <2>1. o.extra <= o.extra  BY <1>1
  <2> QED  BY Zenon, <1>1, <1>2, <2>1 DEF Onward
<1> QED  BY <1>4, <1>5

\* The steps of users.
LEMMA UserActs ==
  ASSUME BooksOK, NEW i \in Ids, UserStep(i)
  PROVE  Acted(i)
<1> DEFINE o == hub.order[i]
<1>1. PICK g : g = hub'  OBVIOUS
<1>2. /\ Shaped(hub, i) /\ o \in HubOrder /\ OrderOK(i, o) /\ (i \in Sells => i \notin Buys)
  BY HubShaped, HubAssumption DEF BooksOK
<1>3. ASSUME Handled(i, g.order[i], o), UNCHANGED transfersSent,
             \/ deliversSent' = deliversSent
             \/ \E mode : deliversSent' = deliversSent \cup {Delivery(i, SharesIn, mode)}
      PROVE  Acted(i)
  <2>1. SameDelivered  BY <1>3, SharesAreNoMoney
  <2> QED  BY <1>1, <1>3, <2>1 DEF Acted
<1>4. CASE RequestBuy(i)
  <2>1. g = PlacedBuy(hub, i) /\ i \in Buys /\ o.status = "None" /\ UNCHANGED sentVars
    BY <1>1, <1>4 DEF RequestBuy, Order, Buys
  <2>2. o = NoOrder  BY <1>2, <2>1 DEF OrderOK
  <2>3. g.order[i] = [NoOrder EXCEPT !.status = "Pending", !.fee = BuyFee, !.extra = Extra]
    BY <1>2, <2>1 DEF PlacedBuy, Shaped, HasHubShape
  <2>4. Handled(i, g.order[i], o)  BY <2>1, <2>2, <2>3 DEF Handled, Opened, SameMoney
  <2> QED  BY <1>3, <2>1, <2>4 DEF sentVars
<1>5. CASE RequestSell(i) \/ \E mode \in {"Stock", "Settlement"} : CanonicalRedeem(i, mode)
  <2>1. PICK st \in {"Pending", "Escalated"} :
          g = [hub EXCEPT !.supply = @ - SharesIn, !.order[i].status = st]
    BY <1>1, <1>5 DEF RequestSell, CanonicalRedeem
  <2>2. /\ i \in Sells /\ o.status = "None" /\ UNCHANGED transfersSent
        /\ \/ deliversSent' = deliversSent
           \/ \E mode : deliversSent' = deliversSent \cup {Delivery(i, SharesIn, mode)}
    BY <1>5 DEF RequestSell, CanonicalRedeem, Order, sentVars
  <2>3. o = NoOrder  BY <1>2, <2>2 DEF OrderOK
  <2>4. g.order[i] = [o EXCEPT !.status = st]  BY <1>2, <2>1 DEF Shaped, HasHubShape
  <2>5. Handled(i, g.order[i], o)  BY <2>2, <2>3, <2>4 DEF Handled, Opened, SameMoney
  <2> QED  BY <1>3, <2>2, <2>5
<1>6. CASE Dispatch(i)
  <2>1. /\ g = Dispatched(hub, i) /\ UNCHANGED <<transfersSent, deliversSent>>
        /\ o.status = IF i \in Buys THEN "Funded" ELSE "Pending"
    BY <1>1, <1>6 DEF Dispatch, Order
  <2>2. g.order[i] = [o EXCEPT !.status = "Dispatched"]  BY <1>2, <2>1, SimpleTurns
  <2>3. Onward(g.order[i], o, "Dispatched")  BY <1>2, <2>2, SimpleOnward, Zenon
  <2>4. Handled(i, g.order[i], o)  BY <2>1, <2>3 DEF Handled, Ids
  <2> QED  BY <1>3, <2>1, <2>4
<1>7. CASE CancelPending(i)
  <2>1. g = BuyRefunded(hub, i) /\ i \in Buys /\ o.status = "Pending" /\ UNCHANGED sentVars
    BY <1>1, <1>7 DEF CancelPending, Order, Buys
  <2>2. Refunded(i, g.order[i], o)  BY <1>2, <2>1, RefundTurn
  <2> QED  BY <1>3, <2>1, <2>2 DEF Handled, sentVars
<1>8. CASE RequestCancel(i)
  <2>1. PICK c : c = [hub EXCEPT !.order[i].cancelRequested = TRUE]  OBVIOUS
  <2>2. PICK n : n = [o EXCEPT !.cancelRequested = TRUE]  OBVIOUS
  <2>3. OrderShape(n) /\ SameMoney(n, o)  BY <1>2, <2>2 DEF HubOrder, OrderShape, SameMoney
  <2>4. c = With(hub, i, n, hub.native, hub.escrowed, hub.accruedFees, hub.claimableTotal, hub.supply)
    BY <1>2, <2>1, <2>2 DEF Shaped, HasHubShape, With
  <2>5. Shaped(c, i) /\ c.order[i] = n  BY <1>2, <2>3, <2>4, PutTurn
  <2>6. PICK amount : amount = o.fee + o.extra  OBVIOUS
  <2>7. PICK d : d = [c EXCEPT !.order[i].advanced = TRUE, !.order[i].status = "Cancelled",
                               !.order[i].extra = 0, !.escrowed = @ - amount]
    OBVIOUS
  <2>8. PICK m : m = [n EXCEPT !.advanced = TRUE, !.status = "Cancelled", !.extra = 0]  OBVIOUS
  <2>9. OrderShape(m)  BY <2>3, <2>8 DEF OrderShape
  <2>10. d = With(c, i, m, c.native, c.escrowed - amount, c.accruedFees, c.claimableTotal, c.supply)
    BY <2>5, <2>7, <2>8 DEF Shaped, HasHubShape, With
  <2>11. Shaped(d, i) /\ d.order[i] = m  BY <2>5, <2>9, <2>10, PutTurn
  <2>12. \/ g = c
         \/ /\ Lane(i) = 0 /\ o.status = "Dispatched" /\ o.held = 0
            /\ g = Paid(d, i, "user", Principal + o.fee + o.extra)
    BY <1>1, <1>8, <2>1, <2>6, <2>7 DEF RequestCancel, Order
  <2>13. i \in Buys /\ UNCHANGED sentVars  BY <1>8 DEF RequestCancel
  <2>14. CASE g = c
    <3>1. Handled(i, g.order[i], o)  BY <2>3, <2>5, <2>14 DEF Handled
    <3> QED  BY <1>3, <2>13, <3>1 DEF sentVars
  <2>15. CASE /\ Lane(i) = 0 /\ o.status = "Dispatched" /\ o.held = 0
              /\ g = Paid(d, i, "user", Principal + o.fee + o.extra)
    <3>1. PICK all : all = Principal + o.fee + o.extra  OBVIOUS
    <3>2. PaidTo(g.order[i], m, "user", all)  BY <2>11, <2>15, <3>1, PaidTurn
    <3>3. SameMoney(m, [o EXCEPT !.advanced = TRUE, !.status = "Cancelled", !.extra = 0])
      BY <1>2, <2>2, <2>8 DEF HubOrder, SameMoney
    <3>4. FloatPaid(g.order[i], o)
      <4>1. PICK b : b = [o EXCEPT !.advanced = TRUE, !.status = "Cancelled", !.extra = 0]
        OBVIOUS
      <4>2. OrderShape(b)  BY <1>2, <4>1 DEF HubOrder, OrderShape
      <4>3. PaidTo(g.order[i], b, "user", all)
        BY <2>9, <3>2, <3>3, <4>1, <4>2, PaidSame
      <4> QED  BY <3>1, <4>1, <4>3 DEF FloatPaid
    <3>5. i \in PublicBuys  BY <2>13, <2>15, SMTT(60) DEF Lane, Buys
    <3>6. Handled(i, g.order[i], o)  BY <2>15, <3>4, <3>5 DEF Handled
    <3> QED  BY <1>3, <2>13, <3>6 DEF sentVars
  <2> QED  BY <2>12, <2>14, <2>15
<1>9. ASSUME NEW fromReserve \in BOOLEAN, VoidOrder(i, fromReserve)  PROVE Acted(i)
  <2>1. PICK f : f = FeePaid(hub, i)  OBVIOUS
  <2>2. PICK v : v = VoidPaid(f, i)  OBVIOUS
  <2>3. PICK c : c = IF fromReserve THEN v ELSE hub  OBVIOUS
  <2>4. /\ g = IF o.status = "Cancelled" THEN c ELSE Dispatched(c, i)
        /\ i \in Buys /\ UNCHANGED <<transfersSent, deliversSent>>
        /\ \/ o.advanced /\ o.status = "Cancelled"
           \/ o.status \in {"Funded", "Dispatched"}
        /\ fromReserve => o.extra >= LzFee
    BY <1>1, <1>9, <2>1, <2>2, <2>3 DEF VoidOrder, VoidPaid, Order
  <2>5. Shaped(f, i) /\ f.order[i] = [o EXCEPT !.extra = @ - LzFee]  BY <1>2, <2>1, SimpleTurns
  <2>6. Shaped(v, i) /\ v.order[i] = [f.order[i] EXCEPT !.voided = TRUE]
    BY <2>2, <2>5, SimpleTurns
  <2>7. PICK x \in Nat : x <= o.extra /\ x = IF fromReserve THEN o.extra - LzFee ELSE o.extra
    <3>1. o.extra \in Nat /\ LzFee \in Nat  BY <1>2, HubAssumption DEF HubOrder
    <3> QED  BY <2>4, <3>1
  <2>8. Shaped(c, i) /\ SameMoney(c.order[i], [o EXCEPT !.extra = x])
    <3>1. CASE fromReserve
      <4>1. f.order[i] = [o EXCEPT !.extra = x]  BY <2>5, <2>7, <3>1
      <4>2. SameMoney(v.order[i], f.order[i])
        BY <2>5, <2>6 DEF Shaped, OrderShape, SameMoney
      <4> QED  BY <2>3, <2>6, <3>1, <4>1, <4>2
    <3>2. CASE ~fromReserve
      <4>1. c = hub /\ x = o.extra  BY <2>3, <2>7, <3>2
      <4>2. SameMoney(o, [o EXCEPT !.extra = o.extra])  BY <1>2 DEF HubOrder, SameMoney
      <4> QED  BY <1>2, <4>1, <4>2
    <3> QED  BY <3>1, <3>2
  <2>9. CASE o.status = "Cancelled"
    <3>1. SameMoney(g.order[i], [o EXCEPT !.status = "Cancelled", !.extra = x])
      BY <1>2, <2>4, <2>8, <2>9, SMTT(60) DEF HubOrder, SameMoney
    <3>2. Onward(g.order[i], o, "Cancelled")  BY <2>7, <3>1, Zenon DEF Onward
    <3>3. Handled(i, g.order[i], o)  BY <2>4, <2>9, <3>2 DEF Handled
    <3> QED  BY <1>3, <2>4, <3>3
  <2>10. CASE o.status # "Cancelled"
    <3>1. g.order[i] = [c.order[i] EXCEPT !.status = "Dispatched"]
      BY <2>4, <2>8, <2>10, SimpleTurns
    <3>2. SameMoney(g.order[i], [o EXCEPT !.status = "Dispatched", !.extra = x])
      BY <1>2, <2>8, <3>1 DEF HubOrder, SameMoney, Shaped, OrderShape
    <3>3. Onward(g.order[i], o, "Dispatched")  BY <2>7, <3>2, Zenon DEF Onward
    <3>4. Handled(i, g.order[i], o)  BY <2>4, <2>10, <3>3 DEF Handled
    <3> QED  BY <1>3, <2>4, <3>4
  <2> QED  BY <2>9, <2>10
<1>10. CASE Escalate(i)
  <2>1. /\ g = [hub EXCEPT !.order[i].status = "Escalated"] /\ UNCHANGED transfersSent
        /\ i \in Sells /\ o.status \in {"Pending", "Dispatched"}
        /\ deliversSent' = deliversSent \cup {Delivery(i, SharesIn, "Settlement")}
    BY <1>1, <1>10 DEF Escalate, Order
  <2>2. g.order[i] = [o EXCEPT !.status = "Escalated"]  BY <1>2, <2>1 DEF Shaped, HasHubShape
  <2>3. Onward(g.order[i], o, "Escalated")  BY <1>2, <2>2, SimpleOnward, Zenon
  <2>4. Handled(i, g.order[i], o)  BY <2>1, <2>3 DEF Handled
  <2> QED  BY <1>3, <2>1, <2>4
<1>11. CASE EscalateFunds(i)
  <2>1. /\ Lane(i) = 0 /\ UNCHANGED transfersSent
        /\ deliversSent' = deliversSent \cup {Delivery(i, 0, "Settlement")}
        /\ \/ /\ i \in Buys /\ o.status \in {"Funded", "Dispatched"}
              /\ g = [hub EXCEPT !.order[i].status = "Escalated"]
           \/ o.status \in {"Returning", "Proceeds"} /\ g = FundsTaken(hub, i)
    BY <1>1, <1>11 DEF EscalateFunds, Order
  <2>2. CASE /\ i \in Buys /\ o.status \in {"Funded", "Dispatched"}
             /\ g = [hub EXCEPT !.order[i].status = "Escalated"]
    <3>1. g.order[i] = [o EXCEPT !.status = "Escalated"]  BY <1>2, <2>2 DEF Shaped, HasHubShape
    <3>2. Onward(g.order[i], o, "Escalated")  BY <1>2, <3>1, SimpleOnward, Zenon
    <3> QED  BY <1>1, <2>1, <2>2, <3>2 DEF Acted, EscalatedNow
  <2>3. CASE o.status \in {"Returning", "Proceeds"} /\ g = FundsTaken(hub, i)
    <3>1. Taken(i, g.order[i], o)  BY <1>2, <2>3, TakenTurn
    <3> QED  BY <1>1, <2>1, <2>3, <3>1 DEF Acted, EscalatedNow
  <2> QED  BY <2>1, <2>2, <2>3
<1>12. CASE Claim(i)
  <2>1. PICK paid : paid = IF Lane(i) = 0 THEN o.paid + o.owed ELSE o.paid  OBVIOUS
  <2>2. g = [hub EXCEPT !.order[i] = [o EXCEPT !.owed = 0, !.paid = paid],
                        !.claimableTotal = @ - o.owed, !.native = @ - o.owed]
        /\ UNCHANGED sentVars
    BY <1>1, <1>12, <2>1 DEF Claim, Order
  <2>3. g.order[i] = [o EXCEPT !.owed = 0, !.paid = paid]  BY <1>2, <2>2 DEF Shaped, HasHubShape
  <2>4. Claimed(i, g.order[i], o)  BY <2>1, <2>3 DEF Claimed, SameMoney
  <2> QED  BY <1>3, <2>2, <2>4 DEF Handled, sentVars
<1> QED
  BY <1>4, <1>5, <1>6, <1>7, <1>8, <1>9, <1>10, <1>11, <1>12 DEF UserStep

\* The steps of keepers and of the reward manager.
LEMMA KeeperActs ==
  ASSUME BooksOK, NEW i \in Ids, KeeperStep(i)
  PROVE  Acted(i) \/ (hub' = hub /\ UNCHANGED sentVars)
<1> DEFINE o == hub.order[i]
<1>1. PICK g : g = hub'  OBVIOUS
<1>2. /\ Shaped(hub, i) /\ o \in HubOrder /\ OrderOK(i, o) /\ (i \in RewardBuys => i \in Buys)
      /\ o.extra \in Nat /\ LzFee \in Nat /\ RouteFees \subseteq Nat
  BY HubShaped, HubAssumption DEF BooksOK, Buys, HubOrder
<1>3. ASSUME Handled(i, g.order[i], o), UNCHANGED <<transfersSent, deliversSent>>
      PROVE  Acted(i)
  <2>1. SameDelivered  BY <1>3, SharesAreNoMoney
  <2> QED  BY <1>1, <1>3, <2>1 DEF Acted
<1>4. ASSUME NEW f, Shaped(f, i), NEW x \in Nat, f.order[i].extra = x, x >= LzFee
      PROVE  /\ Shaped(Dispatched(FeePaid(f, i), i), i)
             /\ Dispatched(FeePaid(f, i), i).order[i]
                  = [f.order[i] EXCEPT !.extra = x - LzFee, !.status = "Dispatched"]
  <2>1. PICK e : e = FeePaid(f, i)  OBVIOUS
  <2>2. Shaped(e, i) /\ e.order[i] = [f.order[i] EXCEPT !.extra = x - LzFee]
    BY <1>4, <2>1, SimpleTurns, ZenonT(60)
  <2>3. /\ Shaped(Dispatched(e, i), i)
        /\ Dispatched(e, i).order[i] = [e.order[i] EXCEPT !.status = "Dispatched"]
    BY <2>2, SimpleTurns, ZenonT(60)
  <2> QED  BY <2>1, <2>2, <2>3
<1>5. ASSUME NEW routeFee \in RouteFees, Launch(i, routeFee)  PROVE Acted(i)
  <2>1. PICK x : x = o.extra - routeFee  OBVIOUS
  <2>2. PICK s : s = [hub EXCEPT !.order[i].extra = @ - routeFee, !.order[i].status = "Funded",
                                 !.escrowed = @ - (Principal + routeFee),
                                 !.native = @ - (Principal + routeFee)]
    OBVIOUS
  <2>3. PICK n : n = [o EXCEPT !.extra = x, !.status = "Funded"]  OBVIOUS
  <2>4. OrderShape(n)  BY <1>2, <2>3 DEF HubOrder, OrderShape
  <2>5. s = With(hub, i, n, hub.native - (Principal + routeFee),
                 hub.escrowed - (Principal + routeFee), hub.accruedFees, hub.claimableTotal,
                 hub.supply)
    BY <1>2, <2>1, <2>2, <2>3 DEF Shaped, HasHubShape, With
  <2>6. Shaped(s, i) /\ s.order[i] = n  BY <1>2, <2>4, <2>5, PutTurn
  <2>7. n.extra = x  BY <1>2, <2>3 DEF HubOrder
  <2>8. /\ i \in Buys /\ o.status = "Pending"
        /\ \/ Lane(i) = 0 /\ g = BuyRefunded(hub, i) /\ UNCHANGED sentVars
           \/ /\ routeFee <= o.extra /\ transfersSent' = transfersSent \cup {i}
              /\ UNCHANGED deliversSent
              /\ \/ g = s
                 \/ s.order[i].extra >= LzFee /\ g = Dispatched(FeePaid(s, i), i)
    <3>1. routeFee \in Nat  BY <1>2
    <3> QED  BY <1>1, <1>2, <1>5, <2>2, <3>1 DEF Launch, Order
  <2>9. CASE g = BuyRefunded(hub, i) /\ UNCHANGED sentVars
    <3>1. Refunded(i, g.order[i], o)  BY <1>2, <2>9, RefundTurn
    <3> QED  BY <1>3, <2>8, <2>9, <3>1 DEF Handled, sentVars
  <2>10. CASE /\ routeFee <= o.extra /\ transfersSent' = transfersSent \cup {i}
              /\ UNCHANGED deliversSent
              /\ \/ g = s
                 \/ s.order[i].extra >= LzFee /\ g = Dispatched(FeePaid(s, i), i)
    <3>1. x \in Nat /\ x <= o.extra
      <4>1. routeFee \in Nat  BY <1>2
      <4> QED  BY <1>2, <2>1, <2>10, <4>1
    <3>2. SameDelivered  BY <2>10, SharesAreNoMoney
    <3>3. CASE g = s
      <4>1. SameMoney(g.order[i], [o EXCEPT !.status = "Funded", !.extra = x])
        BY <1>2, <2>3, <2>6, <3>3, ZenonT(60) DEF HubOrder, SameMoney
      <4>2. Onward(g.order[i], o, "Funded")  BY <3>1, <4>1, Zenon DEF Onward
      <4> QED  BY <1>1, <2>8, <2>10, <3>2, <4>2 DEF Acted, LaunchedNow
    <3>4. CASE s.order[i].extra >= LzFee /\ g = Dispatched(FeePaid(s, i), i)
      <4>1. x >= LzFee  BY <2>6, <2>7, <3>4, SMTT(60)
      <4>2. g.order[i] = [n EXCEPT !.extra = x - LzFee, !.status = "Dispatched"]
        BY <1>4, <2>6, <2>7, <3>1, <3>4, <4>1, Zenon
      <4>3. PICK y : y = x - LzFee  OBVIOUS
      <4>4. y \in Nat /\ y <= o.extra  BY <1>2, <3>1, <4>1, <4>3
      <4>5. SameMoney(g.order[i], [o EXCEPT !.status = "Dispatched", !.extra = y])
        BY <1>2, <2>3, <4>2, <4>3 DEF HubOrder, SameMoney
      <4>6. Onward(g.order[i], o, "Dispatched")  BY <4>4, <4>5, Zenon DEF Onward
      <4> QED  BY <1>1, <2>8, <2>10, <3>2, <4>6 DEF Acted, LaunchedNow
    <3> QED  BY <2>10, <3>3, <3>4
  <2> QED  BY <2>8, <2>9, <2>10
<1>6. CASE BeginFunding(i)
  <2>1. g = PlacedBuy(hub, i) /\ i \in Buys /\ o.status = "None" /\ UNCHANGED sentVars
    BY <1>1, <1>2, <1>6 DEF BeginFunding, Order
  <2>2. o = NoOrder  BY <1>2, <2>1 DEF OrderOK
  <2>3. g.order[i] = [NoOrder EXCEPT !.status = "Pending", !.fee = BuyFee, !.extra = Extra]
    BY <1>2, <2>1 DEF PlacedBuy, Shaped, HasHubShape
  <2>4. Handled(i, g.order[i], o)  BY <2>1, <2>2, <2>3 DEF Handled, Opened, SameMoney
  <2> QED  BY <1>3, <2>1, <2>4 DEF sentVars
<1>7. CASE SubmitFundedBuy(i)
  <2>1. /\ g = Dispatched(FeePaid(hub, i), i) /\ i \in Buys /\ o.status = "Funded"
        /\ o.extra >= LzFee /\ UNCHANGED <<transfersSent, deliversSent>>
    BY <1>1, <1>2, <1>7 DEF SubmitFundedBuy, Order
  <2>2. g.order[i] = [o EXCEPT !.extra = o.extra - LzFee, !.status = "Dispatched"]
    BY <1>2, <1>4, <2>1, Zenon
  <2>3. PICK y : y = o.extra - LzFee  OBVIOUS
  <2>4. y \in Nat /\ y <= o.extra  BY <1>2, <2>1, <2>3
  <2>5. SameMoney(g.order[i], [o EXCEPT !.status = "Dispatched", !.extra = y])
    BY <1>2, <2>2, <2>3 DEF HubOrder, SameMoney
  <2>6. Onward(g.order[i], o, "Dispatched")  BY <2>4, <2>5, Zenon DEF Onward
  <2>7. Handled(i, g.order[i], o)  BY <2>1, <2>6 DEF Handled
  <2> QED  BY <1>3, <2>1, <2>7
<1>8. CASE CancelReward(i)
  <2>1. g = BuyRefunded(hub, i) /\ i \in Buys /\ o.status = "Pending" /\ UNCHANGED sentVars
    BY <1>1, <1>2, <1>8 DEF CancelReward, Order
  <2>2. Refunded(i, g.order[i], o)  BY <1>2, <2>1, RefundTurn
  <2> QED  BY <1>3, <2>1, <2>2 DEF Handled, sentVars
<1>9. CASE ClaimResult(i)
  <2>1. i \in RewardBuys /\ UNCHANGED sentVars  BY <1>9 DEF ClaimResult
  <2>2. CASE /\ o.custodyRaw # 0
             /\ g = [hub EXCEPT !.order[i] = [o EXCEPT !.custodyRaw = 0,
                                                       !.shares = @ + o.custodyRaw]]
    <3>1. g.order[i] = [o EXCEPT !.custodyRaw = 0, !.shares = @ + o.custodyRaw]
      BY <1>2, <2>2 DEF Shaped, HasHubShape
    <3>2. ResultClaimed(g.order[i], o)  BY <2>2, <3>1 DEF ResultClaimed, SameMoney
    <3> QED  BY <1>3, <2>1, <3>2 DEF Handled, sentVars
  <2>3. CASE /\ o.refundReady # 0
             /\ g = [hub EXCEPT !.order[i] = [o EXCEPT !.refundReady = 0,
                                                       !.paid = @ + o.refundReady],
                                !.escrowed = @ - o.refundReady, !.native = @ - o.refundReady]
    <3>1. g.order[i] = [o EXCEPT !.refundReady = 0, !.paid = @ + o.refundReady]
      BY <1>2, <2>3 DEF Shaped, HasHubShape
    <3>2. ResultClaimed(g.order[i], o)  BY <2>3, <3>1 DEF ResultClaimed, SameMoney
    <3> QED  BY <1>3, <2>1, <3>2 DEF Handled, sentVars
  <2> QED  BY <1>1, <1>9, <2>2, <2>3 DEF ClaimResult, Order
<1>10. CASE ReserveReward(i)  BY <1>10 DEF ReserveReward
<1> QED  BY <1>5, <1>6, <1>7, <1>8, <1>9, <1>10 DEF KeeperStep

-----------------------------------------------------------------------------
(* What an answer does to an order's money.                                *)

\* settle: the branch that the answer r takes for the order i.
Answered(i, p, o, r) ==
  LET open == o.status \in {"Dispatched", "Escalated"}
      lent == o.status = "Cancelled" /\ o.advanced
  IN /\ o.outcome = 0
     /\ \/ /\ r.outcome = "Bought" /\ i \in Buys
           /\ \/ open /\ FilledWith(i, p, o, r.amountOut)
              \/ lent /\ SameMoney(p, [o EXCEPT !.rawOut = r.amountOut, !.outcome = 1])
        \/ /\ r.outcome = "Sold" /\ i \in Sells
           /\ open \/ o.status = "Pending"
           /\ SoldFor(i, p, o, r.amountOut)
        \/ /\ r.outcome = "Failed" /\ i \in Buys
           /\ open \/ lent
           /\ FailedBuy(i, p, o)
        \/ /\ r.outcome = "Failed" /\ i \in Sells
           /\ open \/ o.status = "Pending"
           /\ FailedSell(i, p, o)

\* An answer that applies changes the money of its one order, as its outcome says.
LEMMA AnswerTurn ==
  ASSUME BooksOK, NEW i \in Ids, NEW r, WellFormed(r), Ready(i), NEW canonical \in BOOLEAN,
         Settle(i, r, canonical)
  PROVE  Answered(i, hub'.order[i], hub.order[i], r)
<1>1. PICK g : g = hub'  OBVIOUS
<1>2. PICK o : o = hub.order[i]  OBVIOUS
<1>3. PICK raw : raw = r.amountOut  OBVIOUS
<1>4. /\ Shaped(hub, i) /\ OrderOK(i, o) /\ (i \in Buys <=> i \notin Sells)
      /\ (i \in Buys => o.status # "Pending")
  BY <1>2, HubShaped, HubAssumption DEF BooksOK, Ready, Order, Ids
<1>5. CASE r.outcome = "Bought"
  <2>1. /\ i \in Buys
        /\ g = IF FloatCancelled(i) THEN Orphaned(hub, i, raw, canonical)
                                    ELSE BoughtApplied(hub, i, raw, canonical)
        /\ Unanswered(i) \/ FloatCancelled(i)
    BY <1>1, <1>3, <1>5 DEF Settle, Applies
  <2>2. CASE FloatCancelled(i)
    <3>1. SameMoney(g.order[i], [o EXCEPT !.rawOut = raw, !.outcome = 1])
      BY <1>2, <1>4, <2>1, <2>2, OrphanTurn, Zenon
    <3>2. o.status = "Cancelled" /\ o.advanced /\ o.outcome = 0
      BY <1>2, <2>2 DEF FloatCancelled, Order
    <3> QED  BY <1>1, <1>2, <1>3, <1>5, <2>1, <3>1, <3>2 DEF Answered
  <2>3. CASE ~FloatCancelled(i)
    <3>1. FilledWith(i, g.order[i], o, raw)  BY <1>2, <1>4, <2>1, <2>3, BoughtTurn
    <3>2. o.status \in {"Dispatched", "Escalated"} /\ o.outcome = 0
      BY <1>2, <2>1, <2>3 DEF Unanswered, Order
    <3> QED  BY <1>1, <1>2, <1>3, <1>5, <2>1, <3>1, <3>2 DEF Answered
  <2> QED  BY <2>2, <2>3
<1>6. CASE r.outcome = "Sold"
  <2>1. PICK allowed \in BOOLEAN : g = SoldApplied(hub, i, raw, canonical, allowed)
    BY <1>1, <1>3, <1>6 DEF Settle
  <2>2. SoldFor(i, g.order[i], o, raw)  BY <1>2, <1>4, <2>1, SoldTurn
  <2>3. i \in Sells /\ o.outcome = 0 /\ o.status \in {"Pending", "Dispatched", "Escalated"}
    BY <1>2, <1>6 DEF Settle, Applies, Order
  <2> QED  BY <1>1, <1>2, <1>3, <1>6, <2>2, <2>3 DEF Answered
<1>7. CASE r.outcome = "Failed"
  <2>1. Applies(i, "Failed")  BY <1>7 DEF Settle
  <2>2. \/ Unanswered(i) \/ o.status = "Pending" \/ FloatCancelled(i)
        \/ (i \in Sells /\ o.status = "Escalated" /\ o.outcome = 0)
    BY <1>2, <2>1 DEF Applies, Order
  <2>3. CASE i \in Buys
    <3>1. g = BuyFailed(hub, i, canonical)  BY <1>1, <1>4, <1>7, <2>3 DEF Settle
    <3>2. FailedBuy(i, g.order[i], o)  BY <1>2, <1>4, <2>1, <2>3, <3>1, BuyFailedTurn
    <3>3. /\ o.outcome = 0
          /\ \/ o.status \in {"Dispatched", "Escalated"}
             \/ o.status = "Cancelled" /\ o.advanced
      BY <1>2, <1>4, <2>2, <2>3 DEF Unanswered, FloatCancelled, Order
    <3> QED  BY <1>1, <1>2, <1>7, <2>3, <3>2, <3>3 DEF Answered
  <2>4. CASE i \in Sells
    <3>1. g = SellFailed(hub, i, canonical)  BY <1>1, <1>4, <1>7, <2>4 DEF Settle
    <3>2. FailedSell(i, g.order[i], o)  BY <1>2, <1>4, <3>1, SellFailedTurn
    <3>3. o.outcome = 0 /\ o.status \in {"Pending", "Dispatched", "Escalated"}
      BY <1>2, <1>4, <2>2, <2>4 DEF Unanswered, FloatCancelled, Order, OrderOK
    <3> QED  BY <1>1, <1>2, <1>7, <2>4, <3>2, <3>3 DEF Answered
  <2> QED  BY <2>3, <2>4 DEF Ids
<1> QED  BY <1>5, <1>6, <1>7 DEF WellFormed, ResultType

-----------------------------------------------------------------------------
(* The kinds of step, by whose money they move.                            *)

OnlyOrder(i) == \A j \in Ids \ {i} : hub'.order[j] = hub.order[j]
NothingSent == UNCHANGED <<transfersSent, deliversSent>>

\* Neither the vault nor the route takes part.
HubActs(i) ==
  /\ OnlyOrder(i) /\ UNCHANGED <<vaultVars, routeVars, giftVars>>
  /\ \/ Acted(i)
     \/ \E n \in ResultOf(i) :
          Answered(i, hub'.order[i], hub.order[i], results[n]) /\ NothingSent

Arrived(i, amount) ==
  /\ OnlyOrder(i) /\ NothingSent /\ Order(i).status # "None"
  /\ Arrives(i, hub'.order[i], hub.order[i], amount)
Given(i, amount) ==
  /\ OnlyOrder(i) /\ NothingSent /\ Order(i).status # "None"
  /\ \/ Arrives(i, hub'.order[i], hub.order[i], amount)
     \/ Topped(i, hub'.order[i], hub.order[i], amount)

\* A step that moves no order's money; one of the hub; money that arrives there, or is
\* given; and one of the vault, or money that arrives there.
IdleStep ==
  hub'.order = hub.order /\ NothingSent /\ UNCHANGED <<vaultVars, routeVars, giftVars>>
BounceStep(i, cost) ==
  /\ i \in transfersSent \ resolved /\ Arrived(i, Principal - cost)
  /\ resolved' = resolved \cup {i} /\ UNCHANGED <<vaultVars, credited, giftVars>>
CreditStep(t, cost) ==
  /\ t \notin credited /\ t.amount > cost /\ Arrived(t.ref, t.amount - cost)
  /\ credited' = credited \cup {t} /\ UNCHANGED <<vaultVars, resolved, giftVars>>
GiftStep(i, amount) ==
  /\ Given(i, amount)
  /\ topUps' = [topUps EXCEPT ![i] = @ + amount] /\ UNCHANGED <<vaultVars, routeVars, donated>>
VaultSideStep ==
  /\ hub' = hub /\ NothingSent
  /\ \/ VaultStep /\ UNCHANGED <<routeVars, giftVars>>
     \/ \E i \in Buys : Fill(i)
     \/ \E r \in Refs, amount \in FundAmounts : Donation(r, amount)
MoneyStep ==
  \/ IdleStep \/ VaultSideStep
  \/ \E i \in Ids : HubActs(i)
  \/ \E i \in Ids, cost \in Costs : BounceStep(i, cost)
  \/ \E t \in returnsSent, cost \in Costs : CreditStep(t, cost)
  \/ \E i \in Ids, amount \in Nat : GiftStep(i, amount)

\* Every step of the layer is of one of these kinds.
LEMMA LayerMoney ==
  ASSUME LayerInv, LayerNext
  PROVE  MoneyStep
<1>0. BooksOK /\ IsHub(hub) /\ Owed(hub) >= 0
  BY TotalsAreAmounts DEF LayerInv, BooksOK
<1>1. ASSUME HubStep, UNCHANGED <<vaultVars, routeVars, giftVars>>  PROVE MoneyStep
  <2>1. ASSUME NEW i \in Ids, Acted(i), Quiet(hub, hub', i)  PROVE MoneyStep
    BY <1>1, <2>1 DEF MoneyStep, HubActs, OnlyOrder, Quiet, Sound, Differs
  <2>2. ASSUME NEW i \in Ids, UserStep(i)  PROVE MoneyStep
    BY <1>0, <2>1, <2>2, UserActs, UserQuiet
  <2>3. ASSUME NEW i \in Ids, KeeperStep(i)  PROVE MoneyStep
    <3>1. CASE hub' = hub /\ UNCHANGED sentVars
      BY <1>1, <3>1 DEF MoneyStep, IdleStep, NothingSent, sentVars
    <3>2. CASE Acted(i) /\ hub' # hub
      <4>1. Quiet(hub, hub', i)  BY <1>0, <2>3, <3>2, KeeperQuiet
      <4> QED  BY <2>1, <3>2, <4>1
    <3>3. CASE Acted(i) /\ hub' = hub
      BY <1>1, <3>3 DEF MoneyStep, HubActs, OnlyOrder
    <3> QED  BY <1>0, <2>3, <3>1, <3>2, <3>3, KeeperActs
  <2>4. ASSUME AdminStep  PROVE MoneyStep
    <3>1. /\ ClaimFees \/ WithdrawHubFloat \/ hub' = hub
          /\ UNCHANGED sentVars
      BY <2>4 DEF AdminStep, ClaimFees, WithdrawHubFloat, SetHubFloat, SetMintsHalted
    <3>2. hub'.order = hub.order  BY <1>0, <3>1, AdminLevel DEF Level
    <3> QED  BY <1>1, <3>1, <3>2 DEF MoneyStep, IdleStep, NothingSent, sentVars
  <2> QED  BY <1>1, <2>2, <2>3, <2>4 DEF HubStep
<1>2. ASSUME NEW n \in DOMAIN results, NEW canonical \in BOOLEAN, results[n].ref \in Ids,
             Settle(results[n].ref, results[n], canonical), UNCHANGED sentVars,
             UNCHANGED <<vaultVars, routeVars, giftVars>>
      PROVE  MoneyStep
  <2>1. PICK i \in Ids : i = results[n].ref  BY <1>2
  <2>2. Ready(i) /\ WellFormed(results[n])  BY <2>1, LoggedIsReady
  <2>3. Answered(i, hub'.order[i], hub.order[i], results[n])
    BY <1>0, <1>2, <2>1, <2>2, AnswerTurn
  <2>4. Answers(hub, hub', i, Code(results[n].outcome), results[n].amountOut)
    BY <1>0, <1>2, <2>1, <2>2, SettleAnswers
  <2>5. OnlyOrder(i)  BY <2>4 DEF OnlyOrder, Answers, Sound, Differs
  <2>6. n \in ResultOf(i)  BY <2>1 DEF ResultOf
  <2> QED  BY <1>2, <2>3, <2>5, <2>6 DEF MoneyStep, HubActs, NothingSent, sentVars
<1>3. ASSUME NEW r \in lzSent, FastResult(r)  PROVE MoneyStep
  <2>1. PICK n \in DOMAIN results : results[n] = r  BY DEF LayerInv, LogOK
  <2> QED  BY <1>2, <1>3, <2>1 DEF FastResult, ReceiveResult
<1>4. ASSUME NEW n \in DOMAIN results, ProvenResult(n)  PROVE MoneyStep
  <2>1. PICK r : r = results[n]  OBVIOUS
  <2>2. Reconcile(r) /\ UNCHANGED sentVars /\ UNCHANGED <<vaultVars, routeVars, giftVars>>
    BY <1>4, <2>1 DEF ProvenResult, Reconcile
  <2>3. CASE ReconcileMigration(r)
    <3>1. hub' = [hub EXCEPT !.supply = @ + r.amountOut]  BY <2>3 DEF ReconcileMigration
    <3>2. hub'.order = hub.order  BY <1>0, <3>1 DEF IsHub
    <3> QED  BY <2>2, <3>2 DEF MoneyStep, IdleStep, NothingSent, sentVars
  <2>4. CASE ReconcileSettled(r)
    <3>1. r.ref \in Ids /\ Order(r.ref).lzSettled  BY <2>4 DEF ReconcileSettled
    <3>2. Order(r.ref).outcome # 0  BY <1>0, <3>1 DEF BooksOK, OrderOK, Order
    <3>3. PICK m \in ResultOf(r.ref) : Matches(r.ref, results[m])
      BY <3>1, <3>2 DEF LayerInv, HubAgreesWithVault
    <3>4. m = n  BY <2>1, <3>3 DEF LayerInv, OneResultPerRef, ResultOf
    <3>5. hub' = hub  BY <2>1, <2>4, <3>3, <3>4 DEF ReconcileSettled
    <3> QED  BY <2>2, <3>5 DEF MoneyStep, IdleStep, NothingSent, sentVars
  <2>5. CASE r.ref \in Ids /\ Settle(r.ref, r, TRUE)  BY <1>2, <2>1, <2>2, <2>5
  <2> QED  BY <2>2, <2>3, <2>4, <2>5 DEF Reconcile
<1>5. ASSUME NEW i \in Ids, NEW amount \in Nat, ReceiveReturn(i, amount), Order(i).status # "None"
      PROVE  Arrived(i, amount)
  <2>1. PICK h : h = hub'  OBVIOUS
  <2>2. h = Returned(hub, i, amount)  BY <1>5, <2>1 DEF ReceiveReturn
  <2>3. OrderOK(i, hub.order[i]) /\ Shaped(hub, i)  BY <1>0, HubShaped DEF BooksOK
  <2>4. Quiet(hub, h, i)  BY <1>0, <1>5, <2>2, <2>3, ReturnedEffect DEF Order
  <2>5. Arrives(i, h.order[i], hub.order[i], amount)  BY <2>2, <2>3, ArrivalTurn
  <2> QED
    BY <1>5, <2>1, <2>4, <2>5
    DEF Arrived, OnlyOrder, Quiet, Sound, Differs, NothingSent, ReceiveReturn, sentVars
<1>6. ASSUME NEW i \in Buys, NEW cost \in Costs, Bounce(i, cost)  PROVE MoneyStep
  <2>1. i \in Ids /\ Order(i).status # "None"  BY <1>6 DEF Bounce, LayerInv, SentOK, Ids, Ready
  <2>2. Principal - cost \in Nat  BY HubAssumption, LayerAssumption
  <2>3. Arrived(i, Principal - cost)  BY <1>5, <1>6, <2>1, <2>2 DEF Bounce
  <2> QED  BY <1>6, <2>1, <2>3 DEF MoneyStep, BounceStep, Bounce
<1>7. ASSUME NEW t \in returnsSent, NEW cost \in Costs, Credit(t, cost)  PROVE MoneyStep
  <2>1. t.ref \in Ids /\ t.amount \in Nat
    BY LayerAssumption DEF LayerInv, VaultTypeOK, TransferType
  <2>2. Order(t.ref).status # "None"  BY <2>1, LayerAssumption DEF LayerInv, HeldOK, Ready
  <2>3. t.amount - cost \in Nat  BY <1>7, <2>1, LayerAssumption, HubAssumption DEF Credit
  <2>4. Arrived(t.ref, t.amount - cost)  BY <1>5, <1>7, <2>1, <2>2, <2>3 DEF Credit
  <2> QED  BY <1>7, <2>4 DEF MoneyStep, CreditStep, Credit
<1>8. ASSUME NEW i \in Ids, NEW amount \in HubDust, CreditDust(i, amount)  PROVE MoneyStep
  <2>1. amount \in Nat /\ Order(i).status # "None"  BY <1>8, LayerAssumption DEF CreditDust
  <2>2. Arrived(i, amount)  BY <1>5, <1>8, <2>1 DEF CreditDust
  <2> QED  BY <1>8, <2>1, <2>2 DEF MoneyStep, GiftStep, Given, Arrived, CreditDust, ToppedUp
<1>9. ASSUME NEW i \in Ids, NEW amount \in Subsidies, TopUpReserve(i, amount)  PROVE MoneyStep
  <2>1. amount \in Nat /\ Subsidize(i, amount)  BY <1>9, HubAssumption DEF TopUpReserve
  <2>2. Quiet(hub, hub', i)  BY <1>0, <2>1, SubsidizeQuiet
  <2>3. Shaped(hub, i)  BY <1>0, HubShaped
  <2>4. Topped(i, hub'.order[i], hub.order[i], amount)  BY <2>1, <2>3, TopUpTurn, SMTT(60)
  <2>5. Given(i, amount)
    BY <2>1, <2>2, <2>4
    DEF Given, OnlyOrder, Quiet, Sound, Differs, NothingSent, Subsidize, sentVars
  <2> QED  BY <1>9, <2>1, <2>5 DEF MoneyStep, GiftStep, TopUpReserve, ToppedUp
<1>10. ASSUME VaultStep, UNCHANGED <<hubVars, routeVars, giftVars>>  PROVE MoneyStep
  BY <1>10 DEF MoneyStep, VaultSideStep, NothingSent, hubVars, sentVars
<1>11. ASSUME NEW i \in Buys, Fill(i)  PROVE MoneyStep
  BY <1>11 DEF MoneyStep, VaultSideStep, NothingSent, hubVars, sentVars, Fill
<1>12. ASSUME NEW r \in Refs, NEW amount \in FundAmounts, Donation(r, amount)  PROVE MoneyStep
  BY <1>12 DEF MoneyStep, VaultSideStep, NothingSent, hubVars, sentVars, Donation
<1> QED
  BY <1>1, <1>3, <1>4, <1>6, <1>7, <1>8, <1>9, <1>10, <1>11, <1>12 DEF LayerNext

-----------------------------------------------------------------------------
(* A reward order ends with its stock or with its principal.               *)

RewardOK(o) ==
  /\ o.status \in {"None", "Pending", "Funded", "Dispatched", "Returning", "Filled", "Cancelled"}
  /\ ~o.advanced
  /\ o.status \notin {"Filled", "Cancelled"} =>
       o.shares = 0 /\ o.custodyRaw = 0 /\ o.paid = 0 /\ o.refundReady = 0
  /\ o.status = "Filled" =>
       o.shares + o.custodyRaw = o.amountOut /\ o.paid = 0 /\ o.refundReady = 0
  /\ o.status = "Cancelled" =>
       o.shares = 0 /\ o.custodyRaw = 0 /\ o.paid + o.refundReady = Principal

\* The fields it is about.
RewardPart(p, o) ==
  /\ p.status = o.status /\ p.advanced = o.advanced /\ p.shares = o.shares
  /\ p.custodyRaw = o.custodyRaw /\ p.paid = o.paid /\ p.refundReady = o.refundReady
  /\ p.amountOut = o.amountOut

\* What a payment to Ops or to the treasury leaves alone.
LEMMA OpsPaid ==
  ASSUME NEW p, NEW o, OrderShape(o), NEW to, to # "user", NEW amount, PaidTo(p, o, to, amount)
  PROVE  RewardPart(p, o)
BY DEF PaidTo, SameMoney, RewardPart, OrderShape

\* An order whose money is the same keeps its promise to the manager.
LEMMA RewardSame ==
  ASSUME NEW p, NEW o, RewardPart(p, o), RewardOK(o)
  PROVE  RewardOK(p)
BY DEF RewardPart, RewardOK

\* For a reward order nothing goes to a user.
LEMMA RewardLane ==
  ASSUME NEW i \in RewardBuys
  PROVE  /\ i \in Buys /\ Lane(i) = 1 /\ i \notin PublicBuys /\ i \notin Sells
         /\ \A o, amount : LateFor(i, o, amount) # "user"
         /\ Beneficiary(i) # "user" /\ Principal \in Nat
BY HubAssumption DEF Buys, Lane, LateFor, Beneficiary

\* A cancelled reward order with the principal ready, whatever Ops is paid.
LEMMA RewardCancelled ==
  ASSUME NEW i \in RewardBuys, NEW p, NEW o, OrderShape(o), NEW amount,
         o.status = "Cancelled", ~o.advanced, o.shares = 0, o.custodyRaw = 0, o.paid = 0,
         PaidTo(p, [o EXCEPT !.refundReady = Principal], "ops", amount)
  PROVE  RewardOK(p)
<1>1. PICK b : b = [o EXCEPT !.refundReady = Principal]  OBVIOUS
<1>2. /\ OrderShape(b) /\ b.status = "Cancelled" /\ ~b.advanced /\ b.shares = 0
      /\ b.custodyRaw = 0 /\ b.paid = 0 /\ b.refundReady = Principal
  BY <1>1 DEF OrderShape
<1>3. RewardPart(p, b)  BY <1>1, <1>2, OpsPaid
<1>4. RewardOK(b)  BY <1>2, RewardLane DEF RewardOK
<1> QED  BY <1>3, <1>4, RewardSame

\* A reward buy whose money is back.
LEMMA RewardClosed ==
  ASSUME NEW i \in RewardBuys, NEW p, NEW o, OrderShape(o), RewardOK(o),
         o.status = "Returning", Closed(i, p, o)
  PROVE  RewardOK(p)
<1>1. PICK c : c = [o EXCEPT !.status = "Cancelled", !.held = 0, !.extra = 0, !.fee = 0]
  OBVIOUS
<1>2. /\ OrderShape(c) /\ c.status = "Cancelled" /\ ~c.advanced /\ c.shares = 0
      /\ c.custodyRaw = 0 /\ c.paid = 0
  BY <1>1 DEF OrderShape, RewardOK
<1>3. \/ p = o
      \/ \E amount : PaidTo(p, [c EXCEPT !.refundReady = Principal], "ops", amount)
  BY <1>1, RewardLane DEF Closed
<1> QED  BY <1>2, <1>3, RewardCancelled

\* What users and keepers do to a reward order.
LEMMA RewardHandled ==
  ASSUME NEW i \in RewardBuys, NEW o \in HubOrder, NEW p \in HubOrder, RewardOK(o),
         Handled(i, p, o) \/ LaunchedNow(i, p, o) \/ EscalatedNow(i, p, o)
  PROVE  RewardOK(p)
<1>1. OrderShape(o)  BY DEF HubOrder, OrderShape
<1>2. ASSUME NEW st, Onward(p, o, st), st \in {"Funded", "Dispatched"},
             o.status \in {"Pending", "Funded", "Dispatched"}
      PROVE  RewardOK(p)
  BY <1>1, <1>2 DEF Onward, SameMoney, RewardOK, OrderShape
<1>3. CASE SameMoney(p, o)  BY <1>3 DEF SameMoney, RewardOK
<1>4. CASE Opened(i, p, o)
  <2>1. PICK q : q = [o EXCEPT !.status = "Pending", !.fee = BuyFee, !.extra = Extra]  OBVIOUS
  <2>2. o = NoOrder /\ SameMoney(p, q)  BY <1>4, <2>1, RewardLane DEF Opened
  <2>3. /\ q.status = "Pending" /\ ~q.advanced /\ q.shares = 0 /\ q.custodyRaw = 0
        /\ q.paid = 0 /\ q.refundReady = 0
    BY <2>1, <2>2 DEF NoOrder
  <2> QED  BY <2>2, <2>3 DEF SameMoney, RewardOK
<1>5. CASE o.status = "Pending" /\ Refunded(i, p, o)
  <2>1. PICK c : c = [o EXCEPT !.status = "Cancelled", !.extra = 0, !.held = 0]  OBVIOUS
  <2>2. /\ OrderShape(c) /\ c.status = "Cancelled" /\ ~c.advanced /\ c.shares = 0
        /\ c.custodyRaw = 0 /\ c.paid = 0
    BY <1>1, <1>5, <2>1 DEF OrderShape, RewardOK
  <2>3. \E amount : PaidTo(p, [c EXCEPT !.refundReady = Principal], "ops", amount)
    BY <1>5, <2>1, RewardLane DEF Refunded
  <2> QED  BY <2>2, <2>3, RewardCancelled
<1>6. CASE Claimed(i, p, o)
  BY <1>1, <1>6, RewardLane DEF Claimed, SameMoney, RewardOK, OrderShape
<1>7. CASE ResultClaimed(p, o)
  <2>1. /\ o.shares \in Nat /\ o.custodyRaw \in Nat /\ o.paid \in Nat /\ o.refundReady \in Nat
        /\ Principal \in Nat
    BY RewardLane DEF HubOrder
  <2>2. CASE /\ o.custodyRaw # 0
             /\ SameMoney(p, [o EXCEPT !.custodyRaw = 0, !.shares = @ + o.custodyRaw])
    <3>1. /\ p.custodyRaw = 0 /\ p.shares = o.shares + o.custodyRaw /\ p.status = o.status
          /\ p.advanced = o.advanced /\ p.paid = o.paid /\ p.refundReady = o.refundReady
          /\ p.amountOut = o.amountOut
      BY <1>1, <2>2 DEF SameMoney, OrderShape
    <3>2. o.status = "Filled"  BY <2>1, <2>2 DEF RewardOK
    <3> QED  BY <2>1, <3>1, <3>2 DEF RewardOK
  <2>3. CASE /\ o.refundReady # 0
             /\ SameMoney(p, [o EXCEPT !.refundReady = 0, !.paid = @ + o.refundReady])
    <3>1. /\ p.refundReady = 0 /\ p.paid = o.paid + o.refundReady /\ p.status = o.status
          /\ p.advanced = o.advanced /\ p.shares = o.shares /\ p.custodyRaw = o.custodyRaw
      BY <1>1, <2>3 DEF SameMoney, OrderShape
    <3>2. o.status = "Cancelled"  BY <2>1, <2>3 DEF RewardOK
    <3> QED  BY <2>1, <3>1, <3>2 DEF RewardOK
  <2> QED  BY <1>7, <2>2, <2>3 DEF ResultClaimed
<1>8. /\ ~o.advanced /\ Lane(i) # 0 /\ i \notin Sells /\ i \notin PublicBuys
  BY RewardLane DEF RewardOK
<1>9. CASE Handled(i, p, o)  BY <1>2, <1>3, <1>4, <1>5, <1>6, <1>7, <1>8, <1>9 DEF Handled
<1>10. CASE LaunchedNow(i, p, o)  BY <1>2, <1>10 DEF LaunchedNow
<1>11. CASE EscalatedNow(i, p, o)  BY <1>8, <1>11 DEF EscalatedNow
<1> QED  BY <1>9, <1>10, <1>11

\* The vault's answer.
LEMMA RewardAnswered ==
  ASSUME NEW i \in RewardBuys, NEW o \in HubOrder, NEW p \in HubOrder, RewardOK(o),
         NEW r, r.amountOut \in Nat, Answered(i, p, o, r)
  PROVE  RewardOK(p)
<1>1. OrderShape(o)  BY DEF HubOrder, OrderShape
<1>2. ASSUME NEW raw \in Nat, FilledWith(i, p, o, raw), o.status \in {"Dispatched", "Escalated"}
      PROVE  RewardOK(p)
  <2>1. PICK b : b = [o EXCEPT !.status = "Filled", !.amountOut = raw, !.rawOut = raw,
                               !.outcome = 1, !.extra = 0,
                               !.custodyRaw = IF Lane(i) = 1 THEN raw ELSE @,
                               !.shares = IF Lane(i) = 0 THEN @ + raw ELSE @]
    OBVIOUS
  <2>2. /\ OrderShape(b) /\ b.status = "Filled" /\ ~b.advanced /\ b.shares = 0
        /\ b.custodyRaw = raw /\ b.amountOut = raw /\ b.paid = 0 /\ b.refundReady = 0
    <3>1. Lane(i) = 1 /\ o.shares = 0 /\ ~o.advanced /\ o.paid = 0 /\ o.refundReady = 0
      BY <1>2, RewardLane DEF RewardOK
    <3>2. PICK x, y : /\ x = IF Lane(i) = 1 THEN raw ELSE o.custodyRaw
                      /\ y = IF Lane(i) = 0 THEN o.shares + raw ELSE o.shares
      OBVIOUS
    <3>3. b = [o EXCEPT !.status = "Filled", !.amountOut = raw, !.rawOut = raw, !.outcome = 1,
                        !.extra = 0, !.custodyRaw = x, !.shares = y]
      BY <2>1, <3>2
    <3>4. x = raw /\ y = 0  BY <3>1, <3>2
    <3> QED  BY <1>1, <3>1, <3>3, <3>4 DEF OrderShape
  <2>3. RewardOK(b)  BY <1>2, <2>2 DEF RewardOK
  <2>5. PICK q, s : /\ OrderShape(q) /\ PaidTo(q, b, Beneficiary(i), o.extra)
                    /\ Flushed(i, s, q) /\ SameMoney(p, s)
    BY <1>2, <2>1 DEF FilledWith
  <2>6. RewardOK(q)  BY <2>2, <2>3, <2>5, OpsPaid, RewardSame, RewardLane
  <2>7. PICK e : e = [q EXCEPT !.held = 0]  OBVIOUS
  <2>8. OrderShape(e) /\ RewardPart(e, q)  BY <2>5, <2>7 DEF OrderShape, RewardPart
  <2>9. RewardPart(s, e)
    <3>1. PICK to : to = LateFor(i, q, q.held)  OBVIOUS
    <3>2. to # "user"  BY <3>1, RewardLane
    <3> QED  BY <2>5, <2>7, <2>8, <3>1, <3>2, OpsPaid DEF Flushed
  <2>10. RewardPart(p, s)  BY <2>5 DEF SameMoney, RewardPart
  <2> QED  BY <2>6, <2>8, <2>9, <2>10, RewardSame
<1>3. ASSUME FailedBuy(i, p, o), o.status \in {"Dispatched", "Escalated"}  PROVE RewardOK(p)
  <2>1. PICK b : b = [o EXCEPT !.outcome = 3, !.rawOut = 0]  OBVIOUS
  <2>2. PICK e : e = [b EXCEPT !.status = "Returning"]  OBVIOUS
  <2>3. PICK q : OrderShape(q) /\ SameMoney(q, e) /\ Closed(i, p, q)
    BY <1>3, <2>1, <2>2 DEF FailedBuy
  <2>4. /\ e.status = "Returning" /\ ~e.advanced /\ e.shares = 0 /\ e.custodyRaw = 0
        /\ e.paid = 0 /\ e.refundReady = 0
    BY <1>1, <1>3, <2>1, <2>2 DEF OrderShape, RewardOK
  <2>5. RewardOK(q) /\ q.status = "Returning"  BY <2>3, <2>4 DEF SameMoney, RewardOK
  <2> QED  BY <2>3, <2>5, RewardClosed
<1> QED  BY <1>2, <1>3, RewardLane DEF Answered, RewardOK

\* Money that arrives or is given.
LEMMA RewardGiven ==
  ASSUME NEW i \in RewardBuys, NEW o \in HubOrder, NEW p \in HubOrder, RewardOK(o),
         NEW amount, Arrives(i, p, o, amount) \/ Topped(i, p, o, amount)
  PROVE  RewardOK(p)
<1>1. OrderShape(o)  BY DEF HubOrder, OrderShape
<1>2. ASSUME NEW k, RewardPart(k, o), OrderShape(k)
      PROVE  RewardOK(k) /\ (k.status = "Returning" /\ Closed(i, p, k) => RewardOK(p))
  BY <1>2, RewardSame, RewardClosed
<1>3. /\ OrderShape([o EXCEPT !.held = @ + amount]) /\ RewardPart([o EXCEPT !.held = @ + amount], o)
      /\ OrderShape([o EXCEPT !.extra = @ + amount])
      /\ RewardPart([o EXCEPT !.extra = @ + amount], o)
  BY <1>1 DEF OrderShape, RewardPart
<1>4. ASSUME PaidTo(p, o, LateFor(i, o, amount), amount)  PROVE RewardOK(p)
  BY <1>1, <1>4, OpsPaid, RewardLane, RewardSame
<1>5. CASE Arrives(i, p, o, amount)
  <2>1. PICK k : k = [o EXCEPT !.held = @ + amount]  OBVIOUS
  <2>2. OrderShape(k) /\ RewardPart(k, o)  BY <1>3, <2>1
  <2>3. \/ p = o \/ p = k \/ (o.status = "Returning" /\ Closed(i, p, k))
        \/ PaidTo(p, o, LateFor(i, o, amount), amount)
    BY <1>5, <2>1 DEF Arrives, RewardOK
  <2>4. k.status = o.status  BY <2>2 DEF RewardPart
  <2> QED  BY <1>2, <1>4, <2>2, <2>3, <2>4
<1>6. CASE Topped(i, p, o, amount)
  <2>1. PICK k : k = [o EXCEPT !.extra = @ + amount]  OBVIOUS
  <2>2. OrderShape(k) /\ RewardPart(k, o)  BY <1>3, <2>1
  <2>3. p = k \/ (o.status = "Returning" /\ Closed(i, p, k))  BY <1>6, <2>1 DEF Topped
  <2>4. k.status = o.status  BY <2>2 DEF RewardPart
  <2> QED  BY <1>2, <2>2, <2>3, <2>4
<1> QED  BY <1>5, <1>6

\* The invariant of reward orders.
RewardInv == LayerInv /\ \A i \in RewardBuys : RewardOK(hub.order[i])

\* Every step of the layer keeps it: only the hub, and what arrives there, touch the order.
LEMMA RewardStep ==
  ASSUME RewardInv, [LayerNext]_layerVars, LayerInv'
  PROVE  RewardInv'
<1>1. ASSUME NEW i \in RewardBuys  PROVE RewardOK(hub'.order[i])
  <2>1. i \in Ids  BY RewardLane DEF Ids
  <2>2. hub.order[i] \in HubOrder /\ hub'.order[i] \in HubOrder
    BY <2>1 DEF RewardInv, LayerInv, BooksOK, IsHub
  <2>3. RewardOK(hub.order[i])  BY <1>1 DEF RewardInv
  <2>4. ASSUME hub'.order[i] = hub.order[i]  PROVE RewardOK(hub'.order[i])  BY <2>3, <2>4
  <2>5. CASE UNCHANGED layerVars  BY <2>4, <2>5 DEF layerVars, hubVars
  <2>6. CASE LayerNext
    <3>0. MoneyStep  BY <2>6, LayerMoney DEF RewardInv
    <3>1. CASE IdleStep \/ VaultSideStep  BY <2>4, <3>1 DEF IdleStep, VaultSideStep
    <3>2. ASSUME NEW j \in Ids, j # i, OnlyOrder(j)  PROVE RewardOK(hub'.order[i])
      BY <2>1, <2>4, <3>2 DEF OnlyOrder
    <3>3. ASSUME HubActs(i)  PROVE RewardOK(hub'.order[i])
      <4>1. ASSUME NEW n \in ResultOf(i)  PROVE results[n].amountOut \in Nat
        BY <4>1 DEF RewardInv, LayerInv, LogOK, WellFormed, ResultType, ResultOf
      <4> QED
        BY <1>1, <2>2, <2>3, <3>3, <4>1, RewardHandled, RewardAnswered DEF HubActs, Acted
    <3>4. ASSUME NEW amount, Given(i, amount) \/ Arrived(i, amount)
          PROVE  RewardOK(hub'.order[i])
      BY <1>1, <2>2, <2>3, <3>4, RewardGiven DEF Given, Arrived
    <3>5. ASSUME NEW t \in returnsSent  PROVE t.ref \in Ids
      BY <3>5, LayerAssumption DEF RewardInv, LayerInv, VaultTypeOK, TransferType
    <3> QED
      BY <3>0, <3>1, <3>2, <3>3, <3>4, <3>5
      DEF MoneyStep, HubActs, BounceStep, CreditStep, GiftStep, Given, Arrived
  <2> QED  BY <2>5, <2>6
<1> QED  BY <1>1 DEF RewardInv

\* At the start no order is placed.
LEMMA RewardStart == LayerInit => RewardInv
<1> SUFFICES ASSUME LayerInit PROVE RewardInv  OBVIOUS
<1>1. LayerInv  BY LayerStarts
<1>2. ASSUME NEW i \in RewardBuys  PROVE hub.order[i] = NoOrder
  <2>1. i \in Ids  BY RewardLane DEF Ids
  <2> QED  BY <2>1 DEF LayerInit, HubInit
<1>3. RewardOK(NoOrder)  BY DEF RewardOK, NoOrder
<1> QED  BY <1>1, <1>2, <1>3 DEF RewardInv

\* RewardIsStockOrRefund (RewardRoundManager's rounds, HubSettlement.sol): a reward order
\* that is filled has all its stock in custody or claimed and no refund, one that is
\* cancelled has its whole principal refundable or claimed and no stock.
THEOREM RewardEnds == LayerSpec => []RewardIsStockOrRefund
<1>1. RewardInv => RewardIsStockOrRefund
  <2> SUFFICES ASSUME RewardInv, NEW i \in RewardBuys
               PROVE  LET o == Order(i)
                      IN /\ o.status = "Filled" => /\ o.shares + o.custodyRaw = o.amountOut
                                                   /\ o.paid + o.refundReady = 0
                         /\ o.status = "Cancelled" => /\ o.shares + o.custodyRaw = 0
                                                      /\ o.paid + o.refundReady = Principal
    BY DEF RewardIsStockOrRefund
  <2>1. RewardOK(Order(i))  BY DEF RewardInv, Order
  <2> QED  BY <2>1 DEF RewardOK
<1>2. RewardInv /\ LayerInv' /\ [LayerNext]_layerVars => RewardInv'  BY RewardStep
<1> QED  BY <1>1, <1>2, RewardStart, LayerInvHolds, PTL DEF LayerSpec

-----------------------------------------------------------------------------
(* What the hub asks of the vault.                                         *)

\* A buy asks for its principal, or for 0 (a void); what waits is a buy's principal.
RequestsOK ==
  /\ \A o \in lzOrdersSent :
       IF o.side = "Buy" THEN o.ref \in Buys /\ o.amountIn \in {0, Principal} ELSE o.ref \in Sells
  /\ \A r \in Refs : waiting[r] # 0 => r \in Buys /\ waiting[r] = Principal

\* A step that places an order, or voids one, asks the vault for no other amount.
LEMMA RequestsSent ==
  ASSUME RequestsOK, HubStep \/ UNCHANGED sentVars, UNCHANGED waiting
  PROVE  RequestsOK'
<1>1. ASSUME UNCHANGED lzOrdersSent  PROVE RequestsOK'  BY <1>1 DEF RequestsOK
<1>2. ASSUME NEW i \in Ids, NEW amount, i \in Buys => amount \in {0, Principal},
             lzOrdersSent' \subseteq lzOrdersSent \cup {OrderMessage(i, amount)}
      PROVE  RequestsOK'
  BY <1>2 DEF RequestsOK, OrderMessage, Ids
<1>3. ASSUME NEW i \in Ids, UserStep(i)  PROVE RequestsOK'
  <2>1. CASE Dispatch(i)
    <3>1. i \in Buys => AmountIn(i) \in {0, Principal}  BY DEF AmountIn
    <3> QED  BY <1>2, <2>1, <3>1 DEF Dispatch
  <2>2. ASSUME NEW fromReserve \in BOOLEAN, VoidOrder(i, fromReserve)  PROVE RequestsOK'
    BY <1>2, <2>2 DEF VoidOrder
  <2>3. \/ UNCHANGED lzOrdersSent \/ Dispatch(i)
        \/ \E fromReserve \in BOOLEAN : VoidOrder(i, fromReserve)
    BY <1>3
    DEF UserStep, RequestBuy, RequestSell, CancelPending, RequestCancel, Claim, Escalate,
        EscalateFunds, CanonicalRedeem, sentVars
  <2> QED  BY <1>1, <2>1, <2>2, <2>3
<1>4. ASSUME NEW i \in Ids, KeeperStep(i)  PROVE RequestsOK'
  <2>1. ASSUME NEW routeFee, Launch(i, routeFee)  PROVE RequestsOK'
    <3>1. lzOrdersSent' \subseteq lzOrdersSent \cup {OrderMessage(i, Principal)}
      BY <2>1 DEF Launch, sentVars
    <3> QED  BY <1>2, <3>1
  <2>2. CASE SubmitFundedBuy(i)
    <3>1. lzOrdersSent' \subseteq lzOrdersSent \cup {OrderMessage(i, Principal)}
      BY <2>2 DEF SubmitFundedBuy
    <3> QED  BY <1>2, <3>1
  <2>3. UNCHANGED lzOrdersSent \/ SubmitFundedBuy(i) \/ \E routeFee \in RouteFees : Launch(i, routeFee)
    BY <1>4 DEF KeeperStep, ReserveReward, BeginFunding, CancelReward, ClaimResult, sentVars
  <2> QED  BY <1>1, <2>1, <2>2, <2>3
<1>5. ASSUME AdminStep \/ UNCHANGED sentVars  PROVE UNCHANGED lzOrdersSent
  BY <1>5 DEF AdminStep, ClaimFees, WithdrawHubFloat, SetHubFloat, SetMintsHalted, sentVars
<1> QED  BY <1>1, <1>3, <1>4, <1>5 DEF HubStep

\* What waits at the vault for its funds is what an order message asked for.
LEMMA RequestsWait ==
  ASSUME RequestsOK, VaultTypeOK, SentOK, VaultMoves, UNCHANGED lzOrdersSent
  PROVE  RequestsOK'
<1>0. waiting \in [Refs -> Nat]  BY DEF VaultTypeOK
<1>1. CASE UNCHANGED waiting  BY <1>1 DEF RequestsOK
<1>2. ASSUME NEW r \in Refs, waiting' = [waiting EXCEPT ![r] = 0]  PROVE RequestsOK'
  BY <1>0, <1>2 DEF RequestsOK
<1>3. ASSUME NEW o \in lzOrdersSent, ReceiveOrder(o)  PROVE RequestsOK'
  <2>1. o.ref \in Refs  BY DEF SentOK, OrderType
  <2>2. CASE /\ o.side = "Buy" /\ ~IsVoid(o)
             /\ waiting' = [waiting EXCEPT ![o.ref] = o.amountIn]
    <3>1. o.ref \in Buys /\ o.amountIn = Principal  BY <2>2 DEF RequestsOK, IsVoid
    <3> QED  BY <1>0, <2>1, <2>2, <3>1 DEF RequestsOK
  <2>3. \/ UNCHANGED waiting \/ waiting' = [waiting EXCEPT ![o.ref] = 0]
        \/ /\ o.side = "Buy" /\ ~IsVoid(o)
           /\ waiting' = [waiting EXCEPT ![o.ref] = o.amountIn]
    BY <1>3 DEF ReceiveOrder, vaultVars
  <2> QED  BY <1>1, <1>2, <2>1, <2>2, <2>3
<1>4. ASSUME NEW d \in deliversSent, Deliver(d)  PROVE RequestsOK'
  <2>1. d.ref \in Refs  BY DEF SentOK, DeliverType
  <2>2. UNCHANGED waiting \/ waiting' = [waiting EXCEPT ![d.ref] = 0]
    BY <1>4 DEF Deliver, DeliverSettled, DeliverVoid, DeliverShares, vaultVars
  <2> QED  BY <1>1, <1>2, <2>1, <2>2
<1>5. ASSUME NEW r \in Refs, ExecuteFunded(r)  PROVE RequestsOK'
  BY <1>2, <1>5 DEF ExecuteFunded
<1>6. ASSUME \/ \E r \in Refs : ReturnFunds(r) \/ ClaimUsd(r) \/ ClaimStock(r)
             \/ \E r, amount : Fund(r, amount)
             \/ Checkpoint \/ (\E m \in Migrations : MigrateIn(m))
             \/ \E b \in BOOLEAN : SetVaultFloat(b)
      PROVE  UNCHANGED waiting
  BY <1>6 DEF ReturnFunds, ClaimUsd, ClaimStock, Fund, Checkpoint, MigrateIn, SetVaultFloat
<1> QED  BY <1>1, <1>3, <1>4, <1>5, <1>6 DEF VaultMoves, VaultStep

-----------------------------------------------------------------------------
(* The account of a ref at the vault.                                      *)

LogOf(r) == {results[n] : n \in ResultOf(r)}
Account(r) ==
  [in |-> paidIn[r], out |-> paidOut[r], fund |-> funding[r], proc |-> proceeds[r],
   adv |-> advanced[r], back |-> ReturnsOf(r), log |-> LogOf(r), done |-> r \in settled]

\* The log of a ref after one more entry.
LEMMA LogMoves ==
  ASSUME VaultTypeOK, NEW e \in ResultType, results' = Append(results, e), NEW r
  PROVE  LogOf(r)' = IF e.ref = r THEN LogOf(r) \cup {e} ELSE LogOf(r)
<1>1. results \in Seq(ResultType)  BY DEF VaultTypeOK, LogTypeOK
<1>2. /\ DOMAIN results = 1..Len(results) /\ Len(results) \in Nat
      /\ DOMAIN results' = 1..(Len(results) + 1)
      /\ \A n \in 1..Len(results) : results'[n] = results[n]
      /\ results'[Len(results) + 1] = e
  BY <1>1, AppendLog
<1>3. Len(results) + 1 \in DOMAIN results'  BY <1>2
<1>4. \A n \in DOMAIN results : n \in DOMAIN results' /\ results'[n] = results[n]  BY <1>2
<1>5. \A n \in DOMAIN results' : n \in DOMAIN results \/ results'[n] = e  BY <1>2
<1>6. \A x : x \in LogOf(r)' <=> \E n \in DOMAIN results' : results'[n].ref = r /\ x = results'[n]
  BY DEF LogOf, ResultOf
<1>7. \A x : x \in LogOf(r) <=> \E n \in DOMAIN results : results[n].ref = r /\ x = results[n]
  BY DEF LogOf, ResultOf
<1>8. ASSUME NEW x  PROVE x \in LogOf(r)' <=> x \in LogOf(r) \/ (x = e /\ e.ref = r)
  BY <1>2, <1>3, <1>4, <1>5, <1>6, <1>7
<1> QED  BY <1>8

\* A step leaves the account's money alone but for what is claimed; or it is one of these.
SameAccount(b, a) ==
  /\ b.in = a.in /\ b.fund = a.fund /\ b.proc = a.proc /\ b.adv = a.adv
  /\ b.back = a.back /\ b.log = a.log /\ b.done = a.done /\ b.out >= a.out
Logs(b, a, outcome, raw) ==
  /\ ~a.done /\ b.done
  /\ \E e : e.outcome = outcome /\ e.amountOut = raw /\ b.log = a.log \cup {e}
BoughtFrom(r, b, a) ==
  LET own == IF a.fund < Principal THEN a.fund ELSE Principal
  IN /\ r \in Buys /\ \E raw \in Nat : Logs(b, a, "Bought", raw)
     /\ b.fund = a.fund - own /\ b.adv = a.adv + (Principal - own)
     /\ b.out = a.out + Principal
     /\ b.in = a.in /\ b.proc = a.proc /\ b.back = a.back
SoldFrom(r, b, a) ==
  \E raw \in Nat :
    /\ r \in Sells /\ Logs(b, a, "Sold", raw)
    /\ b.in = a.in + raw /\ b.proc = a.proc + raw
    /\ b.fund = a.fund /\ b.adv = a.adv /\ b.out = a.out /\ b.back = a.back
FailedFrom(b, a) ==
  /\ Logs(b, a, "Failed", 0)
  /\ b.in = a.in /\ b.fund = a.fund /\ b.proc = a.proc /\ b.adv = a.adv
  /\ b.back = a.back /\ b.out >= a.out
ReturnedFrom(r, b, a) ==
  LET amount == a.fund + a.proc
  IN /\ a.done /\ b.done /\ amount > 0
     /\ b.back = a.back \cup {[ref |-> r, amount |-> amount, id |-> a.out]}
     /\ b.out = a.out + amount /\ b.fund = 0 /\ b.proc = 0
     /\ b.in = a.in /\ b.adv = a.adv /\ b.log = a.log
HandedOver(b, a) ==
  /\ b.done /\ (IF a.done THEN b.log = a.log ELSE Logs(b, a, "Failed", 0))
  /\ b.fund = 0 /\ b.proc = 0 /\ b.out >= a.out
  /\ b.in = a.in /\ b.adv = a.adv /\ b.back = a.back
SharesOver(r, b, a) ==
  /\ r \in Sells /\ Logs(b, a, "Sold", 0)
  /\ b.in >= a.in /\ b.out >= a.out
  /\ b.fund = a.fund /\ b.proc = a.proc /\ b.adv = a.adv /\ b.back = a.back
FundedWith(b, a, amount) ==
  LET toFloat == IF a.adv < amount THEN a.adv ELSE amount
  IN /\ b.in = a.in + amount /\ b.adv = a.adv - toFloat /\ b.fund = a.fund + (amount - toFloat)
     /\ b.out = a.out /\ b.proc = a.proc /\ b.back = a.back /\ b.log = a.log /\ b.done = a.done

AccountMoves(r, b, a) ==
  \/ SameAccount(b, a)
  \/ BoughtFrom(r, b, a) \/ SoldFrom(r, b, a) \/ FailedFrom(b, a)
  \/ ReturnedFrom(r, b, a)
  \/ Delivered(r) /\ HandedOver(b, a)
  \/ SharesOver(r, b, a)

\* An entry about another ref, and one about r.
LEMMA RecordedFor ==
  ASSUME VaultTypeOK, NEW r \in Refs, NEW e \in ResultType, results' = Append(results, e),
         settled' = settled \cup {e.ref}, e.ref \notin settled,
         NEW a, a = Account(r), NEW b, b = Account(r)'
  PROVE  /\ e.ref = r => Logs(b, a, e.outcome, e.amountOut)
         /\ e.ref # r => b.log = a.log /\ b.done = a.done
<1>1. LogOf(r)' = IF e.ref = r THEN LogOf(r) \cup {e} ELSE LogOf(r)  BY LogMoves
<1>2. a.log = LogOf(r) /\ b.log = LogOf(r)' /\ (a.done <=> r \in settled) /\ (b.done <=> r \in settled')
  BY DEF Account
<1>3. a.done \in BOOLEAN /\ b.done \in BOOLEAN  BY DEF Account
<1> QED  BY <1>1, <1>2, <1>3 DEF Logs

\* The fields of an account, before and after.
LEMMA AccountFields ==
  ASSUME NEW r, NEW a, a = Account(r), NEW b, b = Account(r)'
  PROVE  /\ a.in = paidIn[r] /\ a.out = paidOut[r] /\ a.fund = funding[r]
         /\ a.proc = proceeds[r] /\ a.adv = advanced[r] /\ a.back = ReturnsOf(r)
         /\ a.log = LogOf(r) /\ a.done = (r \in settled)
         /\ b.in = paidIn'[r] /\ b.out = paidOut'[r] /\ b.fund = funding'[r]
         /\ b.proc = proceeds'[r] /\ b.adv = advanced'[r] /\ b.back = ReturnsOf(r)'
         /\ b.log = LogOf(r)' /\ b.done = (r \in settled')
BY DEF Account

\* Pushed to the recipient or left to claim: what was paid out is no less.
LEMMA PushGrows ==
  ASSUME MoneyTypeOK, NEW s \in Refs, NEW r \in Refs, NEW held, NEW amount \in Nat,
         PushUsd(s, held, amount)
  PROVE  paidOut'[r] >= paidOut[r] /\ (s # r => paidOut'[r] = paidOut[r])
<1>1. paidOut \in [Refs -> Nat]  BY DEF MoneyTypeOK
<1>2. paidOut' = paidOut \/ paidOut' = [paidOut EXCEPT ![s] = @ + amount]  BY DEF PushUsd
<1>3. paidOut[r] \in Nat  BY <1>1
<1>4. CASE paidOut' = paidOut  BY <1>3, <1>4
<1>5. CASE paidOut' = [paidOut EXCEPT ![s] = @ + amount]
  <2>1. paidOut'[r] = IF s = r THEN paidOut[r] + amount ELSE paidOut[r]  BY <1>1, <1>5
  <2> QED  BY <1>3, <2>1
<1> QED  BY <1>2, <1>4, <1>5

\* One execution.
LEMMA ExecuteMoves ==
  ASSUME VaultTypeOK, NEW o \in OrderType, o.ref \notin settled, Execute(o), UNCHANGED returnsSent,
         IF o.side = "Buy" THEN o.ref \in Buys /\ o.amountIn \in {0, Principal} ELSE o.ref \in Sells,
         NEW r \in Refs
  PROVE  AccountMoves(r, Account(r)', Account(r))
<1>0. Len(results) \in Nat  BY DEF VaultTypeOK, LogTypeOK
<1>1. PICK a : a = Account(r)  OBVIOUS
<1>2. PICK b : b = Account(r)'  OBVIOUS
<1>3. PICK s \in Refs : s = o.ref  BY DEF OrderType
<1>4. MoneyTypeOK /\ s \notin settled /\ o.amountIn \in Nat  BY <1>3 DEF VaultTypeOK, OrderType
<1>5. ReturnsOf(r)' = ReturnsOf(r)  BY DEF ReturnsOf
<1>6. /\ paidOut[r] \in Nat /\ paidIn[r] \in Nat /\ funding[r] \in Nat /\ advanced[r] \in Nat
      /\ Principal \in Nat
  BY <1>4, HubAssumption DEF MoneyTypeOK
<1>f. /\ a.in = paidIn[r] /\ a.out = paidOut[r] /\ a.fund = funding[r] /\ a.proc = proceeds[r]
      /\ a.adv = advanced[r] /\ b.back = a.back
      /\ b.in = paidIn'[r] /\ b.out = paidOut'[r] /\ b.fund = funding'[r]
      /\ b.proc = proceeds'[r] /\ b.adv = advanced'[r]
  BY <1>1, <1>2, <1>5, AccountFields
<1>7. CASE o.side = "Buy" /\ Bought(o)
  <2>1. PICK shares \in BuyOuts : Record(s, "Bought", o.amountIn, shares, TRUE)
    BY <1>3, <1>7 DEF Bought
  <2>2. shares \in Nat  BY VaultAssumption
  <2>3. PICK e \in ResultType :
          /\ e.ref = s /\ e.outcome = "Bought" /\ e.amountOut = shares
          /\ results' = Append(results, e) /\ settled' = settled \cup {s}
    <3>1. PICK e : e = [ref |-> s, outcome |-> "Bought", amountIn |-> o.amountIn, amountOut |-> shares,
                        seq |-> Len(results)]
      OBVIOUS
    <3>2. e \in ResultType  BY <1>0, <1>4, <3>1, <2>2 DEF ResultType, AllRefs
    <3>3. results' = Append(results, e) /\ settled' = settled \cup {s}  BY <3>1, <2>1 DEF Record
    <3> QED  BY <3>1, <3>2, <3>3
  <2>3a. /\ s = r => Logs(b, a, "Bought", shares)
         /\ s # r => b.log = a.log /\ b.done = a.done
    BY <1>1, <1>2, <1>4, <2>3, RecordedFor
  <2>4. s \in Buys /\ o.amountIn = Principal  BY <1>3, <1>7 DEF Bought
  <2>5. PICK own : own = IF funding[s] < Principal THEN funding[s] ELSE Principal  OBVIOUS
  <2>6. /\ funding' = [funding EXCEPT ![s] = @ - own]
        /\ advanced' = [advanced EXCEPT ![s] = @ + (Principal - own)]
        /\ paidOut' = [paidOut EXCEPT ![s] = @ + Principal]
        /\ UNCHANGED <<proceeds, paidIn>>
    BY <1>3, <1>7, <2>4, <2>5 DEF Bought
  <2>7. CASE s = r
    <3>1. /\ funding'[r] = funding[r] - own /\ advanced'[r] = advanced[r] + (Principal - own)
          /\ paidOut'[r] = paidOut[r] + Principal
      BY <1>4, <2>6, <2>7 DEF MoneyTypeOK
    <3>2. Logs(b, a, "Bought", shares)  BY <2>3a, <2>7
    <3>3. BoughtFrom(r, b, a)
      BY <1>f, <2>2, <2>4, <2>5, <2>6, <2>7, <3>1, <3>2 DEF BoughtFrom
    <3> QED  BY <1>1, <1>2, <3>3 DEF AccountMoves
  <2>8. CASE s # r
    <3>1. /\ funding'[r] = funding[r] /\ advanced'[r] = advanced[r] /\ paidOut'[r] = paidOut[r]
      BY <1>4, <2>6, <2>8 DEF MoneyTypeOK
    <3>2. SameAccount(b, a)
      BY <1>6, <1>f, <2>3a, <2>6, <2>8, <3>1 DEF SameAccount
    <3> QED  BY <1>1, <1>2, <3>2 DEF AccountMoves
  <2> QED  BY <2>7, <2>8
<1>8. CASE Sold(o)
  <2>1. PICK out \in SellOuts :
          /\ proceeds' = [proceeds EXCEPT ![s] = @ + out]
          /\ paidIn' = [paidIn EXCEPT ![s] = @ + out]
          /\ Record(s, "Sold", o.amountIn, out, TRUE)
    BY <1>3, <1>8 DEF Sold
  <2>2. out \in Nat /\ s \in Sells  BY <1>3, <1>8, VaultAssumption DEF Sold
  <2>3. PICK e \in ResultType :
          /\ e.ref = s /\ e.outcome = "Sold" /\ e.amountOut = out
          /\ results' = Append(results, e) /\ settled' = settled \cup {s}
    <3>1. PICK e : e = [ref |-> s, outcome |-> "Sold", amountIn |-> o.amountIn, amountOut |-> out,
                        seq |-> Len(results)]
      OBVIOUS
    <3>2. e \in ResultType  BY <1>0, <1>4, <3>1, <2>2 DEF ResultType, AllRefs
    <3>3. results' = Append(results, e) /\ settled' = settled \cup {s}  BY <3>1, <2>1 DEF Record
    <3> QED  BY <3>1, <3>2, <3>3
  <2>3a. /\ s = r => Logs(b, a, "Sold", out)
         /\ s # r => b.log = a.log /\ b.done = a.done
    BY <1>1, <1>2, <1>4, <2>3, RecordedFor
  <2>4. UNCHANGED <<funding, advanced, paidOut>>  BY <1>8 DEF Sold
  <2>5. CASE s = r
    <3>1. proceeds'[r] = proceeds[r] + out /\ paidIn'[r] = paidIn[r] + out
      BY <1>4, <2>1, <2>5 DEF MoneyTypeOK
    <3>2. Logs(b, a, "Sold", out)  BY <2>3a, <2>5
    <3>3. SoldFrom(r, b, a)
      BY <1>f, <2>2, <2>4, <2>5, <3>1, <3>2 DEF SoldFrom
    <3> QED  BY <1>1, <1>2, <3>3 DEF AccountMoves
  <2>6. CASE s # r
    <3>1. proceeds'[r] = proceeds[r] /\ paidIn'[r] = paidIn[r]
      BY <1>4, <2>1, <2>6 DEF MoneyTypeOK
    <3>2. SameAccount(b, a)
      BY <1>6, <1>f, <2>3a, <2>4, <2>6, <3>1 DEF SameAccount
    <3> QED  BY <1>1, <1>2, <3>2 DEF AccountMoves
  <2> QED  BY <2>5, <2>6
<1>9. CASE Failed(o)
  <2>1. Record(s, "Failed", o.amountIn, 0, TRUE)  BY <1>3, <1>9 DEF Failed
  <2>2. PICK e \in ResultType :
          /\ e.ref = s /\ e.outcome = "Failed" /\ e.amountOut = 0
          /\ results' = Append(results, e) /\ settled' = settled \cup {s}
    <3>1. PICK e : e = [ref |-> s, outcome |-> "Failed", amountIn |-> o.amountIn, amountOut |-> 0,
                        seq |-> Len(results)]
      OBVIOUS
    <3>2. e \in ResultType  BY <1>0, <1>4, <3>1 DEF ResultType, AllRefs
    <3>3. results' = Append(results, e) /\ settled' = settled \cup {s}  BY <3>1, <2>1 DEF Record
    <3> QED  BY <3>1, <3>2, <3>3
  <2>2a. /\ s = r => Logs(b, a, "Failed", 0)
         /\ s # r => b.log = a.log /\ b.done = a.done
    BY <1>1, <1>2, <1>4, <2>2, RecordedFor
  <2>3. UNCHANGED <<advanced, funding, proceeds, paidIn, paidOut>>
    BY <1>9 DEF Failed, liabilityVars, historyVars
  <2>4. CASE s = r
    <3>1. FailedFrom(b, a)  BY <1>6, <1>f, <2>2a, <2>3, <2>4 DEF FailedFrom
    <3> QED  BY <1>1, <1>2, <3>1 DEF AccountMoves
  <2>5. CASE s # r
    <3>1. SameAccount(b, a)  BY <1>6, <1>f, <2>2a, <2>3, <2>5 DEF SameAccount
    <3> QED  BY <1>1, <1>2, <3>1 DEF AccountMoves
  <2> QED  BY <2>4, <2>5
<1> QED  BY <1>7, <1>8, <1>9 DEF Execute

\* The money of a ref after everything that was held for another, or for it, is taken.
LEMMA TakeEmpties ==
  ASSUME MoneyTypeOK, NEW s \in Refs, NEW r \in Refs, TakeLiabilities(s)
  PROVE  /\ s = r => funding'[r] = 0 /\ proceeds'[r] = 0
         /\ s # r => funding'[r] = funding[r] /\ proceeds'[r] = proceeds[r]
BY DEF TakeLiabilities, MoneyTypeOK

\* A delivery: what the ref still held, or the stock or its sale, goes to the recipient.
LEMMA DeliverMoves ==
  ASSUME VaultTypeOK, NEW d \in DeliverType, d \in deliversSent, Deliver(d),
         d.shares > 0 => d.ref \in Sells, NEW r \in Refs
  PROVE  AccountMoves(r, Account(r)', Account(r))
<1>0. Len(results) \in Nat  BY DEF VaultTypeOK, LogTypeOK
<1>1. PICK a : a = Account(r)  OBVIOUS
<1>2. PICK b : b = Account(r)'  OBVIOUS
<1>3. PICK s \in Refs : s = d.ref  BY DEF DeliverType
<1>4. MoneyTypeOK /\ d.shares \in Nat  BY DEF VaultTypeOK, DeliverType
<1>5. returnsSent' = returnsSent
  BY DEF Deliver, DeliverSettled, DeliverVoid, DeliverShares, vaultVars
<1>6. /\ paidOut[r] \in Nat /\ paidIn[r] \in Nat /\ funding[s] + proceeds[s] \in Nat
      /\ funding[r] \in Nat /\ proceeds[r] \in Nat /\ advanced[r] \in Nat
  BY <1>4 DEF MoneyTypeOK
<1>f. /\ a.in = paidIn[r] /\ a.out = paidOut[r] /\ a.fund = funding[r] /\ a.proc = proceeds[r]
      /\ a.adv = advanced[r] /\ b.back = a.back
      /\ b.in = paidIn'[r] /\ b.out = paidOut'[r] /\ b.fund = funding'[r]
      /\ b.proc = proceeds'[r] /\ b.adv = advanced'[r]
      /\ a.log = LogOf(r) /\ a.done = (r \in settled)
      /\ b.log = LogOf(r)' /\ b.done = (r \in settled')
  <2>1. ReturnsOf(r)' = ReturnsOf(r)  BY <1>5 DEF ReturnsOf
  <2> QED  BY <1>1, <1>2, <2>1, AccountFields
<1>7. CASE UNCHANGED vaultVars
  <2>1. LogOf(r)' = LogOf(r)  BY <1>7 DEF LogOf, ResultOf, vaultVars, logVars
  <2>2. UNCHANGED <<settled, paidIn, paidOut, funding, proceeds, advanced>>
    BY <1>7 DEF vaultVars, logVars, historyVars, liabilityVars
  <2>3. SameAccount(b, a)  BY <1>6, <1>f, <2>1, <2>2 DEF SameAccount
  <2> QED  BY <1>1, <1>2, <2>3 DEF AccountMoves
<1>8. CASE /\ s \in settled /\ d.shares = 0 /\ TakeLiabilities(s)
           /\ PushUsd(s, usd, funding[s] + proceeds[s]) /\ UNCHANGED <<advanced, logVars, paidIn>>
  <2>1. b.log = a.log /\ b.done = a.done
    <3>1. LogOf(r)' = LogOf(r) /\ settled' = settled  BY <1>8 DEF LogOf, ResultOf, logVars
    <3> QED  BY <1>f, <3>1
  <2>2. b.in = a.in /\ b.adv = a.adv  BY <1>8, <1>f
  <2>3. b.out >= a.out /\ (s # r => b.out = a.out)  BY <1>4, <1>6, <1>8, <1>f, PushGrows
  <2>4. /\ s = r => b.fund = 0 /\ b.proc = 0
        /\ s # r => b.fund = a.fund /\ b.proc = a.proc
    BY <1>4, <1>8, <1>f, TakeEmpties
  <2>5. CASE s = r
    <3>1. Delivered(r)  BY <1>3, <1>8, <2>5 DEF Delivered
    <3>2. a.done  BY <1>8, <1>f, <2>5
    <3>3. HandedOver(b, a)  BY <1>f, <2>1, <2>2, <2>3, <2>4, <2>5, <3>2 DEF HandedOver
    <3> QED  BY <1>1, <1>2, <3>1, <3>3 DEF AccountMoves
  <2>6. CASE s # r
    <3>1. SameAccount(b, a)  BY <1>f, <2>1, <2>2, <2>3, <2>4, <2>6 DEF SameAccount
    <3> QED  BY <1>1, <1>2, <3>1 DEF AccountMoves
  <2> QED  BY <2>5, <2>6
<1>9. CASE DeliverVoid(d)
  <2>1. PICK e \in ResultType :
          /\ e.ref = s /\ e.outcome = "Failed" /\ e.amountOut = 0
          /\ results' = Append(results, e) /\ settled' = settled \cup {s}
    <3>1. PICK e : e = [ref |-> s, outcome |-> "Failed", amountIn |-> 0, amountOut |-> 0,
                        seq |-> Len(results)]
      OBVIOUS
    <3>2. e \in ResultType  BY <1>0, <3>1 DEF ResultType, AllRefs
    <3>3. results' = Append(results, e) /\ settled' = settled \cup {s}
      BY <1>3, <1>9, <3>1 DEF DeliverVoid, Record
    <3> QED  BY <3>1, <3>2, <3>3
  <2>2. s \notin settled /\ d.shares = 0 /\ TakeLiabilities(s) /\ advanced' = advanced
        /\ paidIn' = paidIn /\ PushUsd(s, usd, funding[s] + proceeds[s])
    BY <1>3, <1>9 DEF DeliverVoid
  <2>3. /\ s = r => Logs(b, a, "Failed", 0)
        /\ s # r => b.log = a.log /\ b.done = a.done
    BY <1>1, <1>2, <2>1, <2>2, RecordedFor
  <2>4. b.in = a.in /\ b.adv = a.adv  BY <1>f, <2>2
  <2>5. b.out >= a.out /\ (s # r => b.out = a.out)  BY <1>4, <1>6, <1>f, <2>2, PushGrows
  <2>6. /\ s = r => b.fund = 0 /\ b.proc = 0
        /\ s # r => b.fund = a.fund /\ b.proc = a.proc
    BY <1>4, <1>f, <2>2, TakeEmpties
  <2>7. CASE s = r
    <3>1. Delivered(r)  BY <1>3, <2>2, <2>7 DEF Delivered
    <3>2. ~a.done /\ b.done  BY <2>3, <2>7 DEF Logs
    <3>3. HandedOver(b, a)  BY <1>f, <2>3, <2>4, <2>5, <2>6, <2>7, <3>2 DEF HandedOver
    <3> QED  BY <1>1, <1>2, <3>1, <3>3 DEF AccountMoves
  <2>8. CASE s # r
    <3>1. SameAccount(b, a)  BY <1>f, <2>3, <2>4, <2>5, <2>6, <2>8 DEF SameAccount
    <3> QED  BY <1>1, <1>2, <3>1 DEF AccountMoves
  <2> QED  BY <2>7, <2>8
<1>10. CASE DeliverShares(d)
  <2>1. PICK e \in ResultType :
          /\ e.ref = s /\ e.outcome = "Sold" /\ e.amountOut = 0
          /\ results' = Append(results, e) /\ settled' = settled \cup {s}
    <3>1. PICK e : e = [ref |-> s, outcome |-> "Sold", amountIn |-> d.shares, amountOut |-> 0,
                        seq |-> Len(results)]
      OBVIOUS
    <3>2. e \in ResultType  BY <1>0, <1>4, <3>1 DEF ResultType, AllRefs
    <3>3. results' = Append(results, e) /\ settled' = settled \cup {s}
      BY <1>3, <1>10, <3>1 DEF DeliverShares, Record
    <3> QED  BY <3>1, <3>2, <3>3
  <2>2. s \notin settled /\ s \in Sells /\ UNCHANGED <<advanced, funding, proceeds>>
    BY <1>3, <1>10 DEF DeliverShares, liabilityVars
  <2>3. /\ s = r => Logs(b, a, "Sold", 0)
        /\ s # r => b.log = a.log /\ b.done = a.done
    BY <1>1, <1>2, <2>1, <2>2, RecordedFor
  <2>4. b.fund = a.fund /\ b.proc = a.proc /\ b.adv = a.adv  BY <1>f, <2>2
  <2>5. b.in >= a.in /\ (s # r => b.in = a.in) /\ b.out >= a.out
    <3>1. CASE UNCHANGED historyVars  BY <1>6, <1>f, <3>1 DEF historyVars
    <3>2. ASSUME NEW out \in SellOuts, PushUsd(s, usd + out, out),
                 paidIn' = [paidIn EXCEPT ![s] = @ + out]
          PROVE  b.in >= a.in /\ (s # r => b.in = a.in) /\ b.out >= a.out
      <4>1. out \in Nat  BY VaultAssumption
      <4>2. paidIn'[r] = IF s = r THEN paidIn[r] + out ELSE paidIn[r]
        BY <1>4, <3>2 DEF MoneyTypeOK
      <4>3. b.out >= a.out  BY <1>4, <1>f, <3>2, <4>1, PushGrows
      <4> QED  BY <1>6, <1>f, <4>1, <4>2, <4>3
    <3>3. \/ UNCHANGED historyVars
          \/ \E out \in SellOuts : PushUsd(s, usd + out, out) /\ paidIn' = [paidIn EXCEPT ![s] = @ + out]
      BY <1>3, <1>10 DEF DeliverShares
    <3> QED  BY <3>1, <3>2, <3>3
  <2>6. CASE s = r
    <3>1. SharesOver(r, b, a)  BY <1>f, <2>2, <2>3, <2>4, <2>5, <2>6 DEF SharesOver
    <3> QED  BY <1>1, <1>2, <3>1 DEF AccountMoves
  <2>7. CASE s # r
    <3>1. SameAccount(b, a)  BY <1>f, <2>3, <2>4, <2>5, <2>7 DEF SameAccount
    <3> QED  BY <1>1, <1>2, <3>1 DEF AccountMoves
  <2> QED  BY <2>6, <2>7
<1>11. \/ UNCHANGED vaultVars
       \/ /\ s \in settled /\ d.shares = 0 /\ TakeLiabilities(s)
          /\ PushUsd(s, usd, funding[s] + proceeds[s]) /\ UNCHANGED <<advanced, logVars, paidIn>>
       \/ DeliverVoid(d) \/ DeliverShares(d)
  BY <1>3 DEF Deliver, DeliverSettled
<1> QED  BY <1>7, <1>8, <1>9, <1>10, <1>11

\* A step of the vault, for the account of any ref.
LEMMA VaultTurn ==
  ASSUME LayerInv, RequestsOK, MessagesOK, VaultStep, NEW r \in Refs
  PROVE  AccountMoves(r, Account(r)', Account(r))
<1>0. VaultTypeOK /\ SentOK /\ MoneyTypeOK  BY DEF LayerInv, VaultTypeOK
<1>1. PICK a : a = Account(r)  OBVIOUS
<1>2. PICK b : b = Account(r)'  OBVIOUS
<1>3. paidOut[r] \in Nat /\ funding \in [Refs -> Nat] /\ proceeds \in [Refs -> Nat] /\ paidOut \in [Refs -> Nat]
  BY <1>0 DEF MoneyTypeOK
<1>f. /\ a.in = paidIn[r] /\ a.out = paidOut[r] /\ a.fund = funding[r] /\ a.proc = proceeds[r]
      /\ a.adv = advanced[r] /\ a.back = ReturnsOf(r)
      /\ b.in = paidIn'[r] /\ b.out = paidOut'[r] /\ b.fund = funding'[r]
      /\ b.proc = proceeds'[r] /\ b.adv = advanced'[r] /\ b.back = ReturnsOf(r)'
      /\ a.log = LogOf(r) /\ a.done = (r \in settled)
      /\ b.log = LogOf(r)' /\ b.done = (r \in settled')
  BY <1>1, <1>2, AccountFields
<1>4. ASSUME UNCHANGED <<paidIn, funding, proceeds, advanced, returnsSent>>, LogOf(r)' = LogOf(r),
             settled' = settled, paidOut'[r] >= paidOut[r]
      PROVE  AccountMoves(r, Account(r)', Account(r))
  <2>1. ReturnsOf(r)' = ReturnsOf(r)  BY <1>4 DEF ReturnsOf
  <2>2. SameAccount(b, a)  BY <1>4, <1>f, <2>1 DEF SameAccount
  <2> QED  BY <1>1, <1>2, <2>2 DEF AccountMoves
<1>5. ASSUME UNCHANGED <<paidIn, paidOut, funding, proceeds, advanced, returnsSent, results, settled>>
      PROVE  AccountMoves(r, Account(r)', Account(r))
  BY <1>3, <1>4, <1>5 DEF LogOf, ResultOf
<1>6. ASSUME NEW o \in lzOrdersSent, ReceiveOrder(o)  PROVE AccountMoves(r, Account(r)', Account(r))
  <2>1. o \in OrderType  BY <1>0 DEF SentOK
  <2>2. returnsSent' = returnsSent  BY <1>6 DEF ReceiveOrder
  <2>3. IF o.side = "Buy" THEN o.ref \in Buys /\ o.amountIn \in {0, Principal} ELSE o.ref \in Sells
    BY DEF RequestsOK
  <2>4. CASE o.ref \notin settled /\ Execute(o)  BY <1>0, <2>1, <2>2, <2>3, <2>4, ExecuteMoves
  <2>5. CASE UNCHANGED <<advanced, liabilityVars, custodyVars, logVars, historyVars>>
    BY <1>5, <2>2, <2>5 DEF liabilityVars, logVars, historyVars
  <2>6. CASE UNCHANGED vaultVars
    BY <1>5, <2>2, <2>6 DEF vaultVars, liabilityVars, logVars, historyVars
  <2>7. Failed(o) => Execute(o)  BY DEF Execute
  <2> QED  BY <1>6, <2>4, <2>5, <2>6, <2>7 DEF ReceiveOrder
<1>7. ASSUME NEW s \in Refs, ExecuteFunded(s)  PROVE AccountMoves(r, Account(r)', Account(r))
  <2>1. PICK o : o = [ref |-> s, side |-> "Buy", amountIn |-> waiting[s]]  OBVIOUS
  <2>2. waiting[s] \in Nat /\ waiting[s] # 0  BY <1>0, <1>7 DEF VaultTypeOK, ExecuteFunded
  <2>3. o \in OrderType  BY <2>1, <2>2 DEF OrderType
  <2>4. s \in Buys /\ waiting[s] = Principal  BY <2>2 DEF RequestsOK
  <2>5. Execute(o) /\ o.ref \notin settled /\ returnsSent' = returnsSent
    BY <1>7, <2>1 DEF ExecuteFunded
  <2> QED  BY <1>0, <2>1, <2>3, <2>4, <2>5, ExecuteMoves
<1>8. ASSUME NEW s \in Refs, ReturnFunds(s)  PROVE AccountMoves(r, Account(r)', Account(r))
  <2>1. PICK amount : amount = funding[s] + proceeds[s]  OBVIOUS
  <2>2. PICK t : t = [ref |-> s, amount |-> amount, id |-> paidOut[s]]  OBVIOUS
  <2>3. /\ s \in settled /\ amount > 0 /\ TakeLiabilities(s)
        /\ returnsSent' = returnsSent \cup {t}
        /\ paidOut' = [paidOut EXCEPT ![s] = @ + amount]
        /\ UNCHANGED <<advanced, logVars, paidIn>>
    BY <1>8, <2>1, <2>2 DEF ReturnFunds
  <2>4. LogOf(r)' = LogOf(r) /\ settled' = settled  BY <2>3 DEF LogOf, ResultOf, logVars
  <2>5. CASE s = r
    <3>1. ReturnsOf(r)' = ReturnsOf(r) \cup {t}  BY <2>2, <2>3, <2>5 DEF ReturnsOf
    <3>2. funding'[r] = 0 /\ proceeds'[r] = 0  BY <1>0, <2>3, <2>5, TakeEmpties
    <3>3. paidOut'[r] = paidOut[r] + amount  BY <1>3, <2>3, <2>5
    <3>4. a.done /\ b.done  BY <1>f, <2>3, <2>4, <2>5
    <3>5. amount = a.fund + a.proc /\ t = [ref |-> r, amount |-> amount, id |-> a.out]
      BY <1>f, <2>1, <2>2, <2>5
    <3>6. ReturnedFrom(r, b, a)
      BY <1>f, <2>3, <2>4, <3>1, <3>2, <3>3, <3>4, <3>5 DEF ReturnedFrom
    <3> QED  BY <1>1, <1>2, <3>6 DEF AccountMoves
  <2>6. CASE s # r
    <3>1. ReturnsOf(r)' = ReturnsOf(r)  BY <2>2, <2>3, <2>6 DEF ReturnsOf
    <3>2. funding'[r] = funding[r] /\ proceeds'[r] = proceeds[r]  BY <1>0, <2>3, <2>6, TakeEmpties
    <3>3. paidOut'[r] = paidOut[r]  BY <1>3, <2>3, <2>6
    <3>4. SameAccount(b, a)
      BY <1>3, <1>f, <2>3, <2>4, <3>1, <3>2, <3>3 DEF SameAccount
    <3> QED  BY <1>1, <1>2, <3>4 DEF AccountMoves
  <2> QED  BY <2>5, <2>6
<1>9. ASSUME NEW s \in Refs, ClaimUsd(s)  PROVE AccountMoves(r, Account(r)', Account(r))
  <2>1. owedUsd[s] \in Nat  BY <1>0 DEF MoneyTypeOK
  <2>2. paidOut' = [paidOut EXCEPT ![s] = @ + owedUsd[s]]  BY <1>9 DEF ClaimUsd
  <2>3. paidOut'[r] >= paidOut[r]
    <3>1. CASE s = r  BY <1>3, <2>1, <2>2, <3>1
    <3>2. CASE s # r  BY <1>3, <2>1, <2>2, <3>2
    <3> QED  BY <3>1, <3>2
  <2>4. LogOf(r)' = LogOf(r)  BY <1>9 DEF LogOf, ResultOf, ClaimUsd, logVars
  <2> QED  BY <1>4, <1>9, <2>3, <2>4 DEF ClaimUsd, liabilityVars, logVars
<1>10. ASSUME NEW d \in deliversSent, Deliver(d)  PROVE AccountMoves(r, Account(r)', Account(r))
  <2>1. d \in DeliverType /\ (d.shares > 0 => d.ref \in Sells)  BY <1>0 DEF SentOK, MessagesOK
  <2> QED  BY <1>0, <1>10, <2>1, DeliverMoves
<1>11. ASSUME NEW m \in Migrations, MigrateIn(m)  PROVE AccountMoves(r, Account(r)', Account(r))
  <2>1. PICK amount \in MigrationIns, shares \in BuyOuts :
          results' = Append(results, [ref |-> m, outcome |-> "Bought", amountIn |-> amount,
                                      amountOut |-> shares, seq |-> Len(results)])
    BY <1>11 DEF MigrateIn
  <2>2. PICK e : e = [ref |-> m, outcome |-> "Bought", amountIn |-> amount,
                      amountOut |-> shares, seq |-> Len(results)]
    OBVIOUS
  <2>3. amount \in Nat /\ shares \in Nat  BY VaultAssumption
  <2>4. Len(results) \in Nat  BY <1>0 DEF VaultTypeOK, LogTypeOK
  <2>5. e \in ResultType  BY <2>2, <2>3, <2>4 DEF ResultType, AllRefs
  <2>6. e.ref # r  BY <2>2, VaultAssumption
  <2>7. LogOf(r)' = LogOf(r)  BY <1>0, <2>1, <2>2, <2>5, <2>6, LogMoves
  <2> QED  BY <1>3, <1>4, <1>11, <2>7 DEF MigrateIn, liabilityVars, historyVars
<1>12. ASSUME \/ \E s \in Refs : ClaimStock(s)
              \/ Checkpoint
              \/ \E v \in BOOLEAN : SetVaultFloat(v)
       PROVE  AccountMoves(r, Account(r)', Account(r))
  BY <1>5, <1>12, SMTT(60)
  DEF ClaimStock, Checkpoint, SetVaultFloat, liabilityVars, logVars, historyVars
<1> QED  BY <1>6, <1>7, <1>8, <1>9, <1>10, <1>11, <1>12 DEF VaultStep

\* Money that arrives for a ref moves its account alone.
LEMMA FundTurn ==
  ASSUME VaultTypeOK, NEW s \in Refs, NEW amount \in Nat, Fund(s, amount), NEW r \in Refs
  PROVE  IF r = s THEN FundedWith(Account(r)', Account(r), amount)
                  ELSE SameAccount(Account(r)', Account(r))
<1>0. MoneyTypeOK  BY DEF VaultTypeOK
<1>1. PICK a : a = Account(r)  OBVIOUS
<1>2. PICK b : b = Account(r)'  OBVIOUS
<1>3. /\ paidOut[r] \in Nat /\ paidIn \in [Refs -> Nat] /\ funding \in [Refs -> Nat]
      /\ advanced \in [Refs -> Nat]
  BY <1>0 DEF MoneyTypeOK
<1>4. UNCHANGED <<proceeds, paidOut, returnsSent, results, settled>>  BY DEF Fund, logVars
<1>5. LogOf(r)' = LogOf(r) /\ ReturnsOf(r)' = ReturnsOf(r)
  BY <1>4 DEF LogOf, ResultOf, ReturnsOf
<1>f. /\ a.in = paidIn[r] /\ a.out = paidOut[r] /\ a.fund = funding[r] /\ a.proc = proceeds[r]
      /\ a.adv = advanced[r] /\ b.back = a.back
      /\ b.in = paidIn'[r] /\ b.out = a.out /\ b.fund = funding'[r]
      /\ b.proc = a.proc /\ b.adv = advanced'[r] /\ b.log = a.log
      /\ a.done = (r \in settled) /\ b.done = (r \in settled)
  BY <1>1, <1>2, <1>4, <1>5, AccountFields
<1>6. PICK toFloat : toFloat = IF advanced[s] < amount THEN advanced[s] ELSE amount  OBVIOUS
<1>7. /\ advanced' = [advanced EXCEPT ![s] = @ - toFloat]
      /\ funding' = [funding EXCEPT ![s] = @ + (amount - toFloat)]
      /\ paidIn' = [paidIn EXCEPT ![s] = @ + amount]
  BY <1>6 DEF Fund
<1>8. CASE r = s
  <2>1. FundedWith(b, a, amount)  BY <1>3, <1>f, <1>6, <1>7, <1>8 DEF FundedWith
  <2> QED  BY <1>1, <1>2, <1>8, <2>1
<1>9. CASE r # s
  <2>1. paidIn'[r] = paidIn[r] /\ funding'[r] = funding[r] /\ advanced'[r] = advanced[r]
    BY <1>3, <1>7, <1>9
  <2>2. SameAccount(b, a)  BY <1>3, <1>f, <2>1 DEF SameAccount
  <2> QED  BY <1>1, <1>2, <1>9, <2>2
<1> QED  BY <1>8, <1>9

-----------------------------------------------------------------------------
(* Sums of transfers.                                                      *)

AreTransfers(T) == IsFiniteSet(T) /\ \A t \in T : t.amount \in Nat

\* No transfer, or one more.
LEMMA TransferredMore ==
  ASSUME NEW T, AreTransfers(T)
  PROVE  /\ Transferred({}) = 0 /\ Transferred(T) \in Nat
         /\ \A t : t \notin T /\ t.amount \in Nat =>
              AreTransfers(T \cup {t}) /\ Transferred(T \cup {t}) = Transferred(T) + t.amount
<1>1. ASSUME NEW U, NEW f, f = [t \in U |-> t.amount]  PROVE Transferred(U) = Sum(f, U)
  BY <1>1 DEF Transferred, Sum
<1>2. Transferred({}) = 0
  <2>1. PICK f : f = [t \in {} |-> t.amount]  OBVIOUS
  <2> QED  BY <1>1, <2>1, SumStep, FS_EmptySet
<1>3. Transferred(T) \in Nat
  <2>1. PICK f : f = [t \in T |-> t.amount]  OBVIOUS
  <2> QED  BY <1>1, <2>1, SumNat DEF AreTransfers
<1>4. ASSUME NEW t, t \notin T, t.amount \in Nat
      PROVE  AreTransfers(T \cup {t}) /\ Transferred(T \cup {t}) = Transferred(T) + t.amount
  <2>1. PICK f, g : f = [u \in T |-> u.amount] /\ g = [u \in T \cup {t} |-> u.amount]  OBVIOUS
  <2>2. IsFiniteSet(T \cup {t})  BY FS_AddElement DEF AreTransfers
  <2>3. \A u \in T \cup {t} : g[u] \in Int  BY <1>4, <2>1 DEF AreTransfers
  <2>4. Sum(g, T \cup {t}) = g[t] + Sum(g, (T \cup {t}) \ {t})  BY <2>2, <2>3, SumTake
  <2>5. (T \cup {t}) \ {t} = T  BY <1>4
  <2>6. Sum(g, T) = Sum(f, T)  BY <2>1, SumSame DEF AreTransfers
  <2>7. g[t] = t.amount  BY <2>1
  <2>8. Transferred(T \cup {t}) = Sum(g, T \cup {t}) /\ Transferred(T) = Sum(f, T)  BY <1>1, <2>1
  <2>9. Sum(f, T) \in Nat  BY <1>3, <2>8
  <2>10. Sum(g, T \cup {t}) = t.amount + Sum(f, T)  BY <2>4, <2>5, <2>6, <2>7
  <2>11. Transferred(T \cup {t}) = Transferred(T) + t.amount  BY <1>4, <2>8, <2>9, <2>10
  <2> QED  BY <1>4, <2>2, <2>11 DEF AreTransfers
<1> QED  BY <1>2, <1>3, <1>4

\* A part of the transfers is no more than all, and no transfer is more than all.
LEMMA TransferredPart ==
  ASSUME NEW T, AreTransfers(T), NEW S, S \subseteq T
  PROVE  /\ AreTransfers(S) /\ Transferred(S) \in Nat /\ Transferred(S) <= Transferred(T)
         /\ \A t \in S : t.amount <= Transferred(S)
<1>1. AreTransfers(S)  BY FS_Subset DEF AreTransfers
<1>2. Transferred(S) \in Nat /\ Transferred(T) \in Nat  BY <1>1, TransferredMore
<1>3. ASSUME NEW t \in S  PROVE t.amount <= Transferred(S)
  <2>1. PICK f : f = [u \in S |-> u.amount]  OBVIOUS
  <2>2. f[t] <= Sum(f, S)  BY <1>1, <2>1, SumBounds DEF AreTransfers
  <2> QED  BY <2>1, <2>2 DEF Transferred, Sum
<1>4. Transferred(S) <= Transferred(T)
  <2> DEFINE Bad == {U \in SUBSET T : Transferred(U) > Transferred(T)}
             Rest == {T \ U : U \in Bad}
  <2>1. SUFFICES ASSUME Rest # {} PROVE FALSE
    <3>1. Bad = {}  BY <2>1
    <3> QED  BY <1>2, <3>1
  <2>2. Rest \subseteq SUBSET T  OBVIOUS
  <2>3. PICK R \in Rest : \A U \in Rest : ~(U \subseteq R /\ U # R)
    <3> HIDE DEF Rest
    <3> QED  BY <2>1, <2>2, LeastSubset DEF AreTransfers
  <2>4. PICK U \in SUBSET T : R = T \ U /\ Transferred(U) > Transferred(T)  BY <2>3
  <2>5. AreTransfers(U) /\ Transferred(U) \in Nat
    <3>1. AreTransfers(U)  BY FS_Subset DEF AreTransfers
    <3> QED  BY <3>1, TransferredMore
  <2>6. PICK t \in T : t \notin U
    <3>1. U # T  BY <1>2, <2>4
    <3> QED  BY <3>1
  <2>7. t.amount \in Nat  BY DEF AreTransfers
  <2>8. Transferred(U \cup {t}) = Transferred(U) + t.amount  BY <2>5, <2>6, <2>7, TransferredMore
  <2>9. U \cup {t} \in Bad  BY <1>2, <2>4, <2>5, <2>7, <2>8
  <2>10. T \ (U \cup {t}) \in Rest  BY <2>9
  <2>11. T \ (U \cup {t}) \subseteq R /\ T \ (U \cup {t}) # R  BY <2>4, <2>6
  <2> QED  BY <2>3, <2>10, <2>11
<1> QED  BY <1>1, <1>2, <1>3, <1>4

-----------------------------------------------------------------------------
(* What an account says: the money that came for a ref and is neither held *)
(* for it, nor spent, nor returned is its recipient's.                     *)

BuyIn(a) == \E e \in a.log : e.outcome = "Bought"
SaleIn(a) == \E e \in a.log : e.outcome = "Sold"
SpentOf(a) == IF BuyIn(a) THEN Principal ELSE 0
UsdOf(a) == a.in + a.adv - a.fund - a.proc - Transferred(a.back) - SpentOf(a)

\* The account's sums.
SumsIn(a) ==
  /\ a.in \in Nat /\ a.out \in Nat /\ a.fund \in Nat /\ a.proc \in Nat /\ a.adv \in Nat
  /\ a.done \in BOOLEAN
  /\ IsFiniteSet(a.back)
  /\ \A t \in a.back : t.amount \in Nat /\ t.id \in Nat /\ t.id < a.out
  /\ Transferred(a.back) + SpentOf(a) <= a.out
\* Nothing moved before the ref was settled, and it is settled once.
SettledOnce(a) ==
  /\ ~a.done => a.in = a.fund /\ a.proc = 0 /\ a.adv = 0 /\ a.back = {} /\ a.log = {}
  /\ \A e, f \in a.log : e = f
\* Only a bought buy has had an advance, and it lacks just that; a sell is not bought.
SideOf(r, a) ==
  /\ r \in Buys => /\ a.proc = 0 /\ ~SaleIn(a)
                   /\ a.adv > 0 => BuyIn(a) /\ a.in + a.adv = Principal
  /\ r \in Sells => a.adv = 0 /\ ~BuyIn(a)
\* The recipient has something on the vault only after escalateFunds, or a sale there.
RecipientOf(r, a) ==
  UsdOf(a) # 0 => Delivered(r) \/ \E e \in a.log : e.outcome = "Sold" /\ e.amountOut = 0

AccountOK(r, a) == SumsIn(a) /\ SettledOnce(a) /\ SideOf(r, a) /\ RecipientOf(r, a)

NumbersOf(b) ==
  /\ b.in \in Nat /\ b.out \in Nat /\ b.fund \in Nat /\ b.proc \in Nat /\ b.adv \in Nat
  /\ b.done \in BOOLEAN

\* An account whose sums and whose log are as they were.
LEMMA AccountSame ==
  ASSUME NEW r, NEW a, NEW b, AccountOK(r, a), NumbersOf(b), b.out >= a.out,
         b.back = a.back, b.log = a.log, b.done = a.done
  PROVE  /\ SumsIn(b) /\ Transferred(b.back) = Transferred(a.back) /\ SpentOf(b) = SpentOf(a)
         /\ (BuyIn(b) <=> BuyIn(a)) /\ (SaleIn(b) <=> SaleIn(a))
         /\ Transferred(a.back) \in Nat /\ SpentOf(a) \in {0, Principal}
<1>1. AreTransfers(a.back)  BY DEF AccountOK, SumsIn, AreTransfers
<1>2. Transferred(a.back) \in Nat  BY <1>1, TransferredMore
<1>3. (BuyIn(b) <=> BuyIn(a)) /\ (SaleIn(b) <=> SaleIn(a))  BY DEF BuyIn, SaleIn
<1>4. SpentOf(b) = SpentOf(a) /\ SpentOf(a) \in {0, Principal}  BY <1>3 DEF SpentOf
<1>5. Transferred(b.back) = Transferred(a.back)  OBVIOUS
<1>6. a.out \in Nat /\ Transferred(a.back) + SpentOf(a) <= a.out /\ IsFiniteSet(a.back)
      /\ \A t \in a.back : t.amount \in Nat /\ t.id \in Nat /\ t.id < a.out
  BY DEF AccountOK, SumsIn
<1>7. Transferred(b.back) + SpentOf(b) <= b.out
  <2>1. SpentOf(a) \in Nat  BY <1>4, HubAssumption
  <2>2. Transferred(b.back) + SpentOf(b) = Transferred(a.back) + SpentOf(a)  BY <1>4, <1>5
  <2>3. PICK x : x = Transferred(a.back) + SpentOf(a)  OBVIOUS
  <2>4. x \in Nat /\ x <= a.out  BY <1>2, <1>6, <2>1, <2>3
  <2>5. x <= b.out  BY <1>6, <2>4 DEF NumbersOf
  <2> QED  BY <2>2, <2>3, <2>5
<1>8. IsFiniteSet(b.back) /\ \A t \in b.back : t.amount \in Nat /\ t.id \in Nat /\ t.id < b.out
  BY <1>6 DEF NumbersOf
<1> QED  BY <1>2, <1>3, <1>4, <1>5, <1>7, <1>8 DEF SumsIn, NumbersOf

\* The account after the one entry of its log.
LEMMA AccountLogged ==
  ASSUME NEW r, NEW a, NEW b, AccountOK(r, a), NumbersOf(b), NEW outcome, NEW raw,
         Logs(b, a, outcome, raw), b.back = a.back, b.out >= a.out,
         outcome = "Bought" => b.out >= a.out + Principal
  PROVE  /\ a.in = a.fund /\ a.proc = 0 /\ a.adv = 0
         /\ SumsIn(b) /\ SettledOnce(b) /\ Transferred(b.back) = 0 /\ b.done
         /\ SpentOf(b) = (IF outcome = "Bought" THEN Principal ELSE 0)
         /\ (BuyIn(b) <=> outcome = "Bought") /\ (SaleIn(b) <=> outcome = "Sold")
         /\ \E e : b.log = {e} /\ e.outcome = outcome /\ e.amountOut = raw
<1>1. PICK e : e.outcome = outcome /\ e.amountOut = raw /\ b.log = a.log \cup {e}  BY DEF Logs
<1>2. ~a.done /\ b.done  BY DEF Logs
<1>3. a.in = a.fund /\ a.proc = 0 /\ a.adv = 0 /\ a.back = {} /\ a.log = {}
  BY <1>2 DEF AccountOK, SettledOnce
<1>4. b.log = {e} /\ b.back = {}  BY <1>1, <1>3
<1>5. (BuyIn(b) <=> outcome = "Bought") /\ (SaleIn(b) <=> outcome = "Sold")
  BY <1>1, <1>4 DEF BuyIn, SaleIn
<1>6. SpentOf(b) = IF outcome = "Bought" THEN Principal ELSE 0  BY <1>5 DEF SpentOf
<1>7. Transferred(b.back) = 0
  <2>1. AreTransfers({})  BY FS_EmptySet DEF AreTransfers
  <2> QED  BY <1>4, <2>1, TransferredMore
<1>8. SettledOnce(b)  BY <1>2, <1>4 DEF SettledOnce
<1>9. SumsIn(b)
  <2>1. Transferred(b.back) + SpentOf(b) <= b.out
    BY <1>6, <1>7, HubAssumption DEF NumbersOf, AccountOK, SumsIn
  <2>2. IsFiniteSet(b.back)  BY <1>4, FS_EmptySet
  <2> QED  BY <1>4, <2>1, <2>2 DEF SumsIn, NumbersOf
<1> QED  BY <1>1, <1>2, <1>3, <1>4, <1>5, <1>6, <1>7, <1>8, <1>9

\* What the vault does to an account keeps it in order.
LEMMA AccountStays ==
  ASSUME NEW r \in Refs, NEW a, NEW b, AccountOK(r, a), NumbersOf(b), AccountMoves(r, b, a)
  PROVE  AccountOK(r, b)
<1>0. /\ Principal \in Nat \ {0}
      /\ a.in \in Nat /\ a.out \in Nat /\ a.fund \in Nat /\ a.proc \in Nat /\ a.adv \in Nat
      /\ b.in \in Nat /\ b.out \in Nat /\ b.fund \in Nat /\ b.proc \in Nat /\ b.adv \in Nat
      /\ ~(r \in Buys /\ r \in Sells)
  BY HubAssumption DEF AccountOK, SumsIn, NumbersOf
<1>1. CASE SameAccount(b, a)
  <2>1. /\ SumsIn(b) /\ Transferred(b.back) = Transferred(a.back) /\ SpentOf(b) = SpentOf(a)
        /\ (BuyIn(b) <=> BuyIn(a)) /\ (SaleIn(b) <=> SaleIn(a))
    BY <1>1, AccountSame DEF SameAccount
  <2>2. UsdOf(b) = UsdOf(a)  BY <1>1, <2>1 DEF UsdOf, SameAccount
  <2>3. SettledOnce(b)  BY <1>1 DEF SettledOnce, SameAccount, AccountOK
  <2>4. SideOf(r, b)  BY <1>1, <2>1 DEF SideOf, SameAccount, AccountOK
  <2>5. RecipientOf(r, b)  BY <1>1, <2>2 DEF RecipientOf, SameAccount, AccountOK
  <2> QED  BY <2>1, <2>3, <2>4, <2>5 DEF AccountOK
<1>2. CASE BoughtFrom(r, b, a)
  <2>1. PICK own : own = IF a.fund < Principal THEN a.fund ELSE Principal  OBVIOUS
  <2>2. PICK raw \in Nat : Logs(b, a, "Bought", raw)  BY <1>2 DEF BoughtFrom
  <2>3. /\ r \in Buys /\ b.fund = a.fund - own /\ b.adv = a.adv + (Principal - own)
        /\ b.out = a.out + Principal /\ b.in = a.in /\ b.proc = a.proc /\ b.back = a.back
    BY <1>2, <2>1 DEF BoughtFrom
  <2>4. b.out >= a.out + Principal /\ b.out >= a.out  BY <1>0, <2>3
  <2>5. /\ a.in = a.fund /\ a.proc = 0 /\ a.adv = 0
        /\ SumsIn(b) /\ SettledOnce(b) /\ Transferred(b.back) = 0
        /\ SpentOf(b) = Principal /\ BuyIn(b) /\ ~SaleIn(b)
    BY <2>2, <2>3, <2>4, AccountLogged
  <2>6. own \in Nat /\ own <= a.fund /\ own <= Principal /\ (own < Principal => own = a.fund)
    BY <1>0, <2>1
  <2>7. UsdOf(b) = 0  BY <1>0, <2>3, <2>5, <2>6 DEF UsdOf
  <2>8. SideOf(r, b)  BY <1>0, <2>3, <2>5, <2>6 DEF SideOf
  <2>9. RecipientOf(r, b)  BY <2>7 DEF RecipientOf
  <2> QED  BY <2>5, <2>8, <2>9 DEF AccountOK
<1>3. CASE SoldFrom(r, b, a)
  <2>1. PICK raw \in Nat :
          /\ r \in Sells /\ Logs(b, a, "Sold", raw)
          /\ b.in = a.in + raw /\ b.proc = a.proc + raw
          /\ b.fund = a.fund /\ b.adv = a.adv /\ b.out = a.out /\ b.back = a.back
    BY <1>3 DEF SoldFrom
  <2>2. /\ a.in = a.fund /\ a.proc = 0 /\ a.adv = 0
        /\ SumsIn(b) /\ SettledOnce(b) /\ Transferred(b.back) = 0
        /\ SpentOf(b) = 0 /\ ~BuyIn(b) /\ SaleIn(b)
    BY <1>0, <2>1, AccountLogged
  <2>3. UsdOf(b) = 0  BY <1>0, <2>1, <2>2 DEF UsdOf
  <2>4. SideOf(r, b)  BY <1>0, <2>1, <2>2 DEF SideOf
  <2>5. RecipientOf(r, b)  BY <2>3 DEF RecipientOf
  <2> QED  BY <2>2, <2>4, <2>5 DEF AccountOK
<1>4. CASE FailedFrom(b, a)
  <2>1. /\ a.in = a.fund /\ a.proc = 0 /\ a.adv = 0
        /\ SumsIn(b) /\ SettledOnce(b) /\ Transferred(b.back) = 0
        /\ SpentOf(b) = 0 /\ ~BuyIn(b) /\ ~SaleIn(b)
    BY <1>4, AccountLogged DEF FailedFrom
  <2>2. UsdOf(b) = 0  BY <1>0, <1>4, <2>1 DEF UsdOf, FailedFrom
  <2>3. SideOf(r, b)  BY <1>0, <1>4, <2>1 DEF SideOf, FailedFrom
  <2>4. RecipientOf(r, b)  BY <2>2 DEF RecipientOf
  <2> QED  BY <2>1, <2>3, <2>4 DEF AccountOK
<1>5. CASE ReturnedFrom(r, b, a)
  <2>1. PICK amount : amount = a.fund + a.proc  OBVIOUS
  <2>2. PICK t : t = [ref |-> r, amount |-> amount, id |-> a.out]  OBVIOUS
  <2>3. /\ a.done /\ b.done /\ amount > 0 /\ amount \in Nat
        /\ b.back = a.back \cup {t} /\ b.out = a.out + amount /\ b.fund = 0 /\ b.proc = 0
        /\ b.in = a.in /\ b.adv = a.adv /\ b.log = a.log
    BY <1>0, <1>5, <2>1, <2>2 DEF ReturnedFrom
  <2>4. t \notin a.back /\ t.amount = amount /\ t.id = a.out
    BY <1>0, <2>2 DEF AccountOK, SumsIn
  <2>5. AreTransfers(a.back)  BY DEF AreTransfers, AccountOK, SumsIn
  <2>6. /\ Transferred(b.back) = Transferred(a.back) + amount /\ AreTransfers(b.back)
        /\ Transferred(a.back) \in Nat
    BY <2>3, <2>4, <2>5, TransferredMore
  <2>7. (BuyIn(b) <=> BuyIn(a)) /\ (SaleIn(b) <=> SaleIn(a))  BY <2>3 DEF BuyIn, SaleIn
  <2>8. SpentOf(b) = SpentOf(a) /\ SpentOf(a) \in Nat  BY <1>0, <2>7 DEF SpentOf
  <2>9. UsdOf(b) = UsdOf(a)  BY <1>0, <2>1, <2>3, <2>6, <2>8 DEF UsdOf
  <2>10. SumsIn(b)
    <3>1. Transferred(a.back) + SpentOf(a) <= a.out  BY DEF AccountOK, SumsIn
    <3>2. Transferred(b.back) + SpentOf(b) <= b.out  BY <1>0, <2>3, <2>6, <2>8, <3>1
    <3>3. \A u \in b.back : u.amount \in Nat /\ u.id \in Nat /\ u.id < b.out
      BY <1>0, <2>3, <2>4 DEF AccountOK, SumsIn
    <3> QED  BY <2>6, <3>2, <3>3 DEF SumsIn, NumbersOf, AreTransfers
  <2>11. SettledOnce(b)  BY <2>3 DEF SettledOnce, AccountOK
  <2>12. SideOf(r, b)  BY <2>3, <2>7 DEF SideOf, AccountOK
  <2>13. RecipientOf(r, b)  BY <2>3, <2>9 DEF RecipientOf, AccountOK
  <2> QED  BY <2>10, <2>11, <2>12, <2>13 DEF AccountOK
<1>6. CASE Delivered(r) /\ HandedOver(b, a)
  <2>1. RecipientOf(r, b)  BY <1>6 DEF RecipientOf
  <2>2. CASE a.done
    <3>1. /\ b.done = a.done /\ b.log = a.log /\ b.back = a.back /\ b.out >= a.out
          /\ b.in = a.in /\ b.adv = a.adv /\ b.fund = 0 /\ b.proc = 0
      BY <1>6, <2>2 DEF HandedOver, NumbersOf, AccountOK, SumsIn
    <3>2. SumsIn(b) /\ (BuyIn(b) <=> BuyIn(a)) /\ (SaleIn(b) <=> SaleIn(a))
      BY <3>1, AccountSame
    <3>3. SettledOnce(b)  BY <2>2, <3>1 DEF SettledOnce, AccountOK
    <3>4. SideOf(r, b)  BY <3>1, <3>2 DEF SideOf, AccountOK
    <3> QED  BY <2>1, <3>2, <3>3, <3>4 DEF AccountOK
  <2>3. CASE ~a.done
    <3>1. /\ Logs(b, a, "Failed", 0) /\ b.back = a.back /\ b.out >= a.out
          /\ b.in = a.in /\ b.adv = a.adv /\ b.fund = 0 /\ b.proc = 0
      BY <1>6, <2>3 DEF HandedOver
    <3>2. SumsIn(b) /\ SettledOnce(b) /\ ~BuyIn(b) /\ ~SaleIn(b) /\ a.adv = 0
      BY <3>1, AccountLogged
    <3>3. SideOf(r, b)  BY <3>1, <3>2 DEF SideOf
    <3> QED  BY <2>1, <3>2, <3>3 DEF AccountOK
  <2> QED  BY <2>2, <2>3
<1>7. CASE SharesOver(r, b, a)
  <2>1. /\ r \in Sells /\ Logs(b, a, "Sold", 0) /\ b.out >= a.out /\ b.adv = a.adv
        /\ b.back = a.back
    BY <1>7 DEF SharesOver
  <2>2. /\ SumsIn(b) /\ SettledOnce(b) /\ ~BuyIn(b) /\ a.adv = 0
        /\ \E e : b.log = {e} /\ e.outcome = "Sold" /\ e.amountOut = 0
    BY <2>1, AccountLogged
  <2>3. SideOf(r, b)  BY <1>0, <2>1, <2>2 DEF SideOf
  <2>4. RecipientOf(r, b)  BY <2>2 DEF RecipientOf
  <2> QED  BY <2>2, <2>3, <2>4 DEF AccountOK
<1> QED  BY <1>1, <1>2, <1>3, <1>4, <1>5, <1>6, <1>7 DEF AccountMoves

\* Money for a ref refills the float first.
LEMMA AccountFunded ==
  ASSUME NEW r \in Refs, NEW a, NEW b, AccountOK(r, a), NumbersOf(b), NEW amount \in Nat,
         FundedWith(b, a, amount)
  PROVE  AccountOK(r, b) /\ UsdOf(b) = UsdOf(a) /\ (BuyIn(b) <=> BuyIn(a)) /\ b.fund >= a.fund
<1>0. /\ a.in \in Nat /\ a.fund \in Nat /\ a.proc \in Nat /\ a.adv \in Nat /\ Principal \in Nat
      /\ b.out \in Nat /\ a.out \in Nat
  BY HubAssumption DEF AccountOK, SumsIn, NumbersOf
<1>1. PICK toFloat : toFloat = IF a.adv < amount THEN a.adv ELSE amount  OBVIOUS
<1>2. /\ b.in = a.in + amount /\ b.adv = a.adv - toFloat /\ b.fund = a.fund + (amount - toFloat)
      /\ b.out = a.out /\ b.proc = a.proc /\ b.back = a.back /\ b.log = a.log /\ b.done = a.done
  BY <1>1 DEF FundedWith
<1>3. /\ toFloat \in Nat /\ toFloat <= a.adv /\ toFloat <= amount
      /\ a.adv - toFloat > 0 => toFloat = amount
  BY <1>0, <1>1
<1>4. /\ SumsIn(b) /\ Transferred(b.back) = Transferred(a.back) /\ SpentOf(b) = SpentOf(a)
      /\ (BuyIn(b) <=> BuyIn(a)) /\ (SaleIn(b) <=> SaleIn(a))
      /\ Transferred(a.back) \in Nat /\ SpentOf(a) \in {0, Principal}
  BY <1>0, <1>2, AccountSame
<1>5. UsdOf(b) = UsdOf(a)
  <2>1. PICK x, y : x = Transferred(a.back) /\ y = SpentOf(a)  OBVIOUS
  <2>2. x \in Nat /\ y \in Nat  BY <1>0, <1>4, <2>1
  <2>3. UsdOf(b) = b.in + b.adv - b.fund - b.proc - x - y  BY <1>4, <2>1 DEF UsdOf
  <2>4. UsdOf(a) = a.in + a.adv - a.fund - a.proc - x - y  BY <2>1 DEF UsdOf
  <2> QED  BY <1>0, <1>2, <1>3, <2>2, <2>3, <2>4
<1>6. SettledOnce(b)
  <2>1. ~a.done => a.in = a.fund /\ a.adv = 0  BY DEF AccountOK, SettledOnce
  <2>2. ~a.done => b.in = b.fund /\ b.adv = 0  BY <1>0, <1>2, <1>3, <2>1
  <2> QED  BY <1>2, <2>2 DEF AccountOK, SettledOnce
<1>7. SideOf(r, b)
  <2>1. CASE r \in Buys
    <3>1. b.adv > 0 => a.adv > 0 /\ b.in + b.adv = a.in + a.adv  BY <1>0, <1>2, <1>3
    <3> QED  BY <1>2, <1>4, <2>1, <3>1, HubAssumption DEF AccountOK, SideOf
  <2>2. CASE r \in Sells
    <3>1. a.adv = 0 /\ ~BuyIn(a)  BY <2>2 DEF AccountOK, SideOf
    <3>2. b.adv = 0  BY <1>0, <1>2, <1>3, <3>1
    <3> QED  BY <1>4, <2>2, <3>1, <3>2, HubAssumption DEF SideOf
  <2> QED  BY <2>1, <2>2 DEF SideOf
<1>8. RecipientOf(r, b)  BY <1>2, <1>5 DEF AccountOK, RecipientOf
<1>9. b.fund >= a.fund  BY <1>0, <1>2, <1>3
<1> QED  BY <1>4, <1>5, <1>6, <1>7, <1>8, <1>9 DEF AccountOK

\* What came in for a ref: a buy's principal once, from the route, and a seller's proceeds,
\* besides what strangers donated.
CameIn(r, a) ==
  /\ r \in Buys => \/ a.in = donated[r]
                   \/ r \in resolved /\ a.in = donated[r] + Principal
  /\ r \in Sells => IF SaleIn(a) THEN \A e \in a.log : a.in >= donated[r] + e.amountOut
                                 ELSE a.in = donated[r]

\* What is in the channels was sent.
RoutesOK ==
  /\ credited \subseteq returnsSent /\ resolved \subseteq transfersSent
  /\ topUps \in [Ids -> Nat] /\ donated \in [Ids -> Nat]

\* The accounts' invariant.
AccountsInv ==
  /\ SharesInv /\ RequestsOK /\ RefMoneyConserved /\ RoutesOK
  /\ \A r \in Refs : AccountOK(r, Account(r)) /\ CameIn(r, Account(r))

\* What comes in, when the vault moves.
LEMMA CameStays ==
  ASSUME NEW r \in Refs, NEW a, NEW b, AccountOK(r, a), NumbersOf(b), AccountMoves(r, b, a),
         CameIn(r, a), donated[r] \in Nat
  PROVE  CameIn(r, b)
<1>1. a.in \in Nat /\ b.in \in Nat /\ ~(r \in Buys /\ r \in Sells)
  BY HubAssumption DEF AccountOK, SumsIn, NumbersOf
<1>2. CASE r \in Buys
  <2>1. b.in = a.in
    BY <1>1, <1>2
    DEF AccountMoves, SameAccount, BoughtFrom, SoldFrom, FailedFrom, ReturnedFrom, HandedOver,
        SharesOver
  <2> QED  BY <1>1, <1>2, <2>1 DEF CameIn
<1>3. CASE r \in Sells
  <2>1. CASE b.in = a.in /\ b.log = a.log  BY <1>1, <1>3, <2>1 DEF CameIn, SaleIn
  <2>2. ASSUME NEW outcome, NEW raw \in Nat, Logs(b, a, outcome, raw),
               IF outcome = "Sold" THEN b.in >= a.in + raw ELSE b.in = a.in
        PROVE  CameIn(r, b)
    <3>1. PICK e : e.outcome = outcome /\ e.amountOut = raw /\ b.log = a.log \cup {e}
      BY <2>2 DEF Logs
    <3>2. a.log = {}  BY <2>2 DEF Logs, AccountOK, SettledOnce
    <3>3. a.in = donated[r]  BY <1>3, <3>2 DEF CameIn, SaleIn
    <3>4. b.log = {e} /\ (SaleIn(b) <=> outcome = "Sold")  BY <3>1, <3>2 DEF SaleIn
    <3> QED  BY <1>1, <1>3, <2>2, <3>1, <3>3, <3>4 DEF CameIn
  <2>3. CASE SoldFrom(r, b, a)
    <3>1. PICK raw \in Nat : Logs(b, a, "Sold", raw) /\ b.in = a.in + raw
      BY <2>3 DEF SoldFrom
    <3> QED  BY <1>1, <2>2, <3>1
  <2>4. CASE FailedFrom(b, a)
    <3>1. Logs(b, a, "Failed", 0) /\ b.in = a.in  BY <2>4 DEF FailedFrom
    <3> QED  BY <2>2, <3>1
  <2>5. CASE HandedOver(b, a)
    <3>1. b.in = a.in /\ (b.log = a.log \/ Logs(b, a, "Failed", 0))  BY <2>5 DEF HandedOver
    <3> QED  BY <2>1, <2>2, <3>1
  <2>6. CASE SharesOver(r, b, a)
    <3>1. Logs(b, a, "Sold", 0) /\ b.in >= a.in + 0  BY <1>1, <2>6 DEF SharesOver
    <3> QED  BY <2>2, <3>1
  <2> QED
    BY <1>1, <1>3, <2>1, <2>3, <2>4, <2>5, <2>6
    DEF AccountMoves, SameAccount, BoughtFrom, ReturnedFrom
<1>4. r \in Buys \/ r \in Sells  BY LayerAssumption DEF Ids
<1> QED  BY <1>2, <1>3, <1>4

\* The next account is one of numbers.
LEMMA NumbersNext ==
  ASSUME VaultTypeOK', NEW r \in Refs
  PROVE  NumbersOf(Account(r)')
<1>1. PICK b : b = Account(r)'  OBVIOUS
<1>2. PICK a : a = Account(r)  OBVIOUS
<1>3. /\ b.in = paidIn'[r] /\ b.out = paidOut'[r] /\ b.fund = funding'[r]
      /\ b.proc = proceeds'[r] /\ b.adv = advanced'[r] /\ b.done = (r \in settled')
  BY <1>1, <1>2, AccountFields
<1>4. /\ paidIn'[r] \in Nat /\ paidOut'[r] \in Nat /\ funding'[r] \in Nat
      /\ proceeds'[r] \in Nat /\ advanced'[r] \in Nat
  BY DEF VaultTypeOK, MoneyTypeOK
<1> QED  BY <1>1, <1>3, <1>4 DEF NumbersOf

\* The next account, as a state function and as a value.
LEMMA AccountNext ==
  ASSUME NEW r, NEW b, b = Account(r)', AccountOK(r, b), Delivered(r) => Delivered(r)'
  PROVE  AccountOK(r, Account(r))'
BY DEF AccountOK, SumsIn, SettledOnce, SideOf, RecipientOf, UsdOf, SpentOf, BuyIn, SaleIn, Transferred

\* What came for a ref is told the same way in the next state.
LEMMA CameNext ==
  ASSUME NEW r, NEW b, b = Account(r)', CameIn(r, b), donated'[r] = donated[r],
         resolved \subseteq resolved'
  PROVE  CameIn(r, Account(r))'
BY DEF CameIn, SaleIn

\* A step that leaves the vault as it is.
LEMMA AccountKept ==
  ASSUME UNCHANGED vaultVars, NEW r
  PROVE  Account(r)' = Account(r)
BY DEF Account, ReturnsOf, LogOf, ResultOf, vaultVars, liabilityVars, logVars, historyVars

\* Deliveries that were sent stay so, as do the transfers.
LEMMA SentStays ==
  ASSUME MoneyStep
  PROVE  /\ transfersSent \subseteq transfersSent'
         /\ \A r \in Ids : Delivered(r) => Delivered(r)'
<1>1. ASSUME NothingSent
      PROVE  /\ transfersSent \subseteq transfersSent'
             /\ \A r \in Ids : Delivered(r) => Delivered(r)'
  BY <1>1 DEF NothingSent, Delivered
<1>2. ASSUME NEW i, Acted(i)
      PROVE  /\ transfersSent \subseteq transfersSent'
             /\ \A r \in Ids : Delivered(r) => Delivered(r)'
  <2>1. transfersSent \subseteq transfersSent'  BY <1>2 DEF Acted
  <2>2. SameDelivered \/ deliversSent \subseteq deliversSent'  BY <1>2 DEF Acted
  <2> QED  BY <2>1, <2>2 DEF SameDelivered, Delivered
<1> QED
  BY <1>1, <1>2
  DEF MoneyStep, IdleStep, VaultSideStep, HubActs, BounceStep, CreditStep, GiftStep, Arrived, Given

\* A return that was sent stays so.
LEMMA ReturnsStay ==
  ASSUME VaultMoves
  PROVE  returnsSent \subseteq returnsSent'
BY DEF VaultMoves, VaultStep, ReceiveOrder, ExecuteFunded, ReturnFunds, ClaimUsd, ClaimStock, Fund,
       Checkpoint, Deliver, DeliverSettled, DeliverVoid, DeliverShares, MigrateIn, SetVaultFloat,
       vaultVars

\* The channels only carry what was sent, and gifts only grow.
LEMMA RoutesStep ==
  ASSUME LayerInv, RoutesOK, MoneyStep
  PROVE  RoutesOK'
<1>0. transfersSent \subseteq transfersSent'  BY SentStays
<1>1. ASSUME UNCHANGED vaultVars  PROVE returnsSent' = returnsSent  BY <1>1 DEF vaultVars
<1>2. CASE UNCHANGED <<vaultVars, routeVars, giftVars>>
  BY <1>0, <1>1, <1>2 DEF RoutesOK, routeVars, giftVars
<1>3. ASSUME NEW i \in Ids, NEW cost \in Costs, BounceStep(i, cost)  PROVE RoutesOK'
  BY <1>0, <1>1, <1>3 DEF RoutesOK, BounceStep, giftVars
<1>4. ASSUME NEW t \in returnsSent, NEW cost \in Costs, CreditStep(t, cost)  PROVE RoutesOK'
  BY <1>0, <1>1, <1>4 DEF RoutesOK, CreditStep, giftVars
<1>5. ASSUME NEW i \in Ids, NEW amount \in Nat, GiftStep(i, amount)  PROVE RoutesOK'
  BY <1>0, <1>1, <1>5 DEF RoutesOK, GiftStep, routeVars
<1>6. CASE VaultSideStep
  <2>1. ASSUME VaultStep, UNCHANGED <<routeVars, giftVars>>  PROVE RoutesOK'
    <3>1. returnsSent \subseteq returnsSent'  BY <2>1, ReturnsStay DEF VaultMoves
    <3> QED  BY <1>0, <2>1, <3>1 DEF RoutesOK, routeVars, giftVars
  <2>2. ASSUME NEW i \in Buys, Fill(i)  PROVE RoutesOK'
    BY <1>0, <2>2 DEF RoutesOK, Fill, Fund, giftVars
  <2>3. ASSUME NEW r \in Refs, NEW amount \in FundAmounts, Donation(r, amount)  PROVE RoutesOK'
    <3>1. amount \in Nat /\ r \in Ids  BY VaultAssumption, LayerAssumption
    <3> QED  BY <1>0, <2>3, <3>1 DEF RoutesOK, Donation, Fund, routeVars
  <2> QED  BY <1>6, <2>1, <2>2, <2>3 DEF VaultSideStep
<1> QED  BY <1>2, <1>3, <1>4, <1>5, <1>6 DEF MoneyStep, IdleStep, HubActs

\* The accounts' invariant is kept by every step.
LEMMA AccountsStep ==
  ASSUME AccountsInv, LayerNext, SharesInv', RefMoneyConserved'
  PROVE  AccountsInv'
<1>0. LayerInv /\ LayerInv' /\ MessagesOK /\ VaultTypeOK /\ VaultTypeOK' /\ MoneyStep
  BY LayerMoney DEF AccountsInv, SharesInv, LayerInv
<1>1. RequestsOK'
  <2>1. CASE UNCHANGED vaultVars /\ (HubStep \/ UNCHANGED sentVars)
    BY <2>1, RequestsSent DEF AccountsInv, vaultVars
  <2>2. CASE UNCHANGED sentVars /\ VaultMoves
    BY <1>0, <2>2, RequestsWait DEF AccountsInv, LayerInv, sentVars
  <2> QED  BY <1>0, <2>1, <2>2, LayerStepKind
<1>2. RoutesOK'  BY <1>0, RoutesStep DEF AccountsInv
<1>3. ASSUME NEW r \in Refs  PROVE AccountOK(r, Account(r))' /\ CameIn(r, Account(r))'
  <2>1. PICK a : a = Account(r)  OBVIOUS
  <2>2. PICK b : b = Account(r)'  OBVIOUS
  <2>3. AccountOK(r, a) /\ CameIn(r, a) /\ NumbersOf(b)
    BY <1>0, <2>1, <2>2, NumbersNext DEF AccountsInv
  <2>4. r \in Ids /\ donated[r] \in Nat  BY LayerAssumption DEF AccountsInv, RoutesOK
  <2>5. Delivered(r) => Delivered(r)'  BY <1>0, <2>4, SentStays
  <2>6. SUFFICES AccountOK(r, b) /\ CameIn(r, Account(r))'
    BY <2>2, <2>5, AccountNext
  <2>7. CASE UNCHANGED <<vaultVars, donated>> /\ resolved \subseteq resolved'
    <3>1. b = a  BY <2>1, <2>2, <2>7, AccountKept
    <3>2. CameIn(r, Account(r))'  BY <2>2, <2>3, <2>7, <3>1, CameNext
    <3> QED  BY <2>3, <3>1, <3>2
  <2>8. CASE VaultStep /\ UNCHANGED <<routeVars, giftVars>>
    <3>1. AccountMoves(r, b, a)  BY <1>0, <2>1, <2>2, <2>8, VaultTurn DEF AccountsInv
    <3>2. AccountOK(r, b)  BY <2>3, <3>1, AccountStays
    <3>3. CameIn(r, b)  BY <2>3, <2>4, <3>1, CameStays
    <3>4. donated'[r] = donated[r] /\ resolved \subseteq resolved'
      BY <2>8 DEF routeVars, giftVars
    <3> QED  BY <2>2, <3>2, <3>3, <3>4, CameNext
  <2>9. ASSUME NEW s \in Refs, NEW amount \in Nat, Fund(s, amount),
               r # s => donated'[r] = donated[r], resolved \subseteq resolved',
               \/ s \in Buys \ resolved /\ amount = Principal
                    /\ resolved' = resolved \cup {s} /\ donated' = donated
               \/ donated'[s] = donated[s] + amount
        PROVE  AccountOK(r, b) /\ CameIn(r, Account(r))'
    <3>1. CASE r # s
      <4>1. SameAccount(b, a)  BY <1>0, <2>1, <2>2, <2>9, <3>1, FundTurn
      <4>2. AccountMoves(r, b, a)  BY <4>1 DEF AccountMoves
      <4>3. AccountOK(r, b) /\ CameIn(r, b)  BY <2>3, <2>4, <4>2, AccountStays, CameStays
      <4> QED  BY <2>2, <2>9, <3>1, <4>3, CameNext
    <3>2. CASE r = s
      <4>1. FundedWith(b, a, amount)  BY <1>0, <2>1, <2>2, <2>9, <3>2, FundTurn
      <4>2. AccountOK(r, b)  BY <2>3, <2>9, <4>1, AccountFunded
      <4>3. b.in = a.in + amount /\ b.log = a.log  BY <4>1 DEF FundedWith
      <4>4. a.in \in Nat /\ \A e \in a.log : e.amountOut \in Nat
        <5>1. \A e \in LogOf(r) : e \in ResultType
          BY <1>0 DEF LogOf, ResultOf, LayerInv, LogOK, WellFormed
        <5>2. a.log = LogOf(r)  BY <2>1 DEF Account
        <5> QED  BY <2>3, <5>1, <5>2 DEF AccountOK, SumsIn, ResultType
      <4>5. CASE donated'[r] = donated[r] + amount
        <5>1. r \in Buys => b.in = donated'[r] \/ (r \in resolved' /\ b.in = donated'[r] + Principal)
          BY <2>3, <2>4, <2>9, <4>3, <4>4, <4>5, HubAssumption DEF CameIn
        <5>2. r \in Sells => IF SaleIn(b) THEN \A e \in b.log : b.in >= donated'[r] + e.amountOut
                                          ELSE b.in = donated'[r]
          BY <2>3, <2>4, <2>9, <4>3, <4>4, <4>5 DEF CameIn, SaleIn
        <5> QED  BY <2>2, <4>2, <5>1, <5>2 DEF CameIn, SaleIn
      <4>6. CASE r \in Buys \ resolved /\ amount = Principal
                   /\ resolved' = resolved \cup {r} /\ donated' = donated
        <5>1. a.in = donated[r]  BY <2>3, <4>6 DEF CameIn
        <5>2. b.in = donated'[r] + Principal /\ r \in resolved' /\ r \in Buys /\ r \notin Sells
          BY <4>3, <4>6, <5>1, HubAssumption
        <5> QED  BY <2>2, <4>2, <5>2 DEF CameIn, SaleIn
      <4> QED  BY <2>9, <3>2, <4>5, <4>6
    <3> QED  BY <3>1, <3>2
  <2>10. CASE VaultSideStep
    <3>1. ASSUME NEW i \in Buys, Fill(i)  PROVE AccountOK(r, b) /\ CameIn(r, Account(r))'
      <4>1. /\ Fund(i, Principal) /\ i \notin resolved /\ resolved' = resolved \cup {i}
            /\ donated' = donated
        BY <3>1 DEF Fill, giftVars
      <4>2. i \in Refs /\ Principal \in Nat  BY LayerAssumption, HubAssumption DEF Ids
      <4> QED  BY <2>9, <4>1, <4>2
    <3>2. ASSUME NEW s \in Refs, NEW amount \in FundAmounts, Donation(s, amount)
          PROVE  AccountOK(r, b) /\ CameIn(r, Account(r))'
      <4>1. /\ Fund(s, amount) /\ resolved' = resolved
            /\ donated' = [donated EXCEPT ![s] = @ + amount]
        BY <3>2 DEF Donation, routeVars
      <4>2. amount \in Nat /\ s \in Ids /\ donated \in [Ids -> Nat]
        BY VaultAssumption, LayerAssumption DEF AccountsInv, RoutesOK
      <4>3. donated'[s] = donated[s] + amount /\ (r # s => donated'[r] = donated[r])
        BY <2>4, <4>1, <4>2
      <4> QED  BY <2>9, <4>1, <4>2, <4>3
    <3> QED  BY <2>8, <2>10, <3>1, <3>2 DEF VaultSideStep
  <2> QED
    BY <1>0, <2>7, <2>10
    DEF MoneyStep, IdleStep, HubActs, BounceStep, CreditStep, GiftStep, routeVars, giftVars
<1> QED  BY <1>1, <1>2, <1>3 DEF AccountsInv

=============================================================================
