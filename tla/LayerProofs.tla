----------------------------- MODULE LayerProofs -----------------------------
(***************************************************************************)
(* Proofs about the stock layer: that the hub is solvent, that the hub and *)
(* the vault agree on every answer, that the vault keeps what it promises  *)
(* on its own, and that the cap room of a buy that was sent is kept until  *)
(* the hub has the answer. AccountProofs builds on this module.            *)
(*                                                                         *)
(* A transaction of the hub is a composition of operators from hub to hub. *)
(* Each operator is about one order i, and for each one lemma says that    *)
(* the hub it returns is Backed: the other orders are as they were, the    *)
(* two totals moved by what moved for i, and the balance less the debts is *)
(* no lower.  A step is then Sound for the one order it is about, and the  *)
(* sums over all orders follow from SumLemmas.                             *)
(***************************************************************************)
EXTENDS StockLayer, ReserveVaultProofs

-----------------------------------------------------------------------------
(* The shape of the hub's books.                                           *)

\* An order, as the hub stores it.
HubOrder ==
  [status : Statuses, fee : Nat, extra : Nat, held : Nat, owed : Nat, amountOut : Nat,
   rawOut : Nat, outcome : 0..3, lzSettled : BOOLEAN, cancelRequested : BOOLEAN,
   disputed : BOOLEAN, advanced : BOOLEAN, orphaned : BOOLEAN, voided : BOOLEAN,
   custodyRaw : Nat, refundReady : Nat, paid : Nat, shares : Nat, late : Nat]

\* A state of the hub.  Whether its totals are ever negative is what is to be proved:
\* escrowed and claimableTotal are only integers here.
IsHub(h) ==
  /\ h = [order |-> h.order, native |-> h.native, escrowed |-> h.escrowed,
          accruedFees |-> h.accruedFees, claimableTotal |-> h.claimableTotal,
          supply |-> h.supply]
  /\ h.order \in [Ids -> HubOrder]
  /\ h.native \in Nat /\ h.escrowed \in Int /\ h.accruedFees \in Nat
  /\ h.claimableTotal \in Int /\ h.supply \in Nat

\* The hub with another order and other totals.
With(h, i, o, native, escrowed, fees, claims, supply) ==
  [order |-> [h.order EXCEPT ![i] = o], native |-> native, escrowed |-> escrowed,
   accruedFees |-> fees, claimableTotal |-> claims, supply |-> supply]

\* g is the hub h with another order i and other totals.
Differs(h, g, i) == IsHub(g) /\ \A j \in Ids \ {i} : g.order[j] = h.order[j]

\* What such a hub is made of.
LEMMA WithFacts ==
  ASSUME NEW h, IsHub(h), NEW i \in Ids, NEW o \in HubOrder, NEW native \in Nat,
         NEW escrowed \in Int, NEW fees \in Nat, NEW claims \in Int, NEW supply \in Nat,
         NEW g, g = With(h, i, o, native, escrowed, fees, claims, supply)
  PROVE  /\ Differs(h, g, i)
         /\ g.order[i] = o /\ g.native = native /\ g.escrowed = escrowed
         /\ g.accruedFees = fees /\ g.claimableTotal = claims /\ g.supply = supply
<1>1. [h.order EXCEPT ![i] = o] \in [Ids -> HubOrder]  BY DEF IsHub
<1>2. /\ g.order = [h.order EXCEPT ![i] = o] /\ g.native = native /\ g.escrowed = escrowed
      /\ g.accruedFees = fees /\ g.claimableTotal = claims /\ g.supply = supply
  BY DEF With
<1>3. g = [order |-> g.order, native |-> g.native, escrowed |-> g.escrowed,
           accruedFees |-> g.accruedFees, claimableTotal |-> g.claimableTotal,
           supply |-> g.supply]
  BY DEF With
<1>4. IsHub(g)  BY <1>1, <1>2, <1>3 DEF IsHub
<1>5. g.order[i] = o /\ \A j \in Ids \ {i} : g.order[j] = h.order[j]  BY <1>2 DEF IsHub
<1> QED  BY <1>2, <1>4, <1>5 DEF Differs

\* EscrowOf, of a record: what is held for the order i.
KeepsFee == {"Pending", "Funded", "Dispatched", "Returning", "Escalated"}
EscrowFor(i, o) ==
  (IF i \in Buys /\ o.status = "Pending" THEN Principal ELSE 0)
    + (IF i \in Buys /\ o.status \in KeepsFee THEN o.fee ELSE 0)
    + o.extra + o.held + o.refundReady
FeeFor(i, o) == IF i \in Sells /\ o.advanced THEN o.fee ELSE 0

\* What the totals say of the other orders, and what covers the debts.
OtherEscrow(h, i) == h.escrowed - EscrowFor(i, h.order[i])
OtherClaims(h, i) == h.claimableTotal - h.order[i].owed
Cover(h, i) == h.native - Owed(h) + FeeFor(i, h.order[i])

\* The fields a payment leaves alone: all but the amounts owed and paid.
SameButPaid(p, o) ==
  /\ p.status = o.status /\ p.fee = o.fee /\ p.extra = o.extra /\ p.held = o.held
  /\ p.amountOut = o.amountOut /\ p.rawOut = o.rawOut /\ p.outcome = o.outcome
  /\ p.lzSettled = o.lzSettled /\ p.disputed = o.disputed /\ p.advanced = o.advanced
  /\ p.refundReady = o.refundReady

\* _pay: the amount leaves the balance or is added to what is claimable, and the two
\* books differ by it in either case.
LEMMA PaidEffect ==
  ASSUME NEW h, IsHub(h), NEW i \in Ids, NEW to, NEW amount \in Nat, NEW g,
         g = Paid(h, i, to, amount)
  PROVE  /\ Differs(h, g, i) /\ SameButPaid(g.order[i], h.order[i])
         /\ g.escrowed = h.escrowed /\ g.accruedFees = h.accruedFees
         /\ OtherClaims(g, i) = OtherClaims(h, i)
         /\ g.native - g.claimableTotal = h.native - h.claimableTotal - amount
<1>0. /\ h.order[i] \in HubOrder /\ h.native \in Nat /\ h.escrowed \in Int
      /\ h.accruedFees \in Nat /\ h.claimableTotal \in Int /\ h.supply \in Nat
  BY DEF IsHub
<1>1. CASE ~CanSend(h, amount) \/ (to = "user" /\ i \in Refusers)
  <2> DEFINE late == IF to = "treasury" THEN h.order[i].late + amount ELSE h.order[i].late
             o == [h.order[i] EXCEPT !.owed = @ + amount, !.late = late]
  <2>1. g = With(h, i, o, h.native, h.escrowed, h.accruedFees, h.claimableTotal + amount, h.supply)
    BY <1>1 DEF Paid, IsHub, With
  <2>0. late \in Nat /\ h.order[i].owed \in Nat  BY <1>0 DEF HubOrder
  <2> HIDE DEF late
  <2>2. o \in HubOrder /\ SameButPaid(o, h.order[i]) /\ o.owed = h.order[i].owed + amount
        /\ h.order[i].owed \in Nat
    <3>1. h.order[i].owed + amount \in Nat  BY <2>0
    <3>2. o \in HubOrder  BY <1>0, <2>0, <3>1 DEF HubOrder
    <3>3. o.owed = h.order[i].owed + amount /\ SameButPaid(o, h.order[i])
      BY <1>0 DEF HubOrder, SameButPaid
    <3> QED  BY <2>0, <3>2, <3>3
  <2> HIDE DEF o
  <2>3. h.claimableTotal + amount \in Int  BY <1>0
  <2>4. /\ Differs(h, g, i) /\ g.order[i] = o /\ g.native = h.native /\ g.escrowed = h.escrowed
        /\ g.accruedFees = h.accruedFees /\ g.claimableTotal = h.claimableTotal + amount
    BY <1>0, <2>1, <2>2, <2>3, WithFacts
  <2> QED  BY <1>0, <2>2, <2>4 DEF OtherClaims
<1>2. CASE CanSend(h, amount) /\ ~(to = "user" /\ i \in Refusers)
  <2> DEFINE paid == IF to = "user" THEN h.order[i].paid + amount ELSE h.order[i].paid
             o == [h.order[i] EXCEPT !.paid = paid]
  <2>1. g = With(h, i, o, h.native - amount, h.escrowed, h.accruedFees, h.claimableTotal, h.supply)
    BY <1>2 DEF Paid, IsHub, With
  <2>2. paid \in Nat /\ h.order[i].owed \in Nat  BY <1>0 DEF HubOrder
  <2> HIDE DEF paid
  <2>3. o \in HubOrder /\ SameButPaid(o, h.order[i]) /\ o.owed = h.order[i].owed
    BY <1>0, <2>2 DEF HubOrder, SameButPaid
  <2>4. h.native - amount \in Nat  BY <1>0, <1>2 DEF CanSend
  <2> HIDE DEF o
  <2> QED  BY <1>0, <2>1, <2>2, <2>3, <2>4, WithFacts DEF OtherClaims
<1> QED BY <1>1, <1>2

\* What is there for the order i changed hands, but no other order lost any of it.
Backed(h, g, i) ==
  /\ Differs(h, g, i)
  /\ OtherEscrow(g, i) = OtherEscrow(h, i)
  /\ OtherClaims(g, i) = OtherClaims(h, i)
  /\ Cover(g, i) >= Cover(h, i)

\* What was decided about the order is the same in both.
SameAnswer(p, o) ==
  /\ p.outcome = o.outcome /\ p.rawOut = o.rawOut
  /\ p.lzSettled = o.lzSettled /\ p.disputed = o.disputed

\* The amounts of a hub are numbers.
LEMMA HubNumbers ==
  ASSUME NEW h, IsHub(h), NEW i \in Ids
  PROVE  /\ h.order[i] \in HubOrder
         /\ h.native \in Nat /\ h.escrowed \in Int /\ h.accruedFees \in Nat
         /\ h.claimableTotal \in Int /\ h.supply \in Nat
         /\ h.order[i].fee \in Nat /\ h.order[i].extra \in Nat /\ h.order[i].held \in Nat
         /\ h.order[i].owed \in Nat /\ h.order[i].amountOut \in Nat
         /\ h.order[i].rawOut \in Nat /\ h.order[i].refundReady \in Nat
         /\ h.order[i].paid \in Nat /\ h.order[i].shares \in Nat
         /\ h.order[i].custodyRaw \in Nat /\ h.order[i].advanced \in BOOLEAN
         /\ Principal \in Nat
<1>1. h.order[i] \in HubOrder  BY DEF IsHub
<1> QED  BY <1>1, HubAssumption DEF IsHub, HubOrder

\* One after the other.
LEMMA BackedTwice ==
  ASSUME NEW f, NEW g, NEW h, NEW i \in Ids, IsHub(f), Backed(f, g, i), Backed(g, h, i)
  PROVE  Backed(f, h, i)
<1>1. /\ Cover(f, i) \in Int /\ Cover(g, i) \in Int /\ Cover(h, i) \in Int
  BY HubNumbers DEF Backed, Differs, Cover, Owed, FeeFor
<1> QED  BY <1>1 DEF Backed, Differs

\* The order o and the totals around it account for the money of the order i of h, when
\* "paid" of it is about to leave.
Balances(h, i, o, native, escrowed, fees, paid) ==
  /\ o.owed = h.order[i].owed
  /\ escrowed - EscrowFor(i, o) = h.escrowed - EscrowFor(i, h.order[i])
  /\ native - escrowed - fees - paid + FeeFor(i, o)
       >= h.native - h.escrowed - h.accruedFees + FeeFor(i, h.order[i])

\* Money of the order i moved between its fields and the totals.
LEMMA Moved ==
  ASSUME NEW h, IsHub(h), NEW i \in Ids, NEW o \in HubOrder, NEW native \in Nat,
         NEW escrowed \in Int, NEW fees \in Nat, NEW supply \in Nat,
         NEW g, g = With(h, i, o, native, escrowed, fees, h.claimableTotal, supply),
         Balances(h, i, o, native, escrowed, fees, 0)
  PROVE  Backed(h, g, i) /\ g.order[i] = o
<1>1. /\ Differs(h, g, i) /\ g.order[i] = o /\ g.native = native /\ g.escrowed = escrowed
      /\ g.accruedFees = fees /\ g.claimableTotal = h.claimableTotal
  BY HubNumbers, WithFacts
<1>2. FeeFor(i, o) \in Int /\ FeeFor(i, h.order[i]) \in Int
  BY HubNumbers DEF FeeFor, HubOrder
<1> QED
  BY <1>1, <1>2, HubNumbers DEF Balances, Backed, OtherEscrow, OtherClaims, Cover, Owed

\* Money of the order i taken off it and paid.
LEMMA MovedAndPaid ==
  ASSUME NEW h, IsHub(h), NEW i \in Ids, NEW o \in HubOrder, NEW native \in Nat,
         NEW escrowed \in Int, NEW fees \in Nat, NEW supply \in Nat, NEW c,
         c = With(h, i, o, native, escrowed, fees, h.claimableTotal, supply),
         NEW to, NEW amount \in Nat, NEW g, g = Paid(c, i, to, amount),
         Balances(h, i, o, native, escrowed, fees, amount)
  PROVE  Backed(h, g, i) /\ SameButPaid(g.order[i], o)
<1>1. /\ Differs(h, c, i) /\ c.order[i] = o /\ c.native = native /\ c.escrowed = escrowed
      /\ c.accruedFees = fees /\ c.claimableTotal = h.claimableTotal
  BY HubNumbers, WithFacts
<1>2. IsHub(c)  BY <1>1 DEF Differs
<1>3. /\ Differs(c, g, i) /\ SameButPaid(g.order[i], o)
      /\ g.escrowed = escrowed /\ g.accruedFees = fees
      /\ OtherClaims(g, i) = OtherClaims(c, i)
      /\ g.native - g.claimableTotal = native - h.claimableTotal - amount
  BY <1>1, <1>2, PaidEffect
<1>4. Differs(h, g, i) /\ IsHub(g)  BY <1>1, <1>3 DEF Differs
<1>5. EscrowFor(i, g.order[i]) = EscrowFor(i, o) /\ FeeFor(i, g.order[i]) = FeeFor(i, o)
  BY <1>3 DEF EscrowFor, FeeFor, SameButPaid
<1>6. OtherEscrow(g, i) = OtherEscrow(h, i)  BY <1>3, <1>5 DEF OtherEscrow, Balances
<1>7. OtherClaims(g, i) = OtherClaims(h, i)  BY <1>1, <1>3 DEF OtherClaims, Balances
<1>8. Cover(g, i) >= Cover(h, i)
  <2>1. FeeFor(i, o) \in Int /\ FeeFor(i, h.order[i]) \in Int
    BY HubNumbers DEF FeeFor, HubOrder
  <2>2. /\ {g.native, g.claimableTotal, native, escrowed, fees, amount} \subseteq Int
        /\ {h.native, h.escrowed, h.accruedFees, h.claimableTotal} \subseteq Int
    BY <1>4, HubNumbers
  <2>3. /\ Cover(g, i) = g.native - (escrowed + fees + g.claimableTotal) + FeeFor(i, o)
        /\ Cover(h, i) = h.native - (h.escrowed + h.accruedFees + h.claimableTotal)
                           + FeeFor(i, h.order[i])
    BY <1>3, <1>5 DEF Cover, Owed
  <2> QED  BY <1>3, <2>1, <2>2, <2>3 DEF Balances
<1> QED  BY <1>3, <1>4, <1>6, <1>7, <1>8 DEF Backed

\* _flushHeld.
LEMMA HeldFlushedEffect ==
  ASSUME NEW h, IsHub(h), NEW i \in Ids, NEW g, g = HeldFlushed(h, i)
  PROVE  /\ Backed(h, g, i) /\ SameAnswer(g.order[i], h.order[i])
         /\ g.order[i].status = h.order[i].status /\ g.order[i].advanced = h.order[i].advanced
         /\ g.order[i].refundReady = h.order[i].refundReady
<1> DEFINE b == h.order[i]
           o == [b EXCEPT !.held = 0]
<1>1. PICK c : c = [h EXCEPT !.order[i].held = 0, !.escrowed = @ - b.held]  OBVIOUS
<1>2. c = With(h, i, o, h.native, h.escrowed - b.held, h.accruedFees, h.claimableTotal, h.supply)
  BY <1>1 DEF IsHub, With
<1>3. g = Paid(c, i, LateTo(h, i, b.held), b.held)  BY <1>1 DEF HeldFlushed
<1>4. /\ o \in HubOrder /\ o.held = 0 /\ o.status = b.status /\ o.fee = b.fee
      /\ o.extra = b.extra /\ o.refundReady = b.refundReady
      /\ o.advanced = b.advanced /\ o.owed = b.owed /\ SameAnswer(o, b)
  BY HubNumbers DEF HubOrder, SameAnswer
<1> HIDE DEF o
<1>5. /\ h.escrowed - b.held \in Int /\ b.held \in Nat
      /\ h.native \in Nat /\ h.accruedFees \in Nat /\ h.supply \in Nat
  BY HubNumbers
<1>6. Balances(h, i, o, h.native, h.escrowed - b.held, h.accruedFees, b.held)
  BY <1>4, HubNumbers DEF Balances, EscrowFor, FeeFor
<1>7. Backed(h, g, i) /\ SameButPaid(g.order[i], o)
  BY ZenonT(30), <1>2, <1>3, <1>4, <1>5, <1>6, MovedAndPaid
<1> QED  BY <1>4, <1>7 DEF SameButPaid, SameAnswer

\* Nothing happened.
LEMMA BackedSelf ==
  ASSUME NEW h, IsHub(h), NEW i \in Ids
  PROVE  Backed(h, h, i)
<1>1. Cover(h, i) \in Int  BY HubNumbers DEF Cover, Owed, FeeFor
<1> QED  BY <1>1 DEF Backed, Differs

\* _payHeldProceeds: the fee comes out of what came back.
LEMMA HeldProceedsPaidEffect ==
  ASSUME NEW h, IsHub(h), NEW i \in Sells, ~h.order[i].advanced, NEW g, g = HeldProceedsPaid(h, i)
  PROVE  /\ Backed(h, g, i) /\ SameAnswer(g.order[i], h.order[i])
         /\ g.order[i].status = h.order[i].status \/ g.order[i].status = "Filled"
         /\ ~g.order[i].advanced /\ g.order[i].refundReady = h.order[i].refundReady
<1> DEFINE b == h.order[i]
           fee == IF b.fee < b.held THEN b.fee ELSE b.held
           o == [b EXCEPT !.held = 0, !.fee = fee, !.amountOut = b.held - fee, !.status = "Filled"]
<1>0. i \in Ids /\ i \notin Buys  BY HubAssumption DEF Ids
<1>1. CASE ~IsBack(b.held, b.amountOut)
  BY <1>0, <1>1, BackedSelf DEF HeldProceedsPaid, SameAnswer
<1>2. CASE IsBack(b.held, b.amountOut)
  <2>1. PICK c : c = [h EXCEPT !.order[i] = o, !.escrowed = @ - b.held, !.accruedFees = @ + fee]
    OBVIOUS
  <2>2. c = With(h, i, o, h.native, h.escrowed - b.held, h.accruedFees + fee, h.claimableTotal,
                 h.supply)
    BY <2>1 DEF IsHub, With
  <2>3. g = Paid(c, i, "user", b.held - fee)  BY <1>2, <2>1 DEF HeldProceedsPaid
  <2>4. fee \in Nat /\ b.held - fee \in Nat /\ b \in HubOrder  BY <1>0, HubNumbers
  <2> HIDE DEF fee
  <2>5. /\ o \in HubOrder /\ o.held = 0 /\ o.status = "Filled" /\ o.extra = b.extra
        /\ o.refundReady = b.refundReady /\ o.advanced = b.advanced /\ o.owed = b.owed
        /\ SameAnswer(o, b)
    BY <2>4 DEF HubOrder, SameAnswer, Statuses
  <2> HIDE DEF o
  <2>6. /\ h.escrowed - b.held \in Int /\ h.accruedFees + fee \in Nat
        /\ h.native \in Nat /\ h.supply \in Nat
    BY <1>0, <2>4, HubNumbers
  <2>7. Balances(h, i, o, h.native, h.escrowed - b.held, h.accruedFees + fee, b.held - fee)
    BY <1>0, <2>4, <2>5, HubNumbers DEF Balances, EscrowFor, FeeFor
  <2>8. Backed(h, g, i) /\ SameButPaid(g.order[i], o)
    BY <1>0, <2>2, <2>3, <2>4, <2>5, <2>6, <2>7, MovedAndPaid
  <2> QED  BY <2>5, <2>8 DEF SameButPaid, SameAnswer
<1> QED  BY <1>1, <1>2

\* _closeReturnedBuy: the whole pool goes to the buyer; of a reward buy the principal
\* stays, ready to be claimed.
LEMMA ReturnedBuyClosedEffect ==
  ASSUME NEW h, IsHub(h), NEW i \in Buys, NEW force \in BOOLEAN, NEW g,
         g = ReturnedBuyClosed(h, i, force),
         h.order[i].status = "Returning", h.order[i].refundReady = 0
  PROVE  /\ Backed(h, g, i) /\ SameAnswer(g.order[i], h.order[i])
         /\ g.order[i].advanced = h.order[i].advanced
         /\ \/ g.order[i].status = "Cancelled"
            \/ g.order[i].status = "Returning" /\ g.order[i].refundReady = 0
<1> DEFINE b == h.order[i]
<1>1. i \in Ids /\ i \notin Sells /\ b \in HubOrder  BY HubAssumption, HubNumbers DEF Ids
<1>2. PICK pool : pool = b.held + b.fee + b.extra  OBVIOUS
<1>3. pool \in Nat /\ Principal \in Nat  BY <1>1, <1>2, HubNumbers
<1>4. CASE g = h  BY <1>1, <1>4, BackedSelf DEF SameAnswer
<1>5. PICK o : o = [b EXCEPT !.status = "Cancelled", !.held = 0, !.extra = 0, !.fee = 0]
  OBVIOUS
<1>6. o \in HubOrder
  <2>1. "Cancelled" \in Statuses  BY DEF Statuses
  <2> QED  BY ZenonT(30), <1>1, <1>5, <2>1 DEF HubOrder
<1>7. /\ o.held = 0 /\ o.status = "Cancelled" /\ o.extra = 0 /\ o.fee = 0
      /\ o.refundReady = b.refundReady /\ o.advanced = b.advanced /\ o.owed = b.owed
      /\ SameAnswer(o, b)
  BY <1>1, <1>5 DEF HubOrder, SameAnswer
<1>8. PICK c : c = [h EXCEPT !.order[i] = o]  OBVIOUS
<1>9. ASSUME NEW d, d = [c EXCEPT !.escrowed = @ - pool], g = Paid(d, i, "user", pool)
      PROVE  /\ Backed(h, g, i) /\ SameButPaid(g.order[i], o)
  <2>1. d = With(h, i, o, h.native, h.escrowed - pool, h.accruedFees, h.claimableTotal, h.supply)
    BY <1>8, <1>9 DEF IsHub, With
  <2>2. /\ h.escrowed - pool \in Int /\ h.accruedFees \in Nat /\ h.native \in Nat
        /\ h.supply \in Nat
    BY <1>1, <1>3, HubNumbers
  <2>3. Balances(h, i, o, h.native, h.escrowed - pool, h.accruedFees, pool)
    BY <1>1, <1>2, <1>3, <1>7, HubNumbers DEF Balances, EscrowFor, FeeFor, KeepsFee
  <2>4. g = Paid(d, i, "user", pool)  BY <1>9
  <2> QED  BY <1>1, <1>3, <1>6, <2>1, <2>2, <2>3, <2>4, MovedAndPaid
<1>10. PICK rest : rest = pool - Principal  OBVIOUS
<1>11. PICK p : p = [o EXCEPT !.refundReady = Principal]  OBVIOUS
<1>12. p \in HubOrder  BY <1>3, <1>6, <1>11 DEF HubOrder
<1>13. /\ p.held = 0 /\ p.status = "Cancelled" /\ p.extra = 0 /\ p.fee = 0
       /\ p.refundReady = Principal /\ p.advanced = b.advanced /\ p.owed = b.owed
       /\ SameAnswer(p, b)
  BY <1>6, <1>7, <1>11 DEF HubOrder, SameAnswer
<1>14. ASSUME pool >= Principal,
              NEW d, d = [c EXCEPT !.order[i].refundReady = Principal, !.escrowed = @ - rest],
              g = Paid(d, i, "ops", rest)
       PROVE  Backed(h, g, i) /\ SameButPaid(g.order[i], p)
  <2>1. d = With(h, i, p, h.native, h.escrowed - rest, h.accruedFees, h.claimableTotal, h.supply)
    BY <1>8, <1>11, <1>14 DEF IsHub, With
  <2>2. /\ h.escrowed - rest \in Int /\ h.accruedFees \in Nat /\ h.native \in Nat
        /\ h.supply \in Nat /\ rest \in Nat
    BY <1>1, <1>3, <1>10, <1>14, HubNumbers
  <2>3. Balances(h, i, p, h.native, h.escrowed - rest, h.accruedFees, rest)
    BY <1>1, <1>2, <1>3, <1>10, <1>13, HubNumbers DEF Balances, EscrowFor, FeeFor, KeepsFee
  <2>4. g = Paid(d, i, "ops", rest)  BY <1>14
  <2> QED  BY <1>1, <1>12, <2>1, <2>2, <2>3, <2>4, MovedAndPaid
<1>15. \/ g = h
       \/ g = Paid([c EXCEPT !.escrowed = @ - pool], i, "user", pool)
       \/ /\ pool >= Principal
          /\ g = Paid([c EXCEPT !.order[i].refundReady = Principal, !.escrowed = @ - rest],
                      i, "ops", rest)
  BY <1>1, <1>2, <1>3, <1>5, <1>8, <1>10 DEF ReturnedBuyClosed
<1> QED  BY <1>4, <1>7, <1>9, <1>13, <1>14, <1>15 DEF SameButPaid, SameAnswer

\* refundBuy: everything goes back; of a reward buy the principal waits to be claimed.
LEMMA BuyRefundedEffect ==
  ASSUME NEW h, IsHub(h), NEW i \in Buys, NEW g, g = BuyRefunded(h, i),
         h.order[i].status = "Pending", h.order[i].refundReady = 0
  PROVE  /\ Backed(h, g, i) /\ SameAnswer(g.order[i], h.order[i])
         /\ g.order[i].advanced = h.order[i].advanced
         /\ g.order[i].status = "Cancelled"
<1> DEFINE b == h.order[i]
<1>1. i \in Ids /\ i \notin Sells /\ b \in HubOrder  BY HubAssumption, HubNumbers DEF Ids
<1>2. PICK rest : rest = b.fee + b.extra + b.held  OBVIOUS
<1>3. PICK amount : amount = Principal + b.fee + b.extra + b.held  OBVIOUS
<1>4. /\ rest \in Nat /\ amount \in Nat /\ Principal \in Nat
      /\ amount = Principal + rest /\ amount - Principal = rest
  BY <1>1, <1>2, <1>3, HubNumbers
<1>5. PICK o : o = [b EXCEPT !.status = "Cancelled", !.extra = 0, !.held = 0]  OBVIOUS
<1>6. o \in HubOrder  BY ZenonT(30), <1>1, <1>5 DEF HubOrder, Statuses
<1>7. /\ o.held = 0 /\ o.status = "Cancelled" /\ o.extra = 0 /\ o.refundReady = b.refundReady
      /\ o.advanced = b.advanced /\ o.owed = b.owed /\ SameAnswer(o, b)
  BY <1>1, <1>5 DEF HubOrder, SameAnswer
<1>8. PICK c : c = [h EXCEPT !.order[i].status = "Cancelled", !.order[i].extra = 0,
                             !.order[i].held = 0, !.escrowed = @ - amount]
  OBVIOUS
<1>9. /\ h.accruedFees \in Nat /\ h.native \in Nat /\ h.supply \in Nat
      /\ h.escrowed - amount \in Int /\ h.escrowed - amount + Principal \in Int
  BY <1>1, <1>4, HubNumbers
<1>10. CASE Lane(i) # 1
  <2>1. c = With(h, i, o, h.native, h.escrowed - amount, h.accruedFees, h.claimableTotal, h.supply)
    BY <1>5, <1>8 DEF IsHub, With
  <2>2. g = Paid(c, i, "user", amount)  BY <1>3, <1>8, <1>10 DEF BuyRefunded
  <2>3. Balances(h, i, o, h.native, h.escrowed - amount, h.accruedFees, amount)
    BY <1>1, <1>2, <1>4, <1>7, HubNumbers DEF Balances, EscrowFor, FeeFor, KeepsFee
  <2>4. Backed(h, g, i) /\ SameButPaid(g.order[i], o)
    BY <1>1, <1>4, <1>6, <1>9, <2>1, <2>2, <2>3, MovedAndPaid
  <2> QED  BY <1>7, <2>4 DEF SameButPaid, SameAnswer
<1>11. CASE Lane(i) = 1
  <2>1. PICK p : p = [o EXCEPT !.refundReady = Principal]  OBVIOUS
  <2>2. p \in HubOrder  BY <1>4, <1>6, <2>1 DEF HubOrder
  <2>3. /\ p.held = 0 /\ p.status = "Cancelled" /\ p.extra = 0 /\ p.refundReady = Principal
        /\ p.advanced = b.advanced /\ p.owed = b.owed /\ SameAnswer(p, b)
    BY <1>6, <1>7, <2>1 DEF HubOrder, SameAnswer
  <2>4. PICK d : d = [c EXCEPT !.order[i].refundReady = Principal, !.escrowed = @ + Principal]
    OBVIOUS
  <2>5. d = With(h, i, p, h.native, h.escrowed - amount + Principal, h.accruedFees,
                 h.claimableTotal, h.supply)
    BY ZenonT(30), <1>5, <1>8, <2>1, <2>4 DEF IsHub, With
  <2>6. g = Paid(d, i, "ops", rest)
    <3>1. g = Paid(d, i, "ops", amount - Principal)
      BY <1>3, <1>8, <1>11, <2>4 DEF BuyRefunded
    <3> QED  BY <1>4, <3>1
  <2>7. Balances(h, i, p, h.native, h.escrowed - amount + Principal, h.accruedFees, rest)
    BY <1>1, <1>2, <1>4, <2>3, HubNumbers DEF Balances, EscrowFor, FeeFor, KeepsFee
  <2>8. Backed(h, g, i) /\ SameButPaid(g.order[i], p)
    BY <1>1, <1>4, <1>9, <2>2, <2>5, <2>6, <2>7, MovedAndPaid
  <2> QED  BY <2>3, <2>8 DEF SameButPaid, SameAnswer
<1> QED  BY <1>10, <1>11

\* escalateFunds of an answered order: what Arc holds of it goes back.
LEMMA FundsTakenEffect ==
  ASSUME NEW h, IsHub(h), NEW i \in Ids, NEW g, g = FundsTaken(h, i), ~h.order[i].advanced,
         h.order[i].status = IF i \in Buys THEN "Returning" ELSE "Proceeds",
         h.order[i].refundReady = 0
  PROVE  /\ Backed(h, g, i) /\ SameAnswer(g.order[i], h.order[i])
         /\ ~g.order[i].advanced /\ g.order[i].refundReady = 0
         /\ g.order[i].status = "Escalated"
<1> DEFINE b == h.order[i]
<1>0. b \in HubOrder  BY HubNumbers
<1>1. i \in Buys => i \notin Sells  BY HubAssumption
<1>2. h.accruedFees \in Nat /\ h.native \in Nat /\ h.supply \in Nat  BY HubNumbers
<1>3. CASE i \in Buys
  <2>1. PICK amount : amount = b.held + b.fee + b.extra  OBVIOUS
  <2>2. amount \in Nat /\ h.escrowed - amount \in Int  BY <2>1, HubNumbers
  <2>3. PICK o : o = [b EXCEPT !.status = "Escalated", !.held = 0, !.fee = 0, !.extra = 0]
    OBVIOUS
  <2>4. o \in HubOrder
    <3>1. "Escalated" \in Statuses  BY DEF Statuses
    <3> QED  BY ZenonT(30), <1>0, <2>3, <3>1 DEF HubOrder
  <2>5. /\ o.held = 0 /\ o.status = "Escalated" /\ o.extra = 0 /\ o.fee = 0
        /\ o.refundReady = 0 /\ o.advanced = b.advanced /\ o.owed = b.owed /\ SameAnswer(o, b)
    BY <1>0, <2>3 DEF HubOrder, SameAnswer
  <2>6. PICK c : c = [h EXCEPT !.order[i].status = "Escalated", !.order[i].held = 0]  OBVIOUS
  <2>7. PICK d : d = [c EXCEPT !.order[i].fee = 0, !.order[i].extra = 0, !.escrowed = @ - amount]
    OBVIOUS
  <2>8. d = With(h, i, o, h.native, h.escrowed - amount, h.accruedFees, h.claimableTotal, h.supply)
    BY ZenonT(30), <2>3, <2>6, <2>7 DEF IsHub, With
  <2>9. g = Paid(d, i, "user", amount)  BY <1>3, <2>1, <2>6, <2>7 DEF FundsTaken
  <2>10. Balances(h, i, o, h.native, h.escrowed - amount, h.accruedFees, amount)
    BY <1>1, <1>3, <2>1, <2>2, <2>5, HubNumbers DEF Balances, EscrowFor, FeeFor, KeepsFee
  <2>11. Backed(h, g, i) /\ SameButPaid(g.order[i], o)
    BY <1>2, <2>2, <2>4, <2>8, <2>9, <2>10, MovedAndPaid
  <2> QED  BY <2>5, <2>11 DEF SameButPaid, SameAnswer
<1>4. CASE i \notin Buys
  <2>1. PICK part : part = IF b.fee < b.held THEN b.fee ELSE b.held  OBVIOUS
  <2>2. /\ part \in Nat /\ b.held - part \in Nat /\ b.fee - part \in Nat
        /\ h.escrowed - b.held \in Int /\ h.accruedFees + b.fee \in Nat
        /\ h.native + (b.fee - part) \in Nat
    BY <2>1, HubNumbers
  <2>3. PICK o : o = [b EXCEPT !.status = "Escalated", !.held = 0]  OBVIOUS
  <2>4. o \in HubOrder  BY ZenonT(30), <1>0, <2>3 DEF HubOrder, Statuses
  <2>5. /\ o.held = 0 /\ o.status = "Escalated" /\ o.extra = b.extra /\ o.fee = b.fee
        /\ o.refundReady = 0 /\ o.advanced = b.advanced /\ o.owed = b.owed /\ SameAnswer(o, b)
    BY <1>0, <2>3 DEF HubOrder, SameAnswer
  <2>6. PICK c : c = [h EXCEPT !.order[i].status = "Escalated", !.order[i].held = 0]  OBVIOUS
  <2>7. PICK d : d = [c EXCEPT !.escrowed = @ - b.held, !.accruedFees = @ + b.fee,
                               !.native = @ + (b.fee - part)]
    OBVIOUS
  <2>8. d = With(h, i, o, h.native + (b.fee - part), h.escrowed - b.held, h.accruedFees + b.fee,
                 h.claimableTotal, h.supply)
    BY <2>3, <2>6, <2>7 DEF IsHub, With
  <2>9. g = Paid(d, i, "user", b.held - part)  BY <1>4, <2>1, <2>6, <2>7 DEF FundsTaken
  <2>10. Balances(h, i, o, h.native + (b.fee - part), h.escrowed - b.held,
                  h.accruedFees + b.fee, b.held - part)
    BY <1>1, <1>4, <2>2, <2>5, HubNumbers DEF Balances, EscrowFor, FeeFor, KeepsFee
  <2>11. Backed(h, g, i) /\ SameButPaid(g.order[i], o)
    BY <1>2, <2>2, <2>4, <2>8, <2>9, <2>10, MovedAndPaid
  <2> QED  BY <2>5, <2>11 DEF SameButPaid, SameAnswer
<1> QED  BY <1>3, <1>4

-----------------------------------------------------------------------------
(* One order after a step.                                                 *)

\* The strengthening: a state of an order that its history allows.  Only a cancelled
\* reward buy has a refund ready; the float advanced a cancelled buy or a filled sell,
\* nothing else; a fast lane that settled the order left an outcome, and a queued order
\* has none.
OrderOK(i, o) ==
  /\ o.status = "None" => o = NoOrder
  /\ o.refundReady # 0 => o.status = "Cancelled"
  /\ o.advanced => \/ i \in Buys /\ o.status = "Cancelled"
                   \/ i \in Sells /\ o.status = "Filled" /\ o.outcome = 2
  /\ o.status = "Returning" => i \in Buys
  /\ o.status = "Proceeds" => i \in Sells
  /\ o.lzSettled => o.outcome # 0
  /\ o.status = "Pending" => o.outcome = 0

\* An order that exists stays, and one that left the queue does not return to it.
Follows(i, p, o) ==
  /\ OrderOK(i, o)
  /\ o.status # "None"
  /\ o.status = "Pending" => p.status \in {"None", "Pending"}

\* A step about the order i: the money of the others is as it was, and so is what covers
\* the debts, or it is enough.
Sound(h, g, i) ==
  /\ Differs(h, g, i)
  /\ OtherEscrow(g, i) = OtherEscrow(h, i)
  /\ OtherClaims(g, i) = OtherClaims(h, i)
  /\ Cover(g, i) >= Cover(h, i) \/ Cover(g, i) >= 0
  /\ Follows(i, h.order[i], g.order[i])

\* A sound step that answers nothing.
Quiet(h, g, i) == Sound(h, g, i) /\ SameAnswer(g.order[i], h.order[i])

\* Money that only changed hands is sound if the order is.
LEMMA BackedIsSound ==
  ASSUME NEW h, NEW g, NEW i \in Ids, Backed(h, g, i), Follows(i, h.order[i], g.order[i])
  PROVE  Sound(h, g, i)
BY DEF Backed, Sound

\* receiveReturn.
LEMMA ReturnedEffect ==
  ASSUME NEW h, IsHub(h), NEW i \in Ids, NEW amount \in Nat, NEW g, g = Returned(h, i, amount),
         OrderOK(i, h.order[i]), h.order[i].status # "None"
  PROVE  Quiet(h, g, i)
<1> DEFINE b == h.order[i]
<1>1. b \in HubOrder  BY HubNumbers
<1>2. /\ h.accruedFees \in Nat /\ h.native + amount \in Nat /\ h.supply \in Nat
      /\ h.escrowed \in Int /\ h.escrowed + amount \in Int /\ b.held + amount \in Nat
  BY HubNumbers
<1>3. PICK f : f = [h EXCEPT !.native = @ + amount]  OBVIOUS
<1>4. f = With(h, i, b, h.native + amount, h.escrowed, h.accruedFees, h.claimableTotal, h.supply)
  BY <1>3 DEF IsHub, With
<1>5. SameAnswer(b, b)  BY DEF SameAnswer
<1>6. Backed(h, f, i) /\ f.order[i] = b
  <2>1. Balances(h, i, b, h.native + amount, h.escrowed, h.accruedFees, 0)
    BY <1>1, <1>2, HubNumbers DEF Balances, EscrowFor, FeeFor
  <2> QED  BY <1>1, <1>2, <1>4, <2>1, Moved
<1>7. PICK o : o = [b EXCEPT !.held = @ + amount]  OBVIOUS
<1>8. o \in HubOrder  BY <1>1, <1>2, <1>7 DEF HubOrder
<1>9. /\ o.held = b.held + amount /\ o.status = b.status /\ o.fee = b.fee /\ o.extra = b.extra
      /\ o.refundReady = b.refundReady /\ o.advanced = b.advanced /\ o.owed = b.owed
      /\ o.outcome = b.outcome /\ SameAnswer(o, b)
  BY <1>1, <1>7 DEF HubOrder, SameAnswer
<1>10. PICK k : k = [f EXCEPT !.escrowed = @ + amount, !.order[i].held = @ + amount]  OBVIOUS
<1>11. k = With(h, i, o, h.native + amount, h.escrowed + amount, h.accruedFees,
                h.claimableTotal, h.supply)
  BY <1>3, <1>7, <1>10 DEF IsHub, With
<1>12. Backed(h, k, i) /\ k.order[i] = o
  <2>1. Balances(h, i, o, h.native + amount, h.escrowed + amount, h.accruedFees, 0)
    BY <1>1, <1>2, <1>9, HubNumbers DEF Balances, EscrowFor, FeeFor
  <2> QED  BY <1>2, <1>8, <1>11, <2>1, Moved
<1>13. IsHub(k) /\ IsHub(f)  BY <1>6, <1>12 DEF Backed, Differs
<1>14. CASE b.advanced
  <2>1. g = f  BY <1>3, <1>14 DEF Returned
  <2> QED  BY <1>5, <1>6, <2>1, BackedIsSound DEF Quiet, Follows
<1>15. CASE ~b.advanced /\ b.status = "Returning"
  <2>1. g = ReturnedBuyClosed(k, i, FALSE)  BY <1>3, <1>10, <1>15 DEF Returned
  <2>2. i \in Buys /\ o.status = "Returning" /\ o.refundReady = 0 /\ ~o.advanced
    BY <1>9, <1>15 DEF OrderOK
  <2>3. /\ Backed(k, g, i) /\ SameAnswer(g.order[i], o) /\ ~g.order[i].advanced
        /\ \/ g.order[i].status = "Cancelled"
           \/ g.order[i].status = "Returning" /\ g.order[i].refundReady = 0
    <3>1. k.order[i].status = "Returning" /\ k.order[i].refundReady = 0 /\ k.order[i] = o
      BY <1>12, <2>2
    <3>2. /\ Backed(k, g, i) /\ SameAnswer(g.order[i], k.order[i])
          /\ g.order[i].advanced = k.order[i].advanced
          /\ \/ g.order[i].status = "Cancelled"
             \/ g.order[i].status = "Returning" /\ g.order[i].refundReady = 0
      BY <1>13, <2>1, <2>2, <3>1, ReturnedBuyClosedEffect
    <3> QED  BY <2>2, <3>1, <3>2
  <2>4. SameAnswer(g.order[i], b)  BY <1>9, <2>3 DEF SameAnswer
  <2>5. Follows(i, b, g.order[i])
    BY <2>2, <2>3, <2>4 DEF Follows, OrderOK, SameAnswer
  <2>6. Backed(h, g, i)  BY <1>12, <2>3, BackedTwice
  <2> QED  BY <2>4, <2>5, <2>6, BackedIsSound DEF Quiet
<1>16. CASE ~b.advanced /\ b.status = "Proceeds"
  <2>1. g = HeldProceedsPaid(k, i)  BY <1>3, <1>10, <1>16 DEF Returned
  <2>2. i \in Sells /\ o.status = "Proceeds" /\ o.refundReady = 0 /\ ~o.advanced
    BY <1>9, <1>16 DEF OrderOK
  <2>3. /\ Backed(k, g, i) /\ SameAnswer(g.order[i], o) /\ ~g.order[i].advanced
        /\ g.order[i].status = "Proceeds" \/ g.order[i].status = "Filled"
        /\ g.order[i].refundReady = 0
    BY <1>12, <1>13, <2>1, <2>2, HeldProceedsPaidEffect
  <2>4. SameAnswer(g.order[i], b)  BY <1>9, <2>3 DEF SameAnswer
  <2>5. Follows(i, b, g.order[i])
    BY <2>2, <2>3, <2>4 DEF Follows, OrderOK, SameAnswer
  <2>6. Backed(h, g, i)  BY <1>12, <2>3, BackedTwice
  <2> QED  BY <2>4, <2>5, <2>6, BackedIsSound DEF Quiet
<1>17. CASE g = k
  <2>1. Follows(i, b, o)  BY <1>9 DEF Follows, OrderOK, SameAnswer
  <2> QED  BY <1>9, <1>12, <1>17, <2>1, BackedIsSound DEF Quiet
<1>18. ASSUME NEW to, g = Paid(f, i, to, amount)
       PROVE  Quiet(h, g, i)
  <2>1. Balances(h, i, b, h.native + amount, h.escrowed, h.accruedFees, amount)
    BY <1>1, <1>2, HubNumbers DEF Balances, EscrowFor, FeeFor
  <2>2. g = Paid(f, i, to, amount)  BY <1>18
  <2>3. Backed(h, g, i) /\ SameButPaid(g.order[i], b)
    BY <1>1, <1>2, <1>4, <2>1, <2>2, MovedAndPaid
  <2>4. Follows(i, b, g.order[i]) /\ SameAnswer(g.order[i], b)
    BY <2>3 DEF Follows, OrderOK, SameButPaid, SameAnswer
  <2> QED  BY <2>3, <2>4, BackedIsSound DEF Quiet
<1>19. \/ b.advanced
       \/ ~b.advanced /\ b.status = "Returning"
       \/ ~b.advanced /\ b.status = "Proceeds"
       \/ g = k
       \/ g = Paid(f, i, LateTo(h, i, amount), amount)
  BY <1>3, <1>10 DEF Returned
<1> QED  BY <1>14, <1>15, <1>16, <1>17, <1>18, <1>19

-----------------------------------------------------------------------------
(* The answer of an order: settle.                                         *)

\* What the answer r of the vault is applied as.
Code(outcome) == CASE outcome = "Bought" -> 1 [] outcome = "Sold" -> 2 [] outcome = "Failed" -> 3

\* A step that gives the order i its answer.
Answers(h, g, i, outcome, raw) ==
  /\ Sound(h, g, i)
  /\ g.order[i].outcome = outcome /\ g.order[i].rawOut = raw
  /\ g.order[i].disputed = h.order[i].disputed

\* A sell's fee is no more than what the sale brought.
LEMMA FeeOfSale ==
  ASSUME NEW gross \in Nat
  PROVE  /\ (gross * FeeBps) \div BPS \in Nat
         /\ gross - (gross * FeeBps) \div BPS \in Nat
<1>1. FeeBps \in Nat /\ BPS \in Nat /\ BPS > 0 /\ FeeBps <= BPS
  BY HubAssumption, CapacityAssumption
<1>2. gross * FeeBps \in Nat /\ gross * FeeBps <= gross * BPS
  BY <1>1
<1>3. (gross * BPS) \div BPS = gross  BY <1>1
<1>4. (gross * FeeBps) \div BPS <= (gross * BPS) \div BPS
  BY <1>1, <1>2
<1> QED  BY <1>1, <1>2, <1>3, <1>4

\* Two records of one order that differ at most in lzSettled and in amounts paid or kept
\* by the user.
SameButMarked(p, o) ==
  /\ p.status = o.status /\ p.fee = o.fee /\ p.extra = o.extra /\ p.held = o.held
  /\ p.owed = o.owed /\ p.amountOut = o.amountOut /\ p.rawOut = o.rawOut
  /\ p.outcome = o.outcome /\ p.disputed = o.disputed /\ p.advanced = o.advanced
  /\ p.refundReady = o.refundReady

\* _markSettled.
LEMMA LzMarkedEffect ==
  ASSUME NEW h, IsHub(h), NEW i \in Ids, NEW canonical \in BOOLEAN, NEW g,
         g = LzMarked(h, i, canonical)
  PROVE  /\ Backed(h, g, i) /\ SameButMarked(g.order[i], h.order[i])
         /\ g.native = h.native /\ g.escrowed = h.escrowed /\ g.accruedFees = h.accruedFees
         /\ g.claimableTotal = h.claimableTotal /\ g.supply = h.supply
<1> DEFINE b == h.order[i]
<1>1. CASE canonical
  BY <1>1, BackedSelf DEF LzMarked, SameButMarked
<1>2. CASE ~canonical
  <2>1. PICK o : o = [b EXCEPT !.lzSettled = TRUE]  OBVIOUS
  <2>2. g = With(h, i, o, h.native, h.escrowed, h.accruedFees, h.claimableTotal, h.supply)
    BY <1>2, <2>1 DEF LzMarked, IsHub, With
  <2>3. b \in HubOrder  BY HubNumbers
  <2>4. o \in HubOrder  BY <2>1, <2>3 DEF HubOrder
  <2>5. SameButMarked(o, b)  BY <2>1, <2>3 DEF HubOrder, SameButMarked
  <2>6. Balances(h, i, o, h.native, h.escrowed, h.accruedFees, 0)
    BY <2>5, HubNumbers DEF Balances, SameButMarked, EscrowFor, FeeFor
  <2>7. Backed(h, g, i) /\ g.order[i] = o  BY <2>2, <2>4, <2>6, HubNumbers, Moved
  <2>8. /\ g.native = h.native /\ g.escrowed = h.escrowed /\ g.accruedFees = h.accruedFees
        /\ g.claimableTotal = h.claimableTotal /\ g.supply = h.supply
    BY <2>2 DEF With
  <2> QED  BY <2>5, <2>7, <2>8
<1> QED  BY <1>1, <1>2

\* A buy that was filled: the fee is earned, the unused reserve and what came back of
\* it are paid, and a reward buy's stock waits in custody.
LEMMA BoughtAppliedEffect ==
  ASSUME NEW h, IsHub(h), NEW i \in Buys, NEW raw \in Nat, NEW canonical \in BOOLEAN, NEW g,
         g = BoughtApplied(h, i, raw, canonical), OrderOK(i, h.order[i]),
         h.order[i].status \in {"Dispatched", "Escalated"}
  PROVE  Answers(h, g, i, 1, raw)
<1> DEFINE b == h.order[i]
<1>1. i \in Ids /\ i \notin Sells /\ b \in HubOrder  BY HubAssumption, HubNumbers DEF Ids
<1>2. PICK m : m = Minted(h, i, raw, Lane(i) = 0)  OBVIOUS
<1>3. PICK shares : shares = IF Lane(i) = 0 THEN b.shares + raw ELSE b.shares  OBVIOUS
<1>4. PICK k : k = [b EXCEPT !.shares = shares]  OBVIOUS
<1>5. m = With(h, i, k, h.native, h.escrowed, h.accruedFees, h.claimableTotal, h.supply + raw)
  BY <1>2, <1>3, <1>4 DEF Minted, IsHub, With
<1>6. PICK custody : custody = IF Lane(i) = 1 THEN raw ELSE k.custodyRaw  OBVIOUS
<1>7. PICK o : o = [k EXCEPT !.status = "Filled", !.amountOut = raw, !.rawOut = raw,
                             !.outcome = 1, !.extra = 0, !.custodyRaw = custody]
  OBVIOUS
<1>8. o \in HubOrder
  <2>1. shares \in Nat  BY <1>1, <1>3, HubNumbers
  <2>2. k \in HubOrder  BY <1>1, <1>4, <2>1 DEF HubOrder
  <2>3. custody \in Nat  BY <1>6, <2>2 DEF HubOrder
  <2>4. PICK j : j = [k EXCEPT !.status = "Filled", !.amountOut = raw, !.rawOut = raw]  OBVIOUS
  <2>5. j \in HubOrder  BY <2>2, <2>4 DEF HubOrder, Statuses
  <2>6. o = [j EXCEPT !.outcome = 1, !.extra = 0, !.custodyRaw = custody]
    BY <1>7, <2>4
  <2>7. 1 \in 0..3  OBVIOUS
  <2> QED  BY <2>3, <2>5, <2>6, <2>7 DEF HubOrder
<1>9. /\ o.held = b.held /\ o.status = "Filled" /\ o.extra = 0 /\ o.fee = b.fee
      /\ o.refundReady = b.refundReady /\ o.advanced = b.advanced /\ o.owed = b.owed
      /\ o.outcome = 1 /\ o.rawOut = raw /\ o.disputed = b.disputed
  BY <1>1, <1>4, <1>7 DEF HubOrder
<1>10. PICK c : c = [m EXCEPT !.order[i] = o, !.escrowed = @ - b.fee - b.extra,
                              !.accruedFees = @ + b.fee]
  OBVIOUS
<1>kept. m.order[i] = k  BY <1>1, <1>5 DEF IsHub, With
<1>with. c = With(h, i, o, h.native, h.escrowed - b.fee - b.extra, h.accruedFees + b.fee,
                h.claimableTotal, h.supply + raw)
  BY <1>1, <1>5, <1>10 DEF IsHub, With
<1>11. PICK d : d = Paid(c, i, Beneficiary(i), b.extra)  OBVIOUS
<1>12. PICK e : e = HeldFlushed(d, i)  OBVIOUS
<1>13. g = LzMarked(e, i, canonical)
  BY <1>2, <1>6, <1>7, <1>10, <1>kept, <1>11, <1>12 DEF BoughtApplied
<1>14. /\ h.native \in Nat /\ h.escrowed - b.fee - b.extra \in Int /\ b.extra \in Nat
       /\ h.accruedFees + b.fee \in Nat /\ h.supply + raw \in Nat
  BY <1>1, HubNumbers
<1>15. Balances(h, i, o, h.native, h.escrowed - b.fee - b.extra, h.accruedFees + b.fee, b.extra)
  BY <1>1, <1>9, HubNumbers DEF Balances, EscrowFor, FeeFor, KeepsFee
<1>16. Backed(h, d, i) /\ SameButPaid(d.order[i], o)
  BY <1>1, <1>8, <1>with, <1>11, <1>14, <1>15, MovedAndPaid
<1>17. IsHub(d)  BY <1>16 DEF Backed, Differs
<1>18. /\ Backed(d, e, i) /\ SameAnswer(e.order[i], d.order[i])
       /\ e.order[i].status = d.order[i].status /\ e.order[i].advanced = d.order[i].advanced
       /\ e.order[i].refundReady = d.order[i].refundReady
  BY <1>1, <1>12, <1>17, HeldFlushedEffect
<1>19. IsHub(e)  BY <1>18 DEF Backed, Differs
<1>20. Backed(e, g, i) /\ SameButMarked(g.order[i], e.order[i])
  BY <1>1, <1>13, <1>19, LzMarkedEffect
<1>21. Backed(h, g, i)
  <2>1. Backed(h, e, i)  BY <1>1, <1>16, <1>18, BackedTwice
  <2> QED  BY <1>1, <1>20, <2>1, BackedTwice
<1>22. ~b.advanced /\ b.refundReady = 0  BY <1>1 DEF OrderOK
<1>23. /\ g.order[i].status = "Filled" /\ ~g.order[i].advanced /\ g.order[i].refundReady = 0
       /\ g.order[i].outcome = 1 /\ g.order[i].rawOut = raw
       /\ g.order[i].disputed = b.disputed
  BY <1>9, <1>16, <1>18, <1>20, <1>22 DEF SameButPaid, SameAnswer, SameButMarked
<1>24. Follows(i, b, g.order[i])  BY <1>23 DEF Follows, OrderOK
<1> QED  BY <1>1, <1>21, <1>23, <1>24, BackedIsSound DEF Answers

\* The float lends what is paid: what is left covers the debts.
LEMMA LentAndPaid ==
  ASSUME NEW h, IsHub(h), NEW i \in Ids, NEW o \in HubOrder,
         NEW escrowed \in Int, NEW fees \in Nat, NEW c,
         c = With(h, i, o, h.native, escrowed, fees, h.claimableTotal, h.supply),
         NEW to, NEW amount \in Nat, NEW g, g = Paid(c, i, to, amount),
         o.owed = h.order[i].owed,
         escrowed - EscrowFor(i, o) = h.escrowed - EscrowFor(i, h.order[i]),
         h.native - escrowed - fees - h.claimableTotal - amount + FeeFor(i, o) >= 0
  PROVE  /\ Differs(h, g, i) /\ SameButPaid(g.order[i], o)
         /\ OtherEscrow(g, i) = OtherEscrow(h, i) /\ OtherClaims(g, i) = OtherClaims(h, i)
         /\ Cover(g, i) >= 0
<1>1. /\ Differs(h, c, i) /\ c.order[i] = o /\ c.native = h.native /\ c.escrowed = escrowed
      /\ c.accruedFees = fees /\ c.claimableTotal = h.claimableTotal
  BY HubNumbers, WithFacts
<1>2. IsHub(c)  BY <1>1 DEF Differs
<1>3. /\ Differs(c, g, i) /\ SameButPaid(g.order[i], o)
      /\ g.escrowed = escrowed /\ g.accruedFees = fees
      /\ OtherClaims(g, i) = OtherClaims(c, i)
      /\ g.native - g.claimableTotal = h.native - h.claimableTotal - amount
  BY <1>1, <1>2, PaidEffect
<1>4. Differs(h, g, i) /\ IsHub(g)  BY <1>1, <1>3 DEF Differs
<1>5. EscrowFor(i, g.order[i]) = EscrowFor(i, o) /\ FeeFor(i, g.order[i]) = FeeFor(i, o)
  BY <1>3 DEF EscrowFor, FeeFor, SameButPaid
<1>6. OtherEscrow(g, i) = OtherEscrow(h, i)  BY <1>3, <1>5 DEF OtherEscrow
<1>7. OtherClaims(g, i) = OtherClaims(h, i)  BY <1>1, <1>3 DEF OtherClaims
<1>8. Cover(g, i) >= 0
  <2>1. FeeFor(i, o) \in Int  BY DEF FeeFor, HubOrder
  <2>2. /\ g.native \in Int /\ g.claimableTotal \in Int /\ h.native \in Int
        /\ h.claimableTotal \in Int
    BY <1>4, HubNumbers
  <2>3. Cover(g, i) = g.native - (escrowed + fees + g.claimableTotal) + FeeFor(i, o)
    BY <1>3, <1>5 DEF Cover, Owed
  <2> QED  BY <1>3, <2>1, <2>2, <2>3
<1> QED  BY <1>3, <1>4, <1>6, <1>7, <1>8

\* A step on the order after one that answered it.
LEMMA AnsweredThen ==
  ASSUME NEW f, NEW g, NEW h, NEW i \in Ids, IsHub(f),
         Backed(f, g, i),
         Differs(g, h, i), OtherEscrow(h, i) = OtherEscrow(g, i),
         OtherClaims(h, i) = OtherClaims(g, i), Cover(h, i) >= Cover(g, i) \/ Cover(h, i) >= 0,
         Follows(i, f.order[i], h.order[i])
  PROVE  Sound(f, h, i)
<1>1. /\ Cover(f, i) \in Int /\ Cover(g, i) \in Int /\ Cover(h, i) \in Int
  BY HubNumbers DEF Backed, Differs, Cover, Owed, FeeFor
<1> QED  BY <1>1 DEF Backed, Differs, Sound

\* A sell that was executed: paid from what came back, from the float, or later.
LEMMA SoldAppliedEffect ==
  ASSUME NEW h, IsHub(h), NEW i \in Sells, NEW gross \in Nat, NEW canonical \in BOOLEAN,
         NEW allowed \in BOOLEAN, NEW g, g = SoldApplied(h, i, gross, canonical, allowed),
         OrderOK(i, h.order[i]), h.order[i].outcome = 0,
         h.order[i].status \in {"Pending", "Dispatched", "Escalated"}
  PROVE  Answers(h, g, i, 2, gross)
<1> DEFINE b == h.order[i]
<1>1. i \in Ids /\ i \notin Buys /\ b \in HubOrder  BY HubAssumption, HubNumbers DEF Ids
<1>2. ~b.advanced /\ b.refundReady = 0  BY <1>1 DEF OrderOK
<1>3. PICK fee : fee = (gross * FeeBps) \div BPS  OBVIOUS
<1>4. PICK net : net = gross - fee  OBVIOUS
<1>5. fee \in Nat /\ net \in Nat  BY <1>3, <1>4, FeeOfSale
<1>6. PICK o : o = [b EXCEPT !.fee = fee, !.rawOut = gross, !.outcome = 2]  OBVIOUS
<1>7. o \in HubOrder
  <2>1. 2 \in 0..3  OBVIOUS
  <2> QED  BY ZenonT(30), <1>1, <1>5, <1>6, <2>1 DEF HubOrder
<1>8. /\ o.held = b.held /\ o.status = b.status /\ o.extra = b.extra /\ o.fee = fee
      /\ o.refundReady = 0 /\ ~o.advanced /\ o.owed = b.owed
      /\ o.outcome = 2 /\ o.rawOut = gross /\ o.disputed = b.disputed
  BY <1>1, <1>2, <1>6 DEF HubOrder
<1>9. PICK f : f = [h EXCEPT !.order[i] = o]  OBVIOUS
<1>10. f = With(h, i, o, h.native, h.escrowed, h.accruedFees, h.claimableTotal, h.supply)
  BY <1>9 DEF IsHub, With
<1>11. Backed(h, f, i) /\ f.order[i] = o
  <2>1. Balances(h, i, o, h.native, h.escrowed, h.accruedFees, 0)
    BY <1>1, <1>2, <1>8, HubNumbers DEF Balances, EscrowFor, FeeFor
  <2> QED  BY <1>1, <1>7, <1>10, <2>1, HubNumbers, Moved
<1>12. IsHub(f)  BY <1>11 DEF Backed, Differs
<1>13. PICK c : c = LzMarked(f, i, canonical)  OBVIOUS
<1>14. /\ Backed(f, c, i) /\ SameButMarked(c.order[i], o)
       /\ c.native = h.native /\ c.escrowed = h.escrowed /\ c.accruedFees = h.accruedFees
       /\ c.claimableTotal = h.claimableTotal /\ c.supply = h.supply
  <2>1. /\ f.native = h.native /\ f.escrowed = h.escrowed /\ f.accruedFees = h.accruedFees
        /\ f.claimableTotal = h.claimableTotal /\ f.supply = h.supply
    BY <1>10 DEF With
  <2>2. /\ Backed(f, c, i) /\ SameButMarked(c.order[i], f.order[i])
        /\ c.native = f.native /\ c.escrowed = f.escrowed /\ c.accruedFees = f.accruedFees
        /\ c.claimableTotal = f.claimableTotal /\ c.supply = f.supply
    BY <1>1, <1>12, <1>13, LzMarkedEffect
  <2> QED  BY <1>11, <2>1, <2>2
<1>15. Backed(h, c, i) /\ IsHub(c)
  BY <1>1, <1>11, <1>14, BackedTwice DEF Backed, Differs
<1>16. PICK q : q = c.order[i]  OBVIOUS
<1>17. q \in HubOrder  BY <1>1, <1>15, <1>16, HubNumbers
<1>18. /\ q.held = b.held /\ q.status = b.status /\ q.extra = b.extra /\ q.fee = fee
       /\ q.refundReady = 0 /\ ~q.advanced /\ q.owed = b.owed
       /\ q.outcome = 2 /\ q.rawOut = gross /\ q.disputed = b.disputed
  BY <1>8, <1>14, <1>16 DEF SameButMarked
<1>19. ASSUME gross = 0
       PROVE  Answers(h, g, i, 2, gross)
  <2>1. PICK p : p = [q EXCEPT !.status = "Filled"]  OBVIOUS
  <2>2. p \in HubOrder  BY <1>17, <2>1 DEF HubOrder, Statuses
  <2>3. /\ p.held = b.held /\ p.status = "Filled" /\ p.extra = b.extra /\ p.fee = fee
        /\ p.refundReady = 0 /\ ~p.advanced /\ p.owed = b.owed
        /\ p.outcome = 2 /\ p.rawOut = gross /\ p.disputed = b.disputed
    BY <1>17, <1>18, <2>1 DEF HubOrder
  <2>4. PICK d : d = [c EXCEPT !.order[i].status = "Filled"]  OBVIOUS
  <2>5. d = With(c, i, p, c.native, c.escrowed, c.accruedFees, c.claimableTotal, c.supply)
    BY <1>15, <1>16, <2>1, <2>4 DEF IsHub, With
  <2>6. Backed(c, d, i) /\ d.order[i] = p
    <3>1. Balances(c, i, p, c.native, c.escrowed, c.accruedFees, 0)
      BY <1>1, <1>15, <1>16, <1>18, <2>3, HubNumbers DEF Balances, EscrowFor, FeeFor
    <3> QED  BY <1>1, <1>15, <2>2, <2>5, <3>1, HubNumbers, Moved
  <2>7. IsHub(d)  BY SMTT(30), <2>6 DEF Backed, Differs
  <2>8. g = HeldFlushed(d, i)
    BY <1>3, <1>6, <1>9, <1>13, <1>19, <2>4 DEF SoldApplied
  <2>9. /\ Backed(d, g, i) /\ SameAnswer(g.order[i], d.order[i])
        /\ g.order[i].status = d.order[i].status /\ g.order[i].advanced = d.order[i].advanced
        /\ g.order[i].refundReady = d.order[i].refundReady
    BY <1>1, <2>7, <2>8, HeldFlushedEffect
  <2>10. Backed(h, g, i)  BY <1>1, <1>15, <2>6, <2>9, BackedTwice
  <2>11. /\ g.order[i].status = "Filled" /\ ~g.order[i].advanced /\ g.order[i].refundReady = 0
         /\ g.order[i].outcome = 2 /\ g.order[i].rawOut = gross
         /\ g.order[i].disputed = b.disputed
    BY <2>3, <2>6, <2>9 DEF SameAnswer
  <2>12. Follows(i, b, g.order[i])  BY <2>11 DEF Follows, OrderOK
  <2> QED  BY <1>1, <2>10, <2>11, <2>12, BackedIsSound DEF Answers
<1>20. PICK p : p = [q EXCEPT !.amountOut = net, !.status = "Proceeds"]  OBVIOUS
<1>21. p \in HubOrder  BY ZenonT(30), <1>5, <1>17, <1>20 DEF HubOrder, Statuses
<1>22. /\ p.held = b.held /\ p.status = "Proceeds" /\ p.extra = b.extra /\ p.fee = fee
       /\ p.refundReady = 0 /\ ~p.advanced /\ p.owed = b.owed
       /\ p.outcome = 2 /\ p.rawOut = gross /\ p.disputed = b.disputed
  BY <1>17, <1>18, <1>20 DEF HubOrder
<1>23. PICK owing : owing = [c EXCEPT !.order[i].amountOut = net, !.order[i].status = "Proceeds"]
  OBVIOUS
<1>24. owing = With(c, i, p, c.native, c.escrowed, c.accruedFees, c.claimableTotal, c.supply)
  BY <1>15, <1>16, <1>20, <1>23 DEF IsHub, With
<1>25. Backed(c, owing, i) /\ owing.order[i] = p
  <2>1. Balances(c, i, p, c.native, c.escrowed, c.accruedFees, 0)
    BY <1>1, <1>15, <1>16, <1>18, <1>22, HubNumbers DEF Balances, EscrowFor, FeeFor
  <2> QED  BY <1>1, <1>15, <1>21, <1>24, <2>1, HubNumbers, Moved
<1>26. IsHub(owing) /\ Backed(h, owing, i)
  BY <1>1, <1>15, <1>25, BackedTwice DEF Backed, Differs
<1>27. CASE g = owing
  <2>1. Follows(i, b, p)  BY <1>22 DEF Follows, OrderOK
  <2> QED  BY <1>1, <1>22, <1>25, <1>26, <1>27, <2>1, BackedIsSound DEF Answers
<1>28. CASE g = HeldProceedsPaid(owing, i)
  <2>1. /\ Backed(owing, g, i) /\ SameAnswer(g.order[i], p)
        /\ g.order[i].status = "Proceeds" \/ g.order[i].status = "Filled"
        /\ ~g.order[i].advanced /\ g.order[i].refundReady = 0
    BY <1>22, <1>25, <1>26, <1>28, HeldProceedsPaidEffect
  <2>2. Backed(h, g, i)  BY <1>1, <1>26, <2>1, BackedTwice
  <2>3. /\ g.order[i].outcome = 2 /\ g.order[i].rawOut = gross
        /\ g.order[i].disputed = b.disputed
    BY <1>22, <2>1 DEF SameAnswer
  <2>4. Follows(i, b, g.order[i])  BY <2>1, <2>3 DEF Follows, OrderOK
  <2> QED  BY <1>1, <2>2, <2>3, <2>4, BackedIsSound DEF Answers
<1>29. ASSUME ~IsBack(b.held, net), Available(h) >= net,
              NEW d, d = [owing EXCEPT !.escrowed = @ - b.held, !.order[i].held = 0,
                                       !.order[i].advanced = TRUE, !.order[i].status = "Filled",
                                       !.accruedFees = @ + fee],
              g = Paid(d, i, "user", net)
       PROVE  Answers(h, g, i, 2, gross)
  <2>1. PICK z : z = [p EXCEPT !.held = 0, !.advanced = TRUE, !.status = "Filled"]  OBVIOUS
  <2>2. z \in HubOrder  BY ZenonT(30), <1>21, <2>1 DEF HubOrder, Statuses
  <2>3. /\ z.held = 0 /\ z.status = "Filled" /\ z.extra = b.extra /\ z.fee = fee
        /\ z.refundReady = 0 /\ z.advanced /\ z.owed = b.owed
        /\ z.outcome = 2 /\ z.rawOut = gross /\ z.disputed = b.disputed
    BY <1>21, <1>22, <2>1 DEF HubOrder
  <2>4. /\ owing.native = h.native /\ owing.escrowed = h.escrowed
        /\ owing.accruedFees = h.accruedFees /\ owing.claimableTotal = h.claimableTotal
    BY <1>14, <1>24 DEF With
  <2>5. d = With(owing, i, z, owing.native, owing.escrowed - b.held, owing.accruedFees + fee,
                 owing.claimableTotal, owing.supply)
    BY ZenonT(30), <1>25, <1>26, <1>29, <2>1 DEF IsHub, With
  <2>6. /\ owing.native \in Nat /\ owing.escrowed - b.held \in Int
        /\ owing.accruedFees + fee \in Nat /\ owing.supply \in Nat /\ b.held \in Nat
        /\ b.extra \in Nat /\ owing.claimableTotal \in Int
        /\ owing.escrowed \in Int /\ owing.accruedFees \in Nat
    BY <1>1, <1>5, <1>26, HubNumbers
  <2>7. EscrowFor(i, z) = b.extra /\ EscrowFor(i, p) = b.extra + b.held
        /\ FeeFor(i, z) = fee /\ FeeFor(i, p) = 0
    BY <1>1, <1>22, <2>3, <2>6 DEF EscrowFor, FeeFor
  <2>8. g = Paid(d, i, "user", net)  BY <1>29
  <2>9. /\ Differs(owing, g, i) /\ SameButPaid(g.order[i], z)
        /\ OtherEscrow(g, i) = OtherEscrow(owing, i)
        /\ OtherClaims(g, i) = OtherClaims(owing, i)
        /\ Cover(g, i) >= Cover(owing, i) \/ Cover(g, i) >= 0
    <3>1. CASE net = 0
      <4>1. b.held = 0  BY <1>29, <2>6, <3>1 DEF IsBack
      <4>2. Balances(owing, i, z, owing.native, owing.escrowed - b.held,
                     owing.accruedFees + fee, net)
        <5>1. z.owed = owing.order[i].owed /\ owing.order[i] = p  BY <1>22, <1>25, <2>3
        <5> QED  BY <1>5, <2>6, <2>7, <3>1, <4>1, <5>1 DEF Balances
      <4>3. Backed(owing, g, i) /\ SameButPaid(g.order[i], z)
        BY <1>1, <1>5, <1>26, <2>2, <2>5, <2>6, <2>8, <4>2, MovedAndPaid
      <4> QED  BY <4>3 DEF Backed
    <3>2. CASE net # 0
      <4>1. h.native - Owed(h) >= net
        BY <1>1, <1>5, <1>29, <3>2, HubNumbers DEF Available, Owed
      <4>2. owing.native - (owing.escrowed - b.held) - (owing.accruedFees + fee)
              - owing.claimableTotal - net + FeeFor(i, z) >= 0
        <5>1. owing.native - (owing.escrowed + owing.accruedFees + owing.claimableTotal) >= net
          BY <2>4, <4>1 DEF Owed
        <5> QED  BY <1>5, <2>6, <2>7, <5>1
      <4>3. owing.escrowed - b.held - EscrowFor(i, z) = owing.escrowed - EscrowFor(i, owing.order[i])
        <5>1. owing.order[i] = p  BY <1>25
        <5> QED  BY <2>6, <2>7, <5>1
      <4>4. z.owed = owing.order[i].owed  BY <1>22, <1>25, <2>3
      <4>5. PICK e : e = owing.escrowed - b.held  OBVIOUS
      <4>6. PICK fees : fees = owing.accruedFees + fee  OBVIOUS
      <4>7. e \in Int /\ fees \in Nat  BY <2>6, <4>5, <4>6
      <4>8. d = With(owing, i, z, owing.native, e, fees, owing.claimableTotal, owing.supply)
        BY <2>5, <4>5, <4>6
      <4>9. e - EscrowFor(i, z) = owing.escrowed - EscrowFor(i, owing.order[i])
        BY <4>3, <4>5
      <4>10. owing.native - e - fees - owing.claimableTotal - net + FeeFor(i, z) >= 0
        BY <4>2, <4>5, <4>6
      <4> QED
        BY <1>1, <1>5, <1>26, <2>2, <2>8, <4>4, <4>7, <4>8, <4>9, <4>10, LentAndPaid
    <3> QED  BY <3>1, <3>2
  <2>10. /\ g.order[i].status = "Filled" /\ g.order[i].refundReady = 0
         /\ g.order[i].outcome = 2 /\ g.order[i].rawOut = gross
         /\ g.order[i].disputed = b.disputed
    BY <2>3, <2>9 DEF SameButPaid
  <2>11. Follows(i, b, g.order[i])  BY SMTT(30), <2>10 DEF Follows, OrderOK
  <2> QED  BY <1>1, <1>26, <2>9, <2>10, <2>11, AnsweredThen DEF Answers
<1>30. \/ gross = 0
       \/ g = owing
       \/ g = HeldProceedsPaid(owing, i)
       \/ /\ ~IsBack(b.held, net) /\ Available(h) >= net
          /\ g = Paid([owing EXCEPT !.escrowed = @ - b.held, !.order[i].held = 0,
                                    !.order[i].advanced = TRUE, !.order[i].status = "Filled",
                                    !.accruedFees = @ + fee], i, "user", net)
  <2>1. o.held = b.held  BY <1>8
  <2> QED  BY ZenonT(30), <1>3, <1>4, <1>6, <1>9, <1>13, <1>23, <2>1 DEF SoldApplied
<1> QED  BY <1>19, <1>27, <1>28, <1>29, <1>30

\* A buy the float refunded was bought after all.
LEMMA OrphanedEffect ==
  ASSUME NEW h, IsHub(h), NEW i \in Buys, NEW raw \in Nat, NEW canonical \in BOOLEAN, NEW g,
         g = Orphaned(h, i, raw, canonical), OrderOK(i, h.order[i]),
         h.order[i].status = "Cancelled"
  PROVE  Answers(h, g, i, 1, raw)
<1> DEFINE b == h.order[i]
<1>1. i \in Ids /\ i \notin Sells /\ b \in HubOrder  BY HubAssumption, HubNumbers DEF Ids
<1>2. PICK m : m = Minted(h, i, raw, FALSE)  OBVIOUS
<1>k. PICK k : k = [b EXCEPT !.shares = @]  OBVIOUS
<1>3. m = With(h, i, k, h.native, h.escrowed, h.accruedFees, h.claimableTotal, h.supply + raw)
  BY <1>2, <1>k DEF Minted, IsHub, With
<1>4. PICK o : o = [k EXCEPT !.orphaned = TRUE, !.rawOut = raw, !.outcome = 1]  OBVIOUS
<1>5. o \in HubOrder
  <2>1. 1 \in 0..3  OBVIOUS
  <2>2. k \in HubOrder  BY <1>1, <1>k DEF HubOrder
  <2> QED  BY <1>4, <2>1, <2>2 DEF HubOrder
<1>6. /\ o.held = b.held /\ o.status = b.status /\ o.extra = b.extra /\ o.fee = b.fee
      /\ o.refundReady = b.refundReady /\ o.advanced = b.advanced /\ o.owed = b.owed
      /\ o.outcome = 1 /\ o.rawOut = raw /\ o.disputed = b.disputed
  BY <1>1, <1>k, <1>4 DEF HubOrder
<1>7. PICK c : c = [m EXCEPT !.order[i].orphaned = TRUE, !.order[i].rawOut = raw,
                             !.order[i].outcome = 1]
  OBVIOUS
<1>8. c = With(h, i, o, h.native, h.escrowed, h.accruedFees, h.claimableTotal, h.supply + raw)
  BY <1>3, <1>4, <1>7 DEF IsHub, With
<1>9. /\ h.native \in Nat /\ h.escrowed \in Int /\ h.accruedFees \in Nat /\ h.supply + raw \in Nat
  BY <1>1, HubNumbers
<1>10. Backed(h, c, i) /\ c.order[i] = o
  <2>1. Balances(h, i, o, h.native, h.escrowed, h.accruedFees, 0)
    BY <1>1, <1>6, HubNumbers DEF Balances, EscrowFor, FeeFor
  <2> QED  BY <1>1, <1>5, <1>8, <1>9, <2>1, Moved
<1>11. IsHub(c)  BY <1>10 DEF Backed, Differs
<1>12. g = LzMarked(c, i, canonical)  BY <1>2, <1>7 DEF Orphaned
<1>13. Backed(c, g, i) /\ SameButMarked(g.order[i], o)
  BY <1>1, <1>10, <1>11, <1>12, LzMarkedEffect
<1>14. Backed(h, g, i)  BY <1>1, <1>10, <1>13, BackedTwice
<1>15. /\ g.order[i].status = "Cancelled"
       /\ g.order[i].outcome = 1 /\ g.order[i].rawOut = raw
       /\ g.order[i].disputed = b.disputed
  BY <1>6, <1>13 DEF SameButMarked
<1>16. Follows(i, b, g.order[i])  BY <1>15 DEF Follows, OrderOK
<1> QED  BY <1>1, <1>14, <1>15, <1>16, BackedIsSound DEF Answers

\* A buy that failed: its money is on the way back, unless the float refunded it.
LEMMA BuyFailedEffect ==
  ASSUME IsHub(hub), NEW i \in Buys, NEW canonical \in BOOLEAN, NEW g,
         g = BuyFailed(hub, i, canonical), OrderOK(i, Order(i)),
         ~FloatCancelled(i) => Order(i).status \in {"Dispatched", "Escalated"}
  PROVE  Answers(hub, g, i, 3, 0)
<1>0. PICK b : b = hub.order[i]  OBVIOUS
<1>1. i \in Ids /\ i \notin Sells /\ b \in HubOrder
  BY <1>0, HubAssumption, HubNumbers DEF Ids
<1>2. PICK o : o = [b EXCEPT !.outcome = 3, !.rawOut = 0]  OBVIOUS
<1>3. o \in HubOrder
  <2>1. 3 \in 0..3  OBVIOUS
  <2> QED  BY <1>1, <1>2, <2>1 DEF HubOrder
<1>4. /\ o.held = b.held /\ o.status = b.status /\ o.extra = b.extra /\ o.fee = b.fee
      /\ o.refundReady = b.refundReady /\ o.advanced = b.advanced /\ o.owed = b.owed
      /\ o.outcome = 3 /\ o.rawOut = 0 /\ o.disputed = b.disputed
  BY <1>1, <1>2 DEF HubOrder
<1>5. PICK f : f = [hub EXCEPT !.order[i].outcome = 3, !.order[i].rawOut = 0]  OBVIOUS
<1>6. f = With(hub, i, o, hub.native, hub.escrowed, hub.accruedFees, hub.claimableTotal, hub.supply)
  BY <1>0, <1>2, <1>5 DEF IsHub, With
<1>7. Backed(hub, f, i) /\ f.order[i] = o
  <2>1. Balances(hub, i, o, hub.native, hub.escrowed, hub.accruedFees, 0)
    BY <1>0, <1>1, <1>4, HubNumbers DEF Balances, EscrowFor, FeeFor
  <2> QED  BY <1>1, <1>3, <1>6, <2>1, HubNumbers, Moved
<1>8. PICK c : c = LzMarked(f, i, canonical)  OBVIOUS
<1>9. Backed(f, c, i) /\ SameButMarked(c.order[i], o)
  <2>1. IsHub(f)  BY <1>7 DEF Backed, Differs
  <2> QED  BY <1>1, <1>7, <1>8, <2>1, LzMarkedEffect
<1>10. Backed(hub, c, i) /\ IsHub(c)  BY <1>1, <1>7, <1>9, BackedTwice DEF Backed, Differs
<1>11. CASE FloatCancelled(i)
  <2>1. g = c  BY <1>5, <1>8, <1>11 DEF BuyFailed
  <2>2. /\ g.order[i].status = "Cancelled"
        /\ g.order[i].outcome = 3 /\ g.order[i].rawOut = 0 /\ g.order[i].disputed = b.disputed
    BY <1>0, <1>4, <1>9, <1>11, <2>1 DEF SameButMarked, FloatCancelled, Order
  <2>3. Follows(i, b, g.order[i])  BY <2>2 DEF Follows, OrderOK
  <2> QED  BY <1>0, <1>1, <1>10, <2>1, <2>2, <2>3, BackedIsSound DEF Answers
<1>12. CASE ~FloatCancelled(i)
  <2>1. b.status \in {"Dispatched", "Escalated"} /\ ~b.advanced /\ b.refundReady = 0
    BY <1>0, <1>1, <1>12 DEF OrderOK, Order
  <2>2. PICK q : q = c.order[i]  OBVIOUS
  <2>3. q \in HubOrder  BY <1>1, <1>10, <2>2, HubNumbers
  <2>4. PICK p : p = [q EXCEPT !.status = "Returning"]  OBVIOUS
  <2>5. p \in HubOrder  BY <2>3, <2>4 DEF HubOrder, Statuses
  <2>6. /\ p.held = q.held /\ p.status = "Returning" /\ p.extra = q.extra /\ p.fee = q.fee
        /\ p.refundReady = 0 /\ ~p.advanced /\ p.owed = q.owed /\ p.refundReady = q.refundReady
        /\ p.outcome = 3 /\ p.rawOut = 0 /\ p.disputed = b.disputed
    <3>1. /\ q.refundReady = 0 /\ ~q.advanced /\ q.outcome = 3 /\ q.rawOut = 0
          /\ q.disputed = b.disputed
      BY <1>4, <1>9, <2>1, <2>2 DEF SameButMarked
    <3> QED  BY <2>3, <2>4, <3>1 DEF HubOrder
  <2>7. q.status \in {"Dispatched", "Escalated"} /\ ~q.advanced
    BY <1>4, <1>9, <2>1, <2>2 DEF SameButMarked
  <2>8. PICK d : d = [c EXCEPT !.order[i].status = "Returning"]  OBVIOUS
  <2>9. d = With(c, i, p, c.native, c.escrowed, c.accruedFees, c.claimableTotal, c.supply)
    BY <1>10, <2>2, <2>4, <2>8 DEF IsHub, With
  <2>10. Backed(c, d, i) /\ d.order[i] = p
    <3>1. /\ EscrowFor(i, p) = EscrowFor(i, q) /\ FeeFor(i, p) = FeeFor(i, q)
      BY <1>1, <2>6, <2>7 DEF EscrowFor, FeeFor, KeepsFee
    <3>2. FeeFor(i, q) = 0  BY <1>1 DEF FeeFor
    <3>3. Balances(c, i, p, c.native, c.escrowed, c.accruedFees, 0)
      BY <1>1, <1>10, <2>2, <2>6, <3>1, <3>2, HubNumbers DEF Balances
    <3> QED  BY <1>1, <1>10, <2>5, <2>9, <3>3, HubNumbers, Moved
  <2>11. IsHub(d)  BY <2>10 DEF Backed, Differs
  <2>12. PICK force \in BOOLEAN : force = (b.status = "Escalated")  OBVIOUS
  <2>13. g = ReturnedBuyClosed(d, i, force)
    BY <1>0, <1>5, <1>8, <1>12, <2>8, <2>12 DEF BuyFailed
  <2>14. d.order[i].status = "Returning" /\ d.order[i].refundReady = 0
    BY <2>6, <2>10
  <2>15. /\ Backed(d, g, i) /\ SameAnswer(g.order[i], d.order[i])
         /\ g.order[i].advanced = d.order[i].advanced
         /\ \/ g.order[i].status = "Cancelled"
            \/ g.order[i].status = "Returning" /\ g.order[i].refundReady = 0
    BY <2>11, <2>13, <2>14, ReturnedBuyClosedEffect
  <2>16. Backed(hub, g, i)  BY <1>1, <1>10, <2>10, <2>15, BackedTwice
  <2>17. /\ g.order[i].outcome = 3 /\ g.order[i].rawOut = 0 /\ g.order[i].disputed = b.disputed
         /\ ~g.order[i].advanced
    BY <2>6, <2>10, <2>15 DEF SameAnswer
  <2>18. Follows(i, b, g.order[i])  BY <2>15, <2>17 DEF Follows, OrderOK
  <2> QED  BY <1>0, <1>1, <2>16, <2>17, <2>18, BackedIsSound DEF Answers
<1> QED  BY <1>11, <1>12

\* A sell that failed: the user has the shares again, and what came back of it.
LEMMA SellFailedEffect ==
  ASSUME NEW h, IsHub(h), NEW i \in Sells, NEW canonical \in BOOLEAN, NEW g,
         g = SellFailed(h, i, canonical), ~h.order[i].advanced
  PROVE  Answers(h, g, i, 3, 0)
<1> DEFINE b == h.order[i]
<1>1. i \in Ids /\ i \notin Buys /\ b \in HubOrder  BY HubAssumption, HubNumbers DEF Ids
<1>2. PICK k : k = [b EXCEPT !.outcome = 3, !.rawOut = 0, !.status = "Cancelled"]  OBVIOUS
<1>3. k \in HubOrder
  <2>1. 3 \in 0..3  OBVIOUS
  <2> QED  BY <1>1, <1>2, <2>1 DEF HubOrder, Statuses
<1>4. PICK c : c = [h EXCEPT !.order[i].outcome = 3, !.order[i].rawOut = 0,
                             !.order[i].status = "Cancelled"]
  OBVIOUS
<1>5. c = With(h, i, k, h.native, h.escrowed, h.accruedFees, h.claimableTotal, h.supply)
  BY <1>2, <1>4 DEF IsHub, With
<1>6. PICK o : o = [k EXCEPT !.shares = @ + SharesIn]  OBVIOUS
<1>7. SharesIn \in Nat /\ h.supply + SharesIn \in Nat /\ k.shares + SharesIn \in Nat
  BY <1>1, <1>3, HubNumbers, HubAssumption DEF HubOrder
<1>8. o \in HubOrder  BY <1>3, <1>6, <1>7 DEF HubOrder
<1>9. /\ o.held = b.held /\ o.status = "Cancelled" /\ o.extra = b.extra /\ o.fee = b.fee
      /\ o.refundReady = b.refundReady /\ o.advanced = b.advanced /\ o.owed = b.owed
      /\ o.outcome = 3 /\ o.rawOut = 0 /\ o.disputed = b.disputed
  BY <1>1, <1>2, <1>6 DEF HubOrder
<1>10. PICK m : m = Minted(c, i, SharesIn, TRUE)  OBVIOUS
<1>11. m = With(h, i, o, h.native, h.escrowed, h.accruedFees, h.claimableTotal,
                h.supply + SharesIn)
  BY <1>5, <1>6, <1>10 DEF Minted, IsHub, With
<1>12. Backed(h, m, i) /\ m.order[i] = o
  <2>1. Balances(h, i, o, h.native, h.escrowed, h.accruedFees, 0)
    BY <1>1, <1>9, HubNumbers DEF Balances, EscrowFor, FeeFor
  <2> QED  BY <1>1, <1>7, <1>8, <1>11, <2>1, HubNumbers, Moved
<1>13. IsHub(m)  BY <1>12 DEF Backed, Differs
<1>14. PICK e : e = LzMarked(m, i, canonical)  OBVIOUS
<1>15. Backed(m, e, i) /\ SameButMarked(e.order[i], o)
  BY <1>1, <1>12, <1>13, <1>14, LzMarkedEffect
<1>16. IsHub(e)  BY <1>15 DEF Backed, Differs
<1>17. g = HeldFlushed(e, i)  BY <1>4, <1>10, <1>14 DEF SellFailed
<1>18. /\ Backed(e, g, i) /\ SameAnswer(g.order[i], e.order[i])
       /\ g.order[i].status = e.order[i].status /\ g.order[i].advanced = e.order[i].advanced
       /\ g.order[i].refundReady = e.order[i].refundReady
  BY <1>1, <1>16, <1>17, HeldFlushedEffect
<1>19. Backed(h, g, i)  BY <1>1, <1>12, <1>15, <1>18, BackedTwice
<1>20. /\ g.order[i].status = "Cancelled" /\ ~g.order[i].advanced
       /\ g.order[i].outcome = 3 /\ g.order[i].rawOut = 0 /\ g.order[i].disputed = b.disputed
  BY <1>9, <1>15, <1>18 DEF SameAnswer, SameButMarked
<1>21. Follows(i, b, g.order[i])  BY <1>20 DEF Follows, OrderOK
<1> QED  BY <1>1, <1>19, <1>20, <1>21, BackedIsSound DEF Answers

-----------------------------------------------------------------------------
(* The other steps of an order.                                            *)

\* A change of the record that no money moves with.
LEMMA Noted ==
  ASSUME NEW h, IsHub(h), NEW i \in Ids, NEW o, o.owed = h.order[i].owed,
         EscrowFor(i, o) = EscrowFor(i, h.order[i]), FeeFor(i, o) = FeeFor(i, h.order[i])
  PROVE  Balances(h, i, o, h.native, h.escrowed, h.accruedFees, 0)
<1>1. /\ EscrowFor(i, h.order[i]) \in Int /\ FeeFor(i, h.order[i]) \in Int
  BY HubNumbers DEF EscrowFor, FeeFor
<1> QED  BY <1>1, HubNumbers DEF Balances

\* The writes of the entry points, each on its own.
WithStatus(h, i, st) == [h EXCEPT !.order[i].status = st]
SellPlaced(h, i, st) == [h EXCEPT !.supply = @ - SharesIn, !.order[i].status = st]

\* A new status, within the statuses that hold the same money.
LEMMA StatusChanged ==
  ASSUME NEW h, IsHub(h), NEW i \in Ids, NEW st \in Statuses, NEW g,
         g = WithStatus(h, i, st),
         ~h.order[i].advanced, h.order[i].refundReady = 0,
         i \in Buys => st \in KeepsFee \ {"Pending"} /\ h.order[i].status \in KeepsFee \ {"Pending"},
         st \notin {"None", "Pending", "Returning", "Proceeds"},
         h.order[i].lzSettled => h.order[i].outcome # 0
  PROVE  /\ Quiet(h, g, i)
         /\ \E o \in HubOrder :
              /\ g = With(h, i, o, h.native, h.escrowed, h.accruedFees, h.claimableTotal, h.supply)
              /\ o = [h.order[i] EXCEPT !.status = st]
<1> DEFINE b == h.order[i]
<1>1. b \in HubOrder  BY HubNumbers
<1>2. PICK o : o = [b EXCEPT !.status = st]  OBVIOUS
<1>3. o \in HubOrder  BY <1>1, <1>2 DEF HubOrder
<1>4. /\ o.held = b.held /\ o.status = st /\ o.extra = b.extra /\ o.fee = b.fee
      /\ o.refundReady = 0 /\ ~o.advanced /\ o.owed = b.owed /\ SameAnswer(o, b)
  BY <1>1, <1>2 DEF HubOrder, SameAnswer
<1>5. g = With(h, i, o, h.native, h.escrowed, h.accruedFees, h.claimableTotal, h.supply)
  BY <1>2 DEF WithStatus, IsHub, With
<1>6. EscrowFor(i, o) = EscrowFor(i, b) /\ FeeFor(i, o) = FeeFor(i, b)
  BY <1>4 DEF EscrowFor, FeeFor, KeepsFee
<1>7. Backed(h, g, i) /\ g.order[i] = o
  <2>1. Balances(h, i, o, h.native, h.escrowed, h.accruedFees, 0)  BY <1>4, <1>6, Noted
  <2> QED  BY <1>3, <1>5, <2>1, HubNumbers, Moved
<1>8. Follows(i, b, o)  BY <1>4 DEF Follows, OrderOK, SameAnswer
<1> QED  BY <1>2, <1>3, <1>4, <1>5, <1>7, <1>8, BackedIsSound DEF Quiet

\* requestBuy, beginFunding.
LEMMA PlacedBuyEffect ==
  ASSUME NEW h, IsHub(h), NEW i \in Buys, h.order[i] = NoOrder, NEW g, g = PlacedBuy(h, i)
  PROVE  Quiet(h, g, i)
<1>1. i \in Ids /\ i \notin Sells  BY HubAssumption DEF Ids
<1>2. BuyFee \in Nat /\ Extra \in Nat /\ Principal \in Nat  BY HubAssumption
<1>3. PICK o : o = [NoOrder EXCEPT !.status = "Pending", !.fee = BuyFee, !.extra = Extra]  OBVIOUS
<1>4. o \in HubOrder
  <2>1. 0 \in 0..3  OBVIOUS
  <2>2. NoOrder \in HubOrder  BY <2>1 DEF NoOrder, HubOrder, Statuses
  <2> QED  BY <1>2, <1>3, <2>2 DEF HubOrder, Statuses
<1>5. /\ o.held = 0 /\ o.status = "Pending" /\ o.extra = Extra /\ o.fee = BuyFee
      /\ o.refundReady = 0 /\ ~o.advanced /\ o.owed = 0 /\ ~o.lzSettled /\ o.outcome = 0
      /\ SameAnswer(o, NoOrder)
  BY <1>3 DEF NoOrder, SameAnswer
<1>6. /\ NoOrder.held = 0 /\ NoOrder.status = "None" /\ NoOrder.extra = 0 /\ NoOrder.fee = 0
      /\ NoOrder.refundReady = 0 /\ NoOrder.owed = 0
  BY DEF NoOrder
<1>7. g = With(h, i, o, h.native + Principal + BuyFee + Extra,
               h.escrowed + Principal + BuyFee + Extra, h.accruedFees, h.claimableTotal, h.supply)
  BY <1>3 DEF PlacedBuy, IsHub, With
<1>8. /\ h.native + Principal + BuyFee + Extra \in Nat
      /\ h.escrowed + Principal + BuyFee + Extra \in Int
      /\ h.native \in Nat /\ h.escrowed \in Int /\ h.accruedFees \in Nat /\ h.supply \in Nat
  BY <1>1, <1>2, HubNumbers
<1>9. /\ EscrowFor(i, o) = Principal + BuyFee + Extra /\ EscrowFor(i, h.order[i]) = 0
      /\ FeeFor(i, o) = 0 /\ FeeFor(i, h.order[i]) = 0
  BY <1>1, <1>2, <1>5, <1>6 DEF EscrowFor, FeeFor, KeepsFee
<1>10. Backed(h, g, i) /\ g.order[i] = o
  <2>1. Balances(h, i, o, h.native + Principal + BuyFee + Extra,
                 h.escrowed + Principal + BuyFee + Extra, h.accruedFees, 0)
    BY <1>2, <1>5, <1>6, <1>8, <1>9 DEF Balances
  <2> QED  BY <1>1, <1>4, <1>7, <1>8, <2>1, Moved
<1>11. Follows(i, h.order[i], o)  BY <1>5, <1>6 DEF Follows, OrderOK
<1> QED  BY <1>1, <1>5, <1>10, <1>11, BackedIsSound DEF Quiet

\* requestSell and canonicalRedeem: the shares are burned.
LEMMA SellPlacedEffect ==
  ASSUME NEW h, IsHub(h), NEW i \in Sells, h.order[i] = NoOrder, h.supply >= SharesIn,
         NEW st \in {"Pending", "Escalated"}, NEW g,
         g = SellPlaced(h, i, st)
  PROVE  Quiet(h, g, i)
<1>1. i \in Ids /\ i \notin Buys  BY HubAssumption DEF Ids
<1>2. PICK o : o = [NoOrder EXCEPT !.status = st]  OBVIOUS
<1>3. o \in HubOrder
  <2>1. 0 \in 0..3  OBVIOUS
  <2>2. NoOrder \in HubOrder  BY <2>1 DEF NoOrder, HubOrder, Statuses
  <2> QED  BY <1>2, <2>2 DEF HubOrder, Statuses
<1>4. /\ o.held = 0 /\ o.status = st /\ o.extra = 0 /\ o.fee = 0
      /\ o.refundReady = 0 /\ ~o.advanced /\ o.owed = 0 /\ ~o.lzSettled /\ o.outcome = 0
      /\ SameAnswer(o, NoOrder)
  BY <1>2 DEF NoOrder, SameAnswer
<1>5. /\ NoOrder.held = 0 /\ NoOrder.status = "None" /\ NoOrder.extra = 0 /\ NoOrder.fee = 0
      /\ NoOrder.refundReady = 0 /\ NoOrder.owed = 0 /\ ~NoOrder.advanced
  BY DEF NoOrder
<1>6. g = With(h, i, o, h.native, h.escrowed, h.accruedFees, h.claimableTotal, h.supply - SharesIn)
  BY <1>2 DEF SellPlaced, IsHub, With
<1>7. h.supply - SharesIn \in Nat  BY <1>1, HubNumbers, HubAssumption
<1>8. EscrowFor(i, o) = EscrowFor(i, h.order[i]) /\ FeeFor(i, o) = FeeFor(i, h.order[i])
  BY <1>1, <1>4, <1>5 DEF EscrowFor, FeeFor
<1>9. Backed(h, g, i) /\ g.order[i] = o
  <2>1. o.owed = h.order[i].owed  BY <1>4, <1>5
  <2>2. Balances(h, i, o, h.native, h.escrowed, h.accruedFees, 0)  BY <1>1, <1>8, <2>1, Noted
  <2> QED  BY <1>1, <1>3, <1>6, <1>7, <2>2, HubNumbers, Moved
<1>10. Follows(i, h.order[i], o)  BY <1>4, <1>5 DEF Follows, OrderOK
<1> QED  BY <1>1, <1>4, <1>9, <1>10, BackedIsSound DEF Quiet

\* The order's own reserve pays a LayerZero fee.
LEMMA FeePaidEffect ==
  ASSUME NEW h, IsHub(h), NEW i \in Ids, NEW g, g = FeePaid(h, i), h.order[i].extra >= LzFee,
         h.native >= LzFee
  PROVE  /\ Backed(h, g, i) /\ SameAnswer(g.order[i], h.order[i])
         /\ g.order[i].status = h.order[i].status /\ g.order[i].advanced = h.order[i].advanced
         /\ g.order[i].refundReady = h.order[i].refundReady
<1> DEFINE b == h.order[i]
<1>1. b \in HubOrder /\ LzFee \in Nat  BY HubNumbers, HubAssumption
<1>2. /\ b.extra - LzFee \in Nat /\ h.escrowed - LzFee \in Int /\ h.native - LzFee \in Nat
      /\ h.accruedFees \in Nat /\ h.supply \in Nat
  BY <1>1, HubNumbers
<1>3. PICK o : o = [b EXCEPT !.extra = @ - LzFee]  OBVIOUS
<1>4. o \in HubOrder  BY <1>1, <1>2, <1>3 DEF HubOrder
<1>5. /\ o.held = b.held /\ o.status = b.status /\ o.extra = b.extra - LzFee /\ o.fee = b.fee
      /\ o.refundReady = b.refundReady /\ o.advanced = b.advanced /\ o.owed = b.owed
      /\ SameAnswer(o, b)
  BY <1>1, <1>3 DEF HubOrder, SameAnswer
<1>6. g = With(h, i, o, h.native - LzFee, h.escrowed - LzFee, h.accruedFees, h.claimableTotal,
               h.supply)
  BY <1>3 DEF FeePaid, IsHub, With
<1>7. Balances(h, i, o, h.native - LzFee, h.escrowed - LzFee, h.accruedFees, 0)
  BY <1>1, <1>2, <1>5, HubNumbers DEF Balances, EscrowFor, FeeFor
<1>8. Backed(h, g, i) /\ g.order[i] = o  BY <1>2, <1>4, <1>6, <1>7, Moved
<1> QED  BY <1>5, <1>8

\* launch, when it sends the principal.
LaunchSent(h, i, routeFee) ==
  [h EXCEPT !.order[i].extra = @ - routeFee, !.order[i].status = "Funded",
            !.escrowed = @ - (Principal + routeFee),
            !.native = @ - (Principal + routeFee)]

\* launch pays the principal and the route fee from what is escrowed for the order.
LEMMA LaunchSentEffect ==
  ASSUME NEW h, IsHub(h), NEW i \in Buys, NEW routeFee \in Nat, NEW g,
         g = LaunchSent(h, i, routeFee), h.order[i].status = "Pending",
         h.order[i].extra >= routeFee, h.native >= Principal + routeFee
  PROVE  /\ Backed(h, g, i) /\ SameAnswer(g.order[i], h.order[i])
         /\ g.order[i].status = "Funded" /\ g.order[i].advanced = h.order[i].advanced
         /\ g.order[i].refundReady = h.order[i].refundReady
         /\ g.native = h.native - (Principal + routeFee)
<1> DEFINE b == h.order[i]
<1>1. i \in Ids /\ i \notin Sells /\ b \in HubOrder  BY HubAssumption, HubNumbers DEF Ids
<1>2. PICK sum : sum = Principal + routeFee  OBVIOUS
<1>3. /\ b.extra - routeFee \in Nat /\ h.escrowed - sum \in Int /\ h.native - sum \in Nat
      /\ h.accruedFees \in Nat /\ h.supply \in Nat /\ sum \in Nat /\ Principal \in Nat
  BY <1>1, <1>2, HubNumbers
<1>4. PICK o : o = [b EXCEPT !.extra = @ - routeFee, !.status = "Funded"]  OBVIOUS
<1>5. o \in HubOrder  BY <1>1, <1>3, <1>4 DEF HubOrder, Statuses
<1>6. /\ o.held = b.held /\ o.status = "Funded" /\ o.extra = b.extra - routeFee /\ o.fee = b.fee
      /\ o.refundReady = b.refundReady /\ o.advanced = b.advanced /\ o.owed = b.owed
      /\ SameAnswer(o, b)
  BY <1>1, <1>4 DEF HubOrder, SameAnswer
<1>7. g = With(h, i, o, h.native - sum, h.escrowed - sum, h.accruedFees, h.claimableTotal, h.supply)
  BY <1>2, <1>4 DEF LaunchSent, IsHub, With
<1>8. Balances(h, i, o, h.native - sum, h.escrowed - sum, h.accruedFees, 0)
  BY <1>1, <1>2, <1>3, <1>6, HubNumbers DEF Balances, EscrowFor, FeeFor, KeepsFee
<1>9. Backed(h, g, i) /\ g.order[i] = o  BY <1>1, <1>3, <1>5, <1>7, <1>8, Moved
<1>10. g.native = h.native - sum  BY <1>7 DEF With
<1> QED  BY <1>2, <1>6, <1>9, <1>10

\* requestCancel: the wish is noted, and the float may refund the buy at once.
CancelNoted(h, i) == [h EXCEPT !.order[i].cancelRequested = TRUE]
\* requestCancel, when the float pays.
CancelledByFloat(h, i) ==
  [CancelNoted(h, i) EXCEPT !.order[i].advanced = TRUE, !.order[i].status = "Cancelled",
                            !.order[i].extra = 0,
                            !.escrowed = @ - (h.order[i].fee + h.order[i].extra)]

\* requestCancel without the float: a note.
LEMMA CancelNotedEffect ==
  ASSUME NEW h, IsHub(h), NEW i \in Ids, NEW g, g = CancelNoted(h, i), OrderOK(i, h.order[i]),
         h.order[i].status # "None"
  PROVE  Quiet(h, g, i)
<1> DEFINE b == h.order[i]
<1>1. b \in HubOrder  BY HubNumbers
<1>2. PICK o : o = [b EXCEPT !.cancelRequested = TRUE]  OBVIOUS
<1>3. o \in HubOrder  BY <1>1, <1>2 DEF HubOrder
<1>4. /\ o.held = b.held /\ o.status = b.status /\ o.extra = b.extra /\ o.fee = b.fee
      /\ o.refundReady = b.refundReady /\ o.advanced = b.advanced /\ o.owed = b.owed
      /\ o.outcome = b.outcome /\ SameAnswer(o, b)
  BY <1>1, <1>2 DEF HubOrder, SameAnswer
<1>5. g = With(h, i, o, h.native, h.escrowed, h.accruedFees, h.claimableTotal, h.supply)
  BY <1>2 DEF CancelNoted, IsHub, With
<1>6. EscrowFor(i, o) = EscrowFor(i, b) /\ FeeFor(i, o) = FeeFor(i, b)
  BY <1>4 DEF EscrowFor, FeeFor
<1>7. Backed(h, g, i) /\ g.order[i] = o
  <2>1. Balances(h, i, o, h.native, h.escrowed, h.accruedFees, 0)  BY <1>4, <1>6, Noted
  <2> QED  BY <1>3, <1>5, <2>1, HubNumbers, Moved
<1>8. Follows(i, b, o)  BY SMTT(30), <1>4 DEF Follows, OrderOK, SameAnswer
<1> QED  BY <1>4, <1>7, <1>8, BackedIsSound DEF Quiet

\* requestCancel by the float: the buyer is paid from free money, the fee and the
\* reserve go back with it.
LEMMA CancelledByFloatEffect ==
  ASSUME NEW h, IsHub(h), NEW i \in Buys, NEW c, c = CancelledByFloat(h, i), NEW g,
         g = Paid(c, i, "user", Principal + h.order[i].fee + h.order[i].extra),
         OrderOK(i, h.order[i]), h.order[i].status = "Dispatched",
         Available(h) >= Principal
  PROVE  Quiet(h, g, i)
<1> DEFINE b == h.order[i]
<1>1. i \in Ids /\ i \notin Sells /\ b \in HubOrder  BY HubAssumption, HubNumbers DEF Ids
<1>2. PICK amount : amount = Principal + b.fee + b.extra  OBVIOUS
<1>3. PICK e : e = h.escrowed - (b.fee + b.extra)  OBVIOUS
<1>4. PICK o : o = [b EXCEPT !.cancelRequested = TRUE, !.advanced = TRUE,
                             !.status = "Cancelled", !.extra = 0]
  OBVIOUS
<1>5. o \in HubOrder  BY <1>1, <1>4 DEF HubOrder, Statuses
<1>6. /\ o.held = b.held /\ o.status = "Cancelled" /\ o.extra = 0 /\ o.fee = b.fee
      /\ o.refundReady = b.refundReady /\ o.owed = b.owed
      /\ o.outcome = b.outcome /\ SameAnswer(o, b)
  BY <1>1, <1>4 DEF HubOrder, SameAnswer
<1>7. c = With(h, i, o, h.native, e, h.accruedFees, h.claimableTotal, h.supply)
  BY <1>3, <1>4 DEF CancelledByFloat, CancelNoted, IsHub, With
<1>8. /\ e \in Int /\ amount \in Nat /\ b.fee \in Nat /\ b.extra \in Nat /\ b.held \in Nat
      /\ Principal \in Nat /\ Principal > 0 /\ h.accruedFees \in Nat /\ h.escrowed \in Int
      /\ h.native \in Nat /\ h.claimableTotal \in Int
  BY <1>1, <1>2, <1>3, HubNumbers, HubAssumption
<1>9. h.native - Owed(h) >= Principal  BY <1>8 DEF Available, Owed
<1>10. e - EscrowFor(i, o) = h.escrowed - EscrowFor(i, h.order[i])
  <2>1. b.refundReady = 0  BY <1>1 DEF OrderOK
  <2>2. EscrowFor(i, o) = b.held /\ EscrowFor(i, b) = b.fee + b.extra + b.held
    BY <1>1, <1>6, <1>8, <2>1 DEF EscrowFor, KeepsFee
  <2> QED  BY <1>3, <1>8, <2>2
<1>11. h.native - e - h.accruedFees - h.claimableTotal - amount + FeeFor(i, o) >= 0
  BY <1>1, <1>2, <1>3, <1>8, <1>9 DEF Owed, FeeFor
<1>12. g = Paid(c, i, "user", amount)  BY <1>2
<1>13. /\ Differs(h, g, i) /\ SameButPaid(g.order[i], o)
       /\ OtherEscrow(g, i) = OtherEscrow(h, i) /\ OtherClaims(g, i) = OtherClaims(h, i)
       /\ Cover(g, i) >= 0
  BY <1>1, <1>5, <1>6, <1>7, <1>8, <1>10, <1>11, <1>12, LentAndPaid
<1>14. Follows(i, b, g.order[i]) /\ SameAnswer(g.order[i], b)
  BY <1>1, <1>6, <1>13 DEF Follows, OrderOK, SameAnswer, SameButPaid
<1> QED  BY <1>13, <1>14 DEF Quiet, Sound

\* voidOrder, paid once from the order's reserve.
VoidPaid(h, i) == [h EXCEPT !.order[i].voided = TRUE]

\* voidOrder from the reserve marks the order.
LEMMA VoidPaidEffect ==
  ASSUME NEW h, IsHub(h), NEW i \in Ids, NEW g, g = VoidPaid(h, i)
  PROVE  /\ Backed(h, g, i) /\ SameAnswer(g.order[i], h.order[i])
         /\ g.order[i].status = h.order[i].status /\ g.order[i].advanced = h.order[i].advanced
         /\ g.order[i].refundReady = h.order[i].refundReady
<1> DEFINE b == h.order[i]
<1>1. b \in HubOrder  BY HubNumbers
<1>2. PICK o : o = [b EXCEPT !.voided = TRUE]  OBVIOUS
<1>3. o \in HubOrder  BY <1>1, <1>2 DEF HubOrder
<1>4. /\ o.held = b.held /\ o.status = b.status /\ o.extra = b.extra /\ o.fee = b.fee
      /\ o.refundReady = b.refundReady /\ o.advanced = b.advanced /\ o.owed = b.owed
      /\ SameAnswer(o, b)
  BY <1>1, <1>2 DEF HubOrder, SameAnswer
<1>5. g = With(h, i, o, h.native, h.escrowed, h.accruedFees, h.claimableTotal, h.supply)
  BY <1>2 DEF VoidPaid, IsHub, With
<1>6. EscrowFor(i, o) = EscrowFor(i, b) /\ FeeFor(i, o) = FeeFor(i, b)
  BY <1>4 DEF EscrowFor, FeeFor
<1>7. Balances(h, i, o, h.native, h.escrowed, h.accruedFees, 0)  BY <1>4, <1>6, Noted
<1>8. Backed(h, g, i) /\ g.order[i] = o  BY <1>3, <1>5, <1>7, HubNumbers, Moved
<1> QED  BY <1>4, <1>8

\* claimResult: a reward buy's stock out of custody, or its principal back.
CustodyTaken(h, i) ==
  [h EXCEPT !.order[i] = [h.order[i] EXCEPT !.custodyRaw = 0, !.shares = @ + h.order[i].custodyRaw]]
\* claimResult of a refund.
RefundTaken(h, i) ==
  [h EXCEPT !.order[i] = [h.order[i] EXCEPT !.refundReady = 0, !.paid = @ + h.order[i].refundReady],
            !.escrowed = @ - h.order[i].refundReady, !.native = @ - h.order[i].refundReady]

\* claimResult of stock moves no money.
LEMMA CustodyTakenEffect ==
  ASSUME NEW h, IsHub(h), NEW i \in Ids, NEW g, g = CustodyTaken(h, i),
         OrderOK(i, h.order[i]), h.order[i].status # "None"
  PROVE  Quiet(h, g, i)
<1> DEFINE b == h.order[i]
<1>1. b \in HubOrder /\ b.shares + b.custodyRaw \in Nat  BY HubNumbers
<1>2. PICK o : o = [b EXCEPT !.custodyRaw = 0, !.shares = @ + b.custodyRaw]  OBVIOUS
<1>3. o \in HubOrder  BY <1>1, <1>2 DEF HubOrder
<1>4. /\ o.held = b.held /\ o.status = b.status /\ o.extra = b.extra /\ o.fee = b.fee
      /\ o.refundReady = b.refundReady /\ o.advanced = b.advanced /\ o.owed = b.owed
      /\ o.outcome = b.outcome /\ SameAnswer(o, b)
  BY <1>1, <1>2 DEF HubOrder, SameAnswer
<1>5. g = With(h, i, o, h.native, h.escrowed, h.accruedFees, h.claimableTotal, h.supply)
  BY <1>2 DEF CustodyTaken, IsHub, With
<1>6. EscrowFor(i, o) = EscrowFor(i, b) /\ FeeFor(i, o) = FeeFor(i, b)
  BY <1>4 DEF EscrowFor, FeeFor
<1>7. Balances(h, i, o, h.native, h.escrowed, h.accruedFees, 0)  BY <1>4, <1>6, Noted
<1>8. Backed(h, g, i) /\ g.order[i] = o  BY <1>3, <1>5, <1>7, HubNumbers, Moved
<1>9. Follows(i, b, o)  BY <1>4 DEF Follows, OrderOK, SameAnswer
<1> QED  BY <1>4, <1>8, <1>9, BackedIsSound DEF Quiet

\* claimResult of a refund takes it from what is escrowed.
LEMMA RefundTakenEffect ==
  ASSUME NEW h, IsHub(h), NEW i \in Ids, NEW g, g = RefundTaken(h, i),
         OrderOK(i, h.order[i]), h.order[i].status # "None",
         h.native >= h.order[i].refundReady
  PROVE  Quiet(h, g, i)
<1> DEFINE b == h.order[i]
<1>1. /\ b \in HubOrder /\ b.refundReady \in Nat /\ b.paid + b.refundReady \in Nat
      /\ h.native - b.refundReady \in Nat /\ h.escrowed - b.refundReady \in Int
      /\ h.accruedFees \in Nat /\ h.supply \in Nat
  BY HubNumbers
<1>2. PICK o : o = [b EXCEPT !.refundReady = 0, !.paid = @ + b.refundReady]  OBVIOUS
<1>3. o \in HubOrder  BY <1>1, <1>2 DEF HubOrder
<1>4. /\ o.held = b.held /\ o.status = b.status /\ o.extra = b.extra /\ o.fee = b.fee
      /\ o.refundReady = 0 /\ o.advanced = b.advanced /\ o.owed = b.owed
      /\ o.outcome = b.outcome /\ SameAnswer(o, b)
  BY <1>1, <1>2 DEF HubOrder, SameAnswer
<1>5. g = With(h, i, o, h.native - b.refundReady, h.escrowed - b.refundReady, h.accruedFees,
               h.claimableTotal, h.supply)
  BY <1>2 DEF RefundTaken, IsHub, With
<1>6. Balances(h, i, o, h.native - b.refundReady, h.escrowed - b.refundReady, h.accruedFees, 0)
  BY <1>1, <1>4, HubNumbers DEF Balances, EscrowFor, FeeFor
<1>7. Backed(h, g, i) /\ g.order[i] = o  BY <1>1, <1>3, <1>5, <1>6, Moved
<1>8. Follows(i, b, o)  BY <1>4 DEF Follows, OrderOK, SameAnswer
<1> QED  BY <1>4, <1>7, <1>8, BackedIsSound DEF Quiet

\* claim: what the order is owed leaves the hub and the total of the claims.
OwedTaken(h, i, paid) ==
  [h EXCEPT !.order[i] = [h.order[i] EXCEPT !.owed = 0, !.paid = paid],
            !.claimableTotal = @ - h.order[i].owed, !.native = @ - h.order[i].owed]

\* claim pays what is owed from what is claimable.
LEMMA OwedTakenEffect ==
  ASSUME NEW h, IsHub(h), NEW i \in Ids, NEW paid \in Nat, NEW g, g = OwedTaken(h, i, paid),
         OrderOK(i, h.order[i]), h.order[i].status # "None", h.native >= h.order[i].owed
  PROVE  Quiet(h, g, i)
<1> DEFINE b == h.order[i]
<1>1. /\ b \in HubOrder /\ b.owed \in Nat /\ h.native - b.owed \in Nat /\ h.escrowed \in Int
      /\ h.accruedFees \in Nat /\ h.supply \in Nat /\ h.claimableTotal - b.owed \in Int
      /\ h.native \in Nat /\ h.claimableTotal \in Int
  BY HubNumbers
<1>2. PICK o : o = [b EXCEPT !.owed = 0, !.paid = paid]  OBVIOUS
<1>3. o \in HubOrder  BY <1>1, <1>2 DEF HubOrder
<1>4. /\ o.held = b.held /\ o.status = b.status /\ o.extra = b.extra /\ o.fee = b.fee
      /\ o.refundReady = b.refundReady /\ o.advanced = b.advanced /\ o.owed = 0
      /\ o.outcome = b.outcome /\ SameAnswer(o, b)
  BY <1>1, <1>2 DEF HubOrder, SameAnswer
<1>5. g = With(h, i, o, h.native - b.owed, h.escrowed, h.accruedFees,
               h.claimableTotal - b.owed, h.supply)
  BY <1>2 DEF OwedTaken, IsHub, With
<1>6. /\ Differs(h, g, i)
      /\ g.order[i] = o /\ g.native = h.native - b.owed /\ g.escrowed = h.escrowed
      /\ g.accruedFees = h.accruedFees /\ g.claimableTotal = h.claimableTotal - b.owed
  BY <1>1, <1>3, <1>5, WithFacts
<1>7. EscrowFor(i, o) = EscrowFor(i, b) /\ FeeFor(i, o) = FeeFor(i, b)
  BY <1>4 DEF EscrowFor, FeeFor
<1>8. OtherEscrow(g, i) = OtherEscrow(h, i)  BY <1>6, <1>7 DEF OtherEscrow
<1>9. OtherClaims(g, i) = OtherClaims(h, i)  BY <1>1, <1>4, <1>6 DEF OtherClaims
<1>10. Cover(g, i) >= Cover(h, i)
  <2>1. FeeFor(i, b) \in Int  BY HubNumbers DEF FeeFor
  <2> QED  BY <1>1, <1>6, <1>7, <2>1 DEF Cover, Owed
<1>11. Follows(i, b, o)  BY <1>4 DEF Follows, OrderOK, SameAnswer
<1> QED  BY <1>4, <1>6, <1>8, <1>9, <1>10, <1>11 DEF Quiet, Sound

\* subsidize, before what it may set off.
Subsidized(h, i, amount) ==
  [h EXCEPT !.order[i].extra = @ + amount, !.escrowed = @ + amount, !.native = @ + amount]

\* A subsidy is escrowed for the order it is for.
LEMMA SubsidizedEffect ==
  ASSUME NEW h, IsHub(h), NEW i \in Ids, NEW amount \in Nat, NEW g, g = Subsidized(h, i, amount)
  PROVE  /\ Backed(h, g, i) /\ SameAnswer(g.order[i], h.order[i])
         /\ g.order[i].status = h.order[i].status /\ g.order[i].advanced = h.order[i].advanced
         /\ g.order[i].refundReady = h.order[i].refundReady
<1> DEFINE b == h.order[i]
<1>1. /\ b \in HubOrder /\ b.extra + amount \in Nat /\ h.escrowed + amount \in Int
      /\ h.native + amount \in Nat /\ h.accruedFees \in Nat /\ h.supply \in Nat
  BY HubNumbers
<1>2. PICK o : o = [b EXCEPT !.extra = @ + amount]  OBVIOUS
<1>3. o \in HubOrder  BY <1>1, <1>2 DEF HubOrder
<1>4. /\ o.held = b.held /\ o.status = b.status /\ o.extra = b.extra + amount /\ o.fee = b.fee
      /\ o.refundReady = b.refundReady /\ o.advanced = b.advanced /\ o.owed = b.owed
      /\ SameAnswer(o, b)
  BY <1>1, <1>2 DEF HubOrder, SameAnswer
<1>5. g = With(h, i, o, h.native + amount, h.escrowed + amount, h.accruedFees, h.claimableTotal,
               h.supply)
  BY <1>2 DEF Subsidized, IsHub, With
<1>6. Balances(h, i, o, h.native + amount, h.escrowed + amount, h.accruedFees, 0)
  BY <1>1, <1>4, HubNumbers DEF Balances, EscrowFor, FeeFor
<1>7. Backed(h, g, i) /\ g.order[i] = o  BY <1>1, <1>3, <1>5, <1>6, Moved
<1> QED  BY <1>4, <1>7

-----------------------------------------------------------------------------
(* The hub's steps.                                                        *)

\* The hub in a state its history allows.
BooksOK == IsHub(hub) /\ \A i \in Ids : OrderOK(i, hub.order[i])

\* A step that leaves the orders alone: the debts stay covered.
Level(h, g) ==
  /\ IsHub(g) /\ g.order = h.order
  /\ g.escrowed = h.escrowed /\ g.claimableTotal = h.claimableTotal
  /\ g.native - Owed(g) >= h.native - Owed(h) \/ g.native - Owed(g) >= 0

\* No step at all.
LEMMA LevelSelf ==
  ASSUME NEW h, IsHub(h)
  PROVE  Level(h, h)
<1>1. h.native - Owed(h) \in Int  BY DEF IsHub, Owed
<1> QED  BY <1>1 DEF Level

\* Two steps about one order, the first of which answers nothing.
LEMMA BackedThenQuiet ==
  ASSUME NEW f, NEW g, NEW h, NEW i \in Ids, IsHub(f), Backed(f, g, i),
         SameAnswer(g.order[i], f.order[i]), Quiet(g, h, i), Follows(i, f.order[i], h.order[i])
  PROVE  Quiet(f, h, i)
<1>1. SameAnswer(h.order[i], f.order[i])  BY DEF Quiet, SameAnswer
<1> QED  BY <1>1, AnsweredThen DEF Quiet, Sound

\* What users do.
LEMMA DispatchQuiet ==
  ASSUME BooksOK, NEW i \in Ids, Dispatch(i)
  PROVE  Quiet(hub, hub', i)
<1>1. PICK h : h = hub'  OBVIOUS
<1>2. h = WithStatus(hub, i, "Dispatched")  BY <1>1 DEF Dispatch, Dispatched, WithStatus
<1>3. /\ hub.order[i].status = IF i \in Buys THEN "Funded" ELSE "Pending"
      /\ IsHub(hub) /\ OrderOK(i, hub.order[i])
  BY DEF Dispatch, Order, BooksOK
<1>4. ~hub.order[i].advanced /\ hub.order[i].refundReady = 0
      /\ (hub.order[i].lzSettled => hub.order[i].outcome # 0)
  BY <1>3 DEF OrderOK
<1>5. i \in Buys => "Dispatched" \in KeepsFee \ {"Pending"}
                      /\ hub.order[i].status \in KeepsFee \ {"Pending"}
  BY <1>3 DEF KeepsFee
<1>6. "Dispatched" \in Statuses \ {"None", "Pending", "Returning", "Proceeds"}  BY DEF Statuses
<1>7. Quiet(hub, h, i)  BY <1>2, <1>3, <1>4, <1>5, <1>6, StatusChanged
<1> QED  BY <1>1, <1>7

\* cancelBuy, cancelReward, and a launch that cannot go.
LEMMA RefundQuiet ==
  ASSUME BooksOK, NEW i \in Buys, hub.order[i].status = "Pending", NEW h, h = BuyRefunded(hub, i)
  PROVE  Quiet(hub, h, i) /\ h.order[i].status = "Cancelled"
<1>1. IsHub(hub) /\ OrderOK(i, hub.order[i]) /\ i \in Ids  BY DEF BooksOK, Ids
<1>2. ~hub.order[i].advanced /\ hub.order[i].refundReady = 0
      /\ (hub.order[i].lzSettled => hub.order[i].outcome # 0)
  BY <1>1 DEF OrderOK
<1>3. /\ Backed(hub, h, i) /\ SameAnswer(h.order[i], hub.order[i])
      /\ h.order[i].advanced = hub.order[i].advanced
      /\ h.order[i].status = "Cancelled"
  BY <1>1, <1>2, BuyRefundedEffect
<1>4. Follows(i, hub.order[i], h.order[i])  BY <1>2, <1>3 DEF Follows, OrderOK, SameAnswer
<1> QED  BY <1>1, <1>3, <1>4, BackedIsSound DEF Quiet

\* requestCancel, with the float or without it.
LEMMA RequestCancelQuiet ==
  ASSUME BooksOK, NEW i \in Ids, RequestCancel(i)
  PROVE  Quiet(hub, hub', i)
<1>1. /\ IsHub(hub) /\ OrderOK(i, hub.order[i]) /\ i \in Buys
      /\ hub.order[i].status \in {"Funded", "Dispatched"}
  BY DEF BooksOK, RequestCancel, Order
<1>2. PICK h : h = hub'  OBVIOUS
<1>3. CASE h = CancelNoted(hub, i)
  <2>1. Quiet(hub, h, i)  BY <1>1, <1>3, CancelNotedEffect
  <2> QED  BY <1>2, <2>1
<1>4. CASE /\ hub.order[i].status = "Dispatched" /\ Available(hub) >= Principal
           /\ h = Paid(CancelledByFloat(hub, i), i, "user",
                       Principal + hub.order[i].fee + hub.order[i].extra)
  <2>1. PICK c : c = CancelledByFloat(hub, i)  OBVIOUS
  <2>2. h = Paid(c, i, "user", Principal + hub.order[i].fee + hub.order[i].extra)
    BY <1>4, <2>1
  <2>3. Quiet(hub, h, i)  BY <1>1, <1>4, <2>1, <2>2, CancelledByFloatEffect
  <2> QED  BY <1>2, <2>3
<1>5. h = CancelNoted(hub, i)
      \/ /\ hub.order[i].status = "Dispatched" /\ Available(hub) >= Principal
         /\ h = Paid(CancelledByFloat(hub, i), i, "user",
                     Principal + hub.order[i].fee + hub.order[i].extra)
  BY <1>2 DEF RequestCancel, CancelNoted, CancelledByFloat, Order
<1> QED  BY <1>3, <1>4, <1>5

\* voidOrder, paid by the caller or from the reserve.
LEMMA VoidOrderQuiet ==
  ASSUME BooksOK, NEW i \in Ids, NEW fromReserve \in BOOLEAN, VoidOrder(i, fromReserve)
  PROVE  Quiet(hub, hub', i)
<1>1. /\ IsHub(hub) /\ OrderOK(i, hub.order[i]) /\ i \in Buys
      /\ hub.order[i].status \in {"Funded", "Dispatched", "Cancelled"}
      /\ fromReserve => hub.order[i].extra >= LzFee /\ hub.native >= LzFee
  BY DEF BooksOK, VoidOrder, Order, CanSend
<1>2. PICK g : g = IF fromReserve THEN VoidPaid(FeePaid(hub, i), i) ELSE hub  OBVIOUS
<1>3. /\ Backed(hub, g, i) /\ SameAnswer(g.order[i], hub.order[i])
      /\ g.order[i].status = hub.order[i].status
      /\ g.order[i].advanced = hub.order[i].advanced
      /\ g.order[i].refundReady = hub.order[i].refundReady
  <2>1. CASE ~fromReserve
    <3>1. g = hub  BY <1>2, <2>1
    <3> QED  BY <1>1, <3>1, BackedSelf DEF SameAnswer
  <2>2. CASE fromReserve
    <3>1. PICK f : f = FeePaid(hub, i)  OBVIOUS
    <3>2. g = VoidPaid(f, i)  BY <1>2, <2>2, <3>1
    <3>3. hub.order[i].extra >= LzFee /\ hub.native >= LzFee  BY <1>1, <2>2
    <3>4. /\ Backed(hub, f, i) /\ SameAnswer(f.order[i], hub.order[i])
          /\ f.order[i].status = hub.order[i].status
          /\ f.order[i].advanced = hub.order[i].advanced
          /\ f.order[i].refundReady = hub.order[i].refundReady
      BY <1>1, <3>1, <3>3, FeePaidEffect
    <3>5. IsHub(f)  BY <3>4 DEF Backed, Differs
    <3>6. /\ Backed(f, g, i) /\ SameAnswer(g.order[i], f.order[i])
          /\ g.order[i].status = f.order[i].status
          /\ g.order[i].advanced = f.order[i].advanced
          /\ g.order[i].refundReady = f.order[i].refundReady
      BY <3>2, <3>5, VoidPaidEffect
    <3>7. Backed(hub, g, i)  BY <1>1, <3>4, <3>6, BackedTwice
    <3> QED  BY <3>4, <3>6, <3>7 DEF SameAnswer
  <2> QED  BY <2>1, <2>2
<1>4. PICK h : h = hub'  OBVIOUS
<1>5. CASE h = g /\ hub.order[i].status = "Cancelled"
  <2>1. Follows(i, hub.order[i], g.order[i])
    BY <1>1, <1>3, <1>5 DEF Follows, OrderOK, SameAnswer
  <2> QED  BY <1>3, <1>4, <1>5, <2>1, BackedIsSound DEF Quiet
<1>6. CASE h = WithStatus(g, i, "Dispatched") /\ hub.order[i].status # "Cancelled"
  <2>1. /\ ~g.order[i].advanced /\ g.order[i].refundReady = 0
        /\ g.order[i].status \in KeepsFee \ {"Pending"}
        /\ (g.order[i].lzSettled => g.order[i].outcome # 0)
    BY <1>1, <1>3, <1>6 DEF OrderOK, SameAnswer, KeepsFee
  <2>2. "Dispatched" \in Statuses \ {"None", "Pending", "Returning", "Proceeds"}
        /\ "Dispatched" \in KeepsFee \ {"Pending"}
    BY DEF Statuses, KeepsFee
  <2>3. IsHub(g)  BY <1>3 DEF Backed, Differs
  <2>4. h = WithStatus(g, i, "Dispatched")  BY <1>6
  <2>5. Quiet(g, h, i) /\ h.order[i].status = "Dispatched"
    <3>1. Quiet(g, h, i)  BY <2>1, <2>2, <2>3, <2>4, StatusChanged
    <3>2. h.order[i].status = "Dispatched"  BY <2>3, <2>4 DEF WithStatus, IsHub, HubOrder
    <3> QED  BY <3>1, <3>2
  <2>6. Follows(i, hub.order[i], h.order[i])
    BY <2>5 DEF Quiet, Sound, Follows
  <2>7. Quiet(hub, h, i)  BY <1>1, <1>3, <2>5, <2>6, BackedThenQuiet
  <2> QED  BY <1>4, <2>7
<1>7. h = IF hub.order[i].status = "Cancelled" THEN g ELSE WithStatus(g, i, "Dispatched")
  BY <1>2, <1>4 DEF VoidOrder, Order, VoidPaid, WithStatus, Dispatched
<1> QED  BY <1>5, <1>6, <1>7

\* escalate and escalateFunds.
LEMMA EscalateQuiet ==
  ASSUME BooksOK, NEW i \in Ids, Escalate(i) \/ EscalateFunds(i)
  PROVE  Quiet(hub, hub', i)
<1>1. IsHub(hub) /\ OrderOK(i, hub.order[i])  BY DEF BooksOK
<1>2. PICK h : h = hub'  OBVIOUS
<1>3. "Escalated" \in Statuses \ {"None", "Pending", "Returning", "Proceeds"}
      /\ "Escalated" \in KeepsFee \ {"Pending"}
  BY DEF Statuses, KeepsFee
<1>4. ASSUME h = WithStatus(hub, i, "Escalated"),
             \/ i \in Sells /\ hub.order[i].status \in {"Pending", "Dispatched"}
             \/ i \in Buys /\ hub.order[i].status \in {"Funded", "Dispatched"}
      PROVE  Quiet(hub, h, i)
  <2>1. /\ ~hub.order[i].advanced /\ hub.order[i].refundReady = 0
        /\ (hub.order[i].lzSettled => hub.order[i].outcome # 0)
    BY <1>1, <1>4 DEF OrderOK
  <2>2. i \in Buys => hub.order[i].status \in KeepsFee \ {"Pending"}
    BY <1>4, HubAssumption DEF KeepsFee
  <2>3. h = WithStatus(hub, i, "Escalated")  BY <1>4
  <2> QED  BY <1>1, <1>3, <2>1, <2>2, <2>3, StatusChanged
<1>5. ASSUME h = FundsTaken(hub, i), hub.order[i].status \in {"Returning", "Proceeds"}
      PROVE  Quiet(hub, h, i)
  <2>1. /\ ~hub.order[i].advanced /\ hub.order[i].refundReady = 0
        /\ (hub.order[i].lzSettled => hub.order[i].outcome # 0)
    BY <1>1, <1>5 DEF OrderOK
  <2>2. hub.order[i].status = IF i \in Buys THEN "Returning" ELSE "Proceeds"
    BY <1>1, <1>5, HubAssumption DEF OrderOK
  <2>3. /\ Backed(hub, h, i) /\ SameAnswer(h.order[i], hub.order[i])
        /\ ~h.order[i].advanced /\ h.order[i].refundReady = 0
        /\ h.order[i].status = "Escalated"
    BY <1>1, <1>5, <2>1, <2>2, FundsTakenEffect
  <2>4. Follows(i, hub.order[i], h.order[i])  BY <2>1, <2>3 DEF Follows, OrderOK, SameAnswer
  <2> QED  BY <2>3, <2>4, BackedIsSound DEF Quiet
<1>6. \/ /\ h = WithStatus(hub, i, "Escalated")
         /\ \/ i \in Sells /\ hub.order[i].status \in {"Pending", "Dispatched"}
            \/ i \in Buys /\ hub.order[i].status \in {"Funded", "Dispatched"}
      \/ h = FundsTaken(hub, i) /\ hub.order[i].status \in {"Returning", "Proceeds"}
  BY <1>2 DEF Escalate, EscalateFunds, WithStatus, Order
<1> QED  BY <1>2, <1>4, <1>5, <1>6

\* claim and claimResult.
LEMMA ClaimQuiet ==
  ASSUME BooksOK, NEW i \in Ids, Claim(i) \/ ClaimResult(i)
  PROVE  Quiet(hub, hub', i)
<1>1. IsHub(hub) /\ OrderOK(i, hub.order[i])  BY DEF BooksOK
<1>2. PICK h : h = hub'  OBVIOUS
<1>3. NoOrder.owed = 0 /\ NoOrder.custodyRaw = 0 /\ NoOrder.refundReady = 0  BY DEF NoOrder
<1>4. CASE Claim(i)
  <2>1. PICK paid : paid = IF Lane(i) = 0 THEN hub.order[i].paid + hub.order[i].owed
                                          ELSE hub.order[i].paid
    OBVIOUS
  <2>2. paid \in Nat  BY <1>1, <2>1, HubNumbers
  <2>3. h = OwedTaken(hub, i, paid)  BY <1>2, <1>4, <2>1 DEF Claim, OwedTaken, Order
  <2>4. hub.order[i].status # "None"  BY <1>1, <1>3, <1>4 DEF Claim, Order, OrderOK
  <2>5. hub.native >= hub.order[i].owed  BY <1>4 DEF Claim, CanSend, Order
  <2>6. Quiet(hub, h, i)  BY <1>1, <2>2, <2>3, <2>4, <2>5, OwedTakenEffect
  <2> QED  BY <1>2, <2>6
<1>5. CASE ClaimResult(i) /\ hub.order[i].custodyRaw # 0
  <2>1. h = CustodyTaken(hub, i)  BY <1>2, <1>5 DEF ClaimResult, CustodyTaken, Order
  <2>2. hub.order[i].status # "None"  BY <1>1, <1>3, <1>5 DEF OrderOK
  <2>3. Quiet(hub, h, i)  BY <1>1, <2>1, <2>2, CustodyTakenEffect
  <2> QED  BY <1>2, <2>3
<1>6. CASE ClaimResult(i) /\ hub.order[i].custodyRaw = 0
  <2>1. h = RefundTaken(hub, i)  BY <1>2, <1>6 DEF ClaimResult, RefundTaken, Order
  <2>2. hub.order[i].refundReady # 0 /\ hub.native >= hub.order[i].refundReady
    BY <1>6 DEF ClaimResult, CanSend, Order
  <2>3. hub.order[i].status # "None"  BY <1>1, <1>3, <2>2 DEF OrderOK
  <2>4. Quiet(hub, h, i)  BY <1>1, <2>1, <2>2, <2>3, RefundTakenEffect
  <2> QED  BY <1>2, <2>4
<1> QED  BY <1>4, <1>5, <1>6

\* A subsidy, which may be what a returned buy was short of.
LEMMA SubsidizeQuiet ==
  ASSUME BooksOK, NEW i \in Ids, NEW amount \in Nat, Subsidize(i, amount)
  PROVE  Quiet(hub, hub', i)
<1>1. IsHub(hub) /\ OrderOK(i, hub.order[i]) /\ hub.order[i].status # "None"
  BY DEF BooksOK, Subsidize, Order
<1>2. PICK h : h = hub'  OBVIOUS
<1>3. PICK g : g = Subsidized(hub, i, amount)  OBVIOUS
<1>4. /\ Backed(hub, g, i) /\ SameAnswer(g.order[i], hub.order[i])
      /\ g.order[i].status = hub.order[i].status
      /\ g.order[i].advanced = hub.order[i].advanced
      /\ g.order[i].refundReady = hub.order[i].refundReady
  BY <1>1, <1>3, SubsidizedEffect
<1>5. CASE h = g
  <2>1. Follows(i, hub.order[i], g.order[i])
    BY <1>1, <1>4 DEF Follows, OrderOK, SameAnswer
  <2> QED  BY <1>2, <1>4, <1>5, <2>1, BackedIsSound DEF Quiet
<1>6. CASE h = ReturnedBuyClosed(g, i, FALSE) /\ hub.order[i].status = "Returning"
  <2>1. /\ i \in Buys /\ ~hub.order[i].advanced /\ hub.order[i].refundReady = 0
        /\ (hub.order[i].lzSettled => hub.order[i].outcome # 0)
    BY <1>1, <1>6 DEF OrderOK
  <2>2. IsHub(g) /\ g.order[i].status = "Returning" /\ g.order[i].refundReady = 0
    BY <1>4, <1>6, <2>1 DEF Backed, Differs
  <2>3. h = ReturnedBuyClosed(g, i, FALSE)  BY <1>6
  <2>4. /\ Backed(g, h, i) /\ SameAnswer(h.order[i], g.order[i])
        /\ h.order[i].advanced = g.order[i].advanced
        /\ \/ h.order[i].status = "Cancelled"
           \/ h.order[i].status = "Returning" /\ h.order[i].refundReady = 0
    BY <2>1, <2>2, <2>3, ReturnedBuyClosedEffect
  <2>5. Backed(hub, h, i)  BY <1>1, <1>4, <2>4, BackedTwice
  <2>6. SameAnswer(h.order[i], hub.order[i])  BY <1>4, <2>4 DEF SameAnswer
  <2>7. h.order[i].advanced = hub.order[i].advanced  BY <1>4, <2>4
  <2>8. Follows(i, hub.order[i], h.order[i])
    BY <2>1, <2>4, <2>6, <2>7 DEF Follows, OrderOK, SameAnswer
  <2> QED  BY <1>2, <2>5, <2>6, <2>8, BackedIsSound DEF Quiet
<1>7. h = g \/ (h = ReturnedBuyClosed(g, i, FALSE) /\ hub.order[i].status = "Returning")
  BY <1>2, <1>3 DEF Subsidize, Subsidized, Order
<1> QED  BY <1>5, <1>6, <1>7

\* An order that was not there.
LEMMA PlacedQuiet ==
  ASSUME BooksOK, NEW i \in Ids,
         RequestBuy(i) \/ BeginFunding(i) \/ RequestSell(i)
           \/ \E mode \in {"Stock", "Settlement"} : CanonicalRedeem(i, mode)
  PROVE  Quiet(hub, hub', i)
<1>1. IsHub(hub) /\ OrderOK(i, hub.order[i]) /\ hub.order[i].status = "None"
  BY DEF BooksOK, RequestBuy, BeginFunding, RequestSell, CanonicalRedeem, Order
<1>2. hub.order[i] = NoOrder  BY <1>1 DEF OrderOK
<1>3. PICK h : h = hub'  OBVIOUS
<1>4. CASE i \in Buys /\ h = PlacedBuy(hub, i)
  <2>1. Quiet(hub, h, i)  BY <1>1, <1>2, <1>4, PlacedBuyEffect
  <2> QED  BY <1>3, <2>1
<1>5. ASSUME i \in Sells, hub.supply >= SharesIn, NEW st \in {"Pending", "Escalated"},
             h = SellPlaced(hub, i, st)
      PROVE  Quiet(hub, hub', i)
  <2>1. h = SellPlaced(hub, i, st)  BY <1>5
  <2>2. Quiet(hub, h, i)  BY <1>1, <1>2, <1>5, <2>1, SellPlacedEffect
  <2> QED  BY <1>3, <2>2
<1>6. \/ i \in Buys /\ h = PlacedBuy(hub, i)
      \/ /\ i \in Sells /\ hub.supply >= SharesIn
         /\ h = SellPlaced(hub, i, "Pending") \/ h = SellPlaced(hub, i, "Escalated")
  BY <1>3 DEF RequestBuy, BeginFunding, RequestSell, CanonicalRedeem, SellPlaced, Buys
<1> QED  BY <1>4, <1>5, <1>6

\* A buy that leaves the queue: refunded, or on its way to the vault.
LEMMA LaunchQuiet ==
  ASSUME BooksOK, NEW i \in Ids, NEW routeFee \in Nat, Launch(i, routeFee)
  PROVE  Quiet(hub, hub', i) /\ hub'.order[i].status # "Pending"
<1>1. /\ IsHub(hub) /\ OrderOK(i, hub.order[i]) /\ i \in Buys
      /\ hub.order[i].status = "Pending"
  BY DEF BooksOK, Launch, Order
<1>2. PICK h : h = hub'  OBVIOUS
<1>3. CASE h = BuyRefunded(hub, i)
  <2>1. Quiet(hub, h, i) /\ h.order[i].status = "Cancelled"  BY <1>1, <1>3, RefundQuiet
  <2> QED  BY <1>2, <2>1
<1>4. ASSUME routeFee <= hub.order[i].extra, NEW atOnce \in BOOLEAN,
             CanSend(hub, Principal + routeFee + (IF atOnce THEN LzFee ELSE 0)),
             NEW g, g = LaunchSent(hub, i, routeFee),
             atOnce => g.order[i].extra >= LzFee,
             h = IF atOnce THEN Dispatched(FeePaid(g, i), i) ELSE g
      PROVE  Quiet(hub, h, i) /\ h.order[i].status # "Pending"
  <2>1. /\ Principal \in Nat /\ LzFee \in Nat /\ hub.native \in Nat /\ hub.order[i].extra \in Nat
        /\ hub.native - (Principal + routeFee) \in Int
    BY <1>1, HubNumbers, HubAssumption
  <2>2. hub.native >= Principal + routeFee /\ hub.order[i].extra >= routeFee
    BY <1>4, <2>1 DEF CanSend
  <2>3. g = LaunchSent(hub, i, routeFee)  BY <1>4
  <2>4. /\ Backed(hub, g, i) /\ SameAnswer(g.order[i], hub.order[i])
        /\ g.order[i].status = "Funded" /\ g.order[i].advanced = hub.order[i].advanced
        /\ g.order[i].refundReady = hub.order[i].refundReady
        /\ g.native = hub.native - (Principal + routeFee)
    BY <1>1, <2>2, <2>3, LaunchSentEffect
  <2>5. /\ ~hub.order[i].advanced /\ hub.order[i].refundReady = 0
        /\ (hub.order[i].lzSettled => hub.order[i].outcome # 0)
    BY <1>1 DEF OrderOK
  <2>6. CASE ~atOnce
    <3>1. h = g  BY <1>4, <2>6
    <3>2. Follows(i, hub.order[i], g.order[i])
      BY <1>1, <2>4, <2>5 DEF Follows, OrderOK, SameAnswer
    <3> QED  BY <2>4, <3>1, <3>2, BackedIsSound DEF Quiet
  <2>7. CASE atOnce
    <3>1. g.native >= LzFee /\ g.order[i].extra >= LzFee
      BY <1>4, <2>1, <2>4, <2>7 DEF CanSend
    <3>2. IsHub(g)  BY <2>4 DEF Backed, Differs
    <3>3. PICK f : f = FeePaid(g, i)  OBVIOUS
    <3>4. /\ Backed(g, f, i) /\ SameAnswer(f.order[i], g.order[i])
          /\ f.order[i].status = g.order[i].status /\ f.order[i].advanced = g.order[i].advanced
          /\ f.order[i].refundReady = g.order[i].refundReady
      BY <3>1, <3>2, <3>3, FeePaidEffect
    <3>5. /\ Backed(hub, f, i) /\ SameAnswer(f.order[i], hub.order[i]) /\ IsHub(f)
      BY <1>1, <2>4, <3>4, BackedTwice DEF SameAnswer, Backed, Differs
    <3>6. h = WithStatus(f, i, "Dispatched")
      BY <1>4, <2>7, <3>3 DEF Dispatched, WithStatus
    <3>7. "Dispatched" \in Statuses \ {"None", "Pending", "Returning", "Proceeds"}
          /\ "Dispatched" \in KeepsFee \ {"Pending"}
      BY DEF Statuses, KeepsFee
    <3>8. /\ ~f.order[i].advanced /\ f.order[i].refundReady = 0
          /\ f.order[i].status \in KeepsFee \ {"Pending"}
          /\ (f.order[i].lzSettled => f.order[i].outcome # 0)
      BY <2>4, <2>5, <3>4, <3>5 DEF SameAnswer, KeepsFee
    <3>9. Quiet(f, h, i)  BY <3>5, <3>6, <3>7, <3>8, StatusChanged
    <3>10. h.order[i].status = "Dispatched"
      BY <3>5, <3>6 DEF WithStatus, IsHub, HubOrder
    <3>11. Follows(i, hub.order[i], h.order[i])  BY <3>9, <3>10 DEF Quiet, Sound, Follows
    <3>12. Quiet(hub, h, i)  BY <1>1, <3>5, <3>9, <3>11, BackedThenQuiet
    <3> QED  BY <3>10, <3>12
  <2> QED  BY <2>6, <2>7
<1>5. PICK g : g = LaunchSent(hub, i, routeFee)  OBVIOUS
<1>6. PICK atOnce \in BOOLEAN : atOnce = (Lane(i) = 0 /\ g.order[i].extra >= LzFee)  OBVIOUS
<1>7. CASE /\ ~(routeFee > hub.order[i].extra)
           /\ CanSend(hub, Principal + routeFee + (IF atOnce THEN LzFee ELSE 0))
           /\ h = IF atOnce THEN Dispatched(FeePaid(g, i), i) ELSE g
  <2>1. hub.order[i].extra \in Nat  BY <1>1, HubNumbers
  <2>2. routeFee <= hub.order[i].extra  BY <1>7, <2>1
  <2>3. atOnce => g.order[i].extra >= LzFee  BY <1>6
  <2>4. Quiet(hub, h, i) /\ h.order[i].status # "Pending"
    BY <1>4, <1>5, <1>7, <2>2, <2>3
  <2> QED  BY <1>2, <2>4
<1>8. \/ h = BuyRefunded(hub, i)
      \/ /\ ~(routeFee > hub.order[i].extra)
         /\ CanSend(hub, Principal + routeFee + (IF atOnce THEN LzFee ELSE 0))
         /\ h = IF atOnce THEN Dispatched(FeePaid(g, i), i) ELSE g
  BY <1>2, <1>5, <1>6 DEF Launch, LaunchSent, Order
<1> QED  BY <1>3, <1>7, <1>8

\* submitFundedBuy.
LEMMA SubmitQuiet ==
  ASSUME BooksOK, NEW i \in Ids, SubmitFundedBuy(i)
  PROVE  Quiet(hub, hub', i)
<1>1. /\ IsHub(hub) /\ OrderOK(i, hub.order[i]) /\ hub.order[i].status = "Funded"
      /\ hub.order[i].extra >= LzFee /\ hub.native >= LzFee
  BY DEF BooksOK, SubmitFundedBuy, CanSend, Order
<1>2. PICK h : h = hub'  OBVIOUS
<1>3. PICK f : f = FeePaid(hub, i)  OBVIOUS
<1>4. /\ Backed(hub, f, i) /\ SameAnswer(f.order[i], hub.order[i])
      /\ f.order[i].status = "Funded" /\ f.order[i].advanced = hub.order[i].advanced
      /\ f.order[i].refundReady = hub.order[i].refundReady
  BY <1>1, <1>3, FeePaidEffect
<1>5. IsHub(f)  BY <1>4 DEF Backed, Differs
<1>6. h = WithStatus(f, i, "Dispatched")
  BY <1>2, <1>3 DEF SubmitFundedBuy, Dispatched, WithStatus
<1>7. "Dispatched" \in Statuses \ {"None", "Pending", "Returning", "Proceeds"}
      /\ "Dispatched" \in KeepsFee \ {"Pending"}
  BY DEF Statuses, KeepsFee
<1>8. /\ ~f.order[i].advanced /\ f.order[i].refundReady = 0
      /\ f.order[i].status \in KeepsFee \ {"Pending"}
      /\ (f.order[i].lzSettled => f.order[i].outcome # 0)
  BY <1>1, <1>4 DEF OrderOK, SameAnswer, KeepsFee
<1>9. Quiet(f, h, i)  BY <1>5, <1>6, <1>7, <1>8, StatusChanged
<1>10. h.order[i].status = "Dispatched"  BY <1>5, <1>6 DEF WithStatus, IsHub, HubOrder
<1>11. Follows(i, hub.order[i], h.order[i])  BY <1>9, <1>10 DEF Quiet, Sound, Follows
<1>12. Quiet(hub, h, i)  BY <1>1, <1>4, <1>9, <1>11, BackedThenQuiet
<1> QED  BY <1>2, <1>12

\* The steps of no order.
LEMMA AdminLevel ==
  ASSUME BooksOK, Owed(hub) >= 0, ClaimFees \/ WithdrawHubFloat \/ hub' = hub
  PROVE  Level(hub, hub')
<1>1. IsHub(hub)  BY DEF BooksOK
<1>2. /\ hub.native \in Nat /\ hub.escrowed \in Int /\ hub.accruedFees \in Nat
      /\ hub.claimableTotal \in Int /\ hub.supply \in Nat
  BY <1>1 DEF IsHub
<1>3. CASE hub' = hub
  <2>1. Level(hub, hub)  BY <1>1, LevelSelf
  <2> QED  BY <1>3, <2>1 DEF Level, Owed
<1>4. CASE ClaimFees
  <2>1. PICK h : h = hub'  OBVIOUS
  <2>2. /\ h = [hub EXCEPT !.native = @ - hub.accruedFees, !.accruedFees = 0]
        /\ hub.native >= hub.accruedFees
    BY <1>4, <2>1 DEF ClaimFees, CanSend
  <2>3. /\ h.order = hub.order /\ h.escrowed = hub.escrowed /\ h.supply = hub.supply
        /\ h.claimableTotal = hub.claimableTotal
        /\ h.native = hub.native - hub.accruedFees /\ h.accruedFees = 0
    BY <1>1, <2>2 DEF IsHub
  <2>4. IsHub(h)
    <3>1. h.native \in Nat  BY <1>2, <2>2, <2>3
    <3>2. h = [order |-> h.order, native |-> h.native, escrowed |-> h.escrowed,
               accruedFees |-> h.accruedFees, claimableTotal |-> h.claimableTotal,
               supply |-> h.supply]
      BY <1>1, <2>2 DEF IsHub
    <3> QED  BY <1>1, <2>3, <3>1, <3>2 DEF IsHub
  <2>5. Level(hub, h)  BY <1>2, <2>3, <2>4 DEF Level, Owed
  <2> QED  BY <2>1, <2>5 DEF Level, IsHub, Owed
<1>5. CASE WithdrawHubFloat
  <2>1. PICK h : h = hub'  OBVIOUS
  <2>2. PICK amount : amount = Available(hub)  OBVIOUS
  <2>3. h = [hub EXCEPT !.native = @ - amount] /\ amount > 0
    BY <1>5, <2>1, <2>2 DEF WithdrawHubFloat
  <2>4. /\ h.order = hub.order /\ h.escrowed = hub.escrowed /\ h.supply = hub.supply
        /\ h.claimableTotal = hub.claimableTotal
        /\ h.native = hub.native - amount /\ h.accruedFees = hub.accruedFees
    BY <1>1, <2>3 DEF IsHub
  <2>5. amount = hub.native - Owed(hub)  BY <1>2, <2>2, <2>3 DEF Available, Owed
  <2>6. IsHub(h)
    <3>1. h.native \in Nat  BY <1>2, <2>4, <2>5 DEF Owed
    <3>2. h = [order |-> h.order, native |-> h.native, escrowed |-> h.escrowed,
               accruedFees |-> h.accruedFees, claimableTotal |-> h.claimableTotal,
               supply |-> h.supply]
      BY <1>1, <2>3 DEF IsHub
    <3> QED  BY <1>1, <2>4, <3>1, <3>2 DEF IsHub
  <2>7. Level(hub, h)  BY <1>2, <2>4, <2>5, <2>6 DEF Level, Owed
  <2> QED  BY <2>1, <2>7 DEF Level, IsHub, Owed
<1> QED  BY <1>3, <1>4, <1>5

\* Every step of a user is about one order, and answers nothing.
LEMMA UserQuiet ==
  ASSUME BooksOK, NEW i \in Ids, UserStep(i)
  PROVE  Quiet(hub, hub', i)
<1>1. CASE RequestBuy(i) \/ RequestSell(i)
             \/ \E mode \in {"Stock", "Settlement"} : CanonicalRedeem(i, mode)
  BY <1>1, PlacedQuiet
<1>2. CASE Dispatch(i)  BY <1>2, DispatchQuiet
<1>3. CASE CancelPending(i)
  <2>1. /\ i \in Buys /\ hub.order[i].status = "Pending" /\ hub' = BuyRefunded(hub, i)
    BY <1>3 DEF CancelPending, Order, Buys
  <2> QED  BY <2>1, RefundQuiet
<1>4. CASE RequestCancel(i)  BY <1>4, RequestCancelQuiet
<1>5. CASE \E fromReserve \in BOOLEAN : VoidOrder(i, fromReserve)  BY <1>5, VoidOrderQuiet
<1>6. CASE Escalate(i) \/ EscalateFunds(i)  BY <1>6, EscalateQuiet
<1>7. CASE Claim(i)  BY <1>7, ClaimQuiet
<1> QED  BY <1>1, <1>2, <1>3, <1>4, <1>5, <1>6, <1>7 DEF UserStep

\* So is every step of a keeper, unless it leaves the hub alone.
LEMMA KeeperQuiet ==
  ASSUME BooksOK, NEW i \in Ids, KeeperStep(i)
  PROVE  hub' = hub \/ Quiet(hub, hub', i)
<1>1. CASE \E routeFee \in RouteFees : Launch(i, routeFee)
  <2>1. PICK routeFee \in RouteFees : Launch(i, routeFee)  BY <1>1
  <2>2. routeFee \in Nat  BY HubAssumption
  <2> QED  BY <2>1, <2>2, LaunchQuiet
<1>2. CASE ReserveReward(i)  BY <1>2 DEF ReserveReward
<1>3. CASE BeginFunding(i)  BY <1>3, PlacedQuiet
<1>4. CASE SubmitFundedBuy(i)  BY <1>4, SubmitQuiet
<1>5. CASE CancelReward(i)
  <2>1. /\ i \in Buys /\ hub.order[i].status = "Pending" /\ hub' = BuyRefunded(hub, i)
    BY <1>5 DEF CancelReward, Order, Buys
  <2> QED  BY <2>1, RefundQuiet
<1>6. CASE ClaimResult(i)  BY <1>6, ClaimQuiet
<1> QED  BY <1>1, <1>2, <1>3, <1>4, <1>5, <1>6 DEF KeeperStep

\* Every step of the hub itself is about one order, or about none; none answers an order.
LEMMA HubStepKind ==
  ASSUME BooksOK, Owed(hub) >= 0, HubStep
  PROVE  Level(hub, hub') \/ \E i \in Ids : Quiet(hub, hub', i)
<1>1. ASSUME AdminStep  PROVE ClaimFees \/ WithdrawHubFloat \/ hub' = hub
  BY <1>1 DEF AdminStep, SetHubFloat, SetMintsHalted
<1> QED  BY <1>1, UserQuiet, KeeperQuiet, AdminLevel DEF HubStep

-----------------------------------------------------------------------------
(* The answers.                                                            *)

\* Messages about an order leave the hub once it is placed, a buy's once it is launched.
Ready(i) == Order(i).status # "None" /\ (i \in Buys => Order(i).status # "Pending")

\* A result of the vault's log.
WellFormed(r) == r \in ResultType /\ (r.outcome = "Failed" => r.amountOut = 0)

\* Whatever lane it comes by, a result that settles an order is what the order records.
LEMMA SettleAnswers ==
  ASSUME BooksOK, NEW i \in Ids, NEW r, WellFormed(r), Ready(i), NEW canonical \in BOOLEAN,
         Settle(i, r, canonical)
  PROVE  Answers(hub, hub', i, Code(r.outcome), r.amountOut)
<1> DEFINE b == hub.order[i]
           raw == r.amountOut
<1>1. IsHub(hub) /\ OrderOK(i, b) /\ raw \in Nat
  BY DEF BooksOK, WellFormed, ResultType
<1>2. b.status # "None" /\ (i \in Buys => b.status # "Pending")  BY DEF Ready, Order
<1>3. CASE r.outcome = "Bought"
  <2>1. i \in Buys /\ (Unanswered(i) \/ (FloatCancelled(i) /\ ~Order(i).orphaned))
    BY <1>3 DEF Settle, Applies
  <2>2. hub' = IF FloatCancelled(i) THEN Orphaned(hub, i, raw, canonical)
                                    ELSE BoughtApplied(hub, i, raw, canonical)
    BY <1>3 DEF Settle
  <2>3. PICK h : h = hub'  OBVIOUS
  <2>4. CASE FloatCancelled(i)
    <3>1. h = Orphaned(hub, i, raw, canonical)  BY <2>2, <2>3, <2>4
    <3>2. b.status = "Cancelled"  BY <2>4 DEF FloatCancelled, Order
    <3>3. Answers(hub, h, i, 1, raw)  BY <1>1, <2>1, <3>1, <3>2, OrphanedEffect
    <3> QED  BY <1>3, <2>3, <3>3 DEF Code
  <2>5. CASE ~FloatCancelled(i)
    <3>1. h = BoughtApplied(hub, i, raw, canonical)  BY <2>2, <2>3, <2>5
    <3>2. b.status \in {"Dispatched", "Escalated"}
      BY <2>1, <2>5 DEF Unanswered, FloatCancelled, Order
    <3>3. Answers(hub, h, i, 1, raw)  BY <1>1, <2>1, <3>1, <3>2, BoughtAppliedEffect
    <3> QED  BY <1>3, <2>3, <3>3 DEF Code
  <2> QED  BY <2>4, <2>5
<1>4. CASE r.outcome = "Sold"
  <2>1. /\ i \in Sells /\ b.outcome = 0 /\ b.status \in {"Pending", "Dispatched", "Escalated"}
    BY <1>4 DEF Settle, Applies, Order
  <2>2. PICK allowed \in BOOLEAN : hub' = SoldApplied(hub, i, raw, canonical, allowed)
    BY <1>4 DEF Settle
  <2>3. PICK h : h = hub'  OBVIOUS
  <2>4. h = SoldApplied(hub, i, raw, canonical, allowed)  BY <2>2, <2>3
  <2>5. Answers(hub, h, i, 2, raw)  BY <1>1, <2>1, <2>4, SoldAppliedEffect
  <2> QED  BY <1>4, <2>3, <2>5 DEF Code
<1>5. CASE r.outcome = "Failed"
  <2>0. raw = 0  BY <1>5 DEF WellFormed
  <2>1. PICK h : h = hub'  OBVIOUS
  <2>2. \/ Unanswered(i) \/ b.status = "Pending" \/ FloatCancelled(i)
        \/ (i \in Sells /\ b.status = "Escalated" /\ b.outcome = 0)
    BY <1>5 DEF Settle, Applies, Order
  <2>3. CASE i \in Buys
    <3>1. h = BuyFailed(hub, i, canonical)  BY <1>5, <2>1, <2>3, HubAssumption DEF Settle
    <3>2. OrderOK(i, Order(i))  BY <1>1 DEF Order
    <3>3. ~FloatCancelled(i) => Order(i).status \in {"Dispatched", "Escalated"}
      BY <1>2, <2>2, <2>3, HubAssumption DEF Unanswered, Order
    <3>4. Answers(hub, h, i, 3, 0)  BY <1>1, <2>3, <3>1, <3>2, <3>3, BuyFailedEffect
    <3> QED  BY <1>5, <2>0, <2>1, <3>4 DEF Code
  <2>4. CASE i \in Sells
    <3>1. h = SellFailed(hub, i, canonical)  BY <1>5, <2>1, <2>4, HubAssumption DEF Settle
    <3>2. ~b.advanced
      BY <1>1, <2>2, <2>4, HubAssumption DEF OrderOK, Unanswered, FloatCancelled, Order
    <3>3. Answers(hub, h, i, 3, 0)  BY <1>1, <2>4, <3>1, <3>2, SellFailedEffect
    <3> QED  BY <1>5, <2>0, <2>1, <3>3 DEF Code
  <2> QED  BY <2>3, <2>4 DEF Ids
<1> QED  BY <1>3, <1>4, <1>5 DEF WellFormed, ResultType

-----------------------------------------------------------------------------
(* The totals.  They are sums over the orders: a step about one order      *)
(* moves a total by what it moves for that order.                          *)

\* The summands.
Escrows(h) == [j \in Ids |-> EscrowFor(j, h.order[j])]
Claims(h) == [j \in Ids |-> h.order[j].owed]
Fees(h) == [j \in Sells |-> FeeFor(j, h.order[j])]

\* HubSolvent, of a hub: each total is its sum, and the balance and the fees that the
\* float advanced cover what is owed.
SumsOK(h) ==
  /\ h.escrowed = Sum(Escrows(h), Ids)
  /\ h.claimableTotal = Sum(Claims(h), Ids)
  /\ h.native + Sum(Fees(h), Sells) >= Owed(h)

\* What is held, owed and advanced for an order are amounts.
LEMMA Amounts ==
  ASSUME NEW h, IsHub(h)
  PROVE  /\ \A j \in Ids : EscrowFor(j, h.order[j]) \in Nat /\ h.order[j].owed \in Nat
                             /\ FeeFor(j, h.order[j]) \in Nat
         /\ \A j \in Ids : Escrows(h)[j] \in Nat /\ Claims(h)[j] \in Nat
         /\ \A j \in Sells : Fees(h)[j] \in Nat
         /\ IsFiniteSet(Ids) /\ IsFiniteSet(Sells)
<1>1. ASSUME NEW j \in Ids
      PROVE  EscrowFor(j, h.order[j]) \in Nat /\ h.order[j].owed \in Nat
               /\ FeeFor(j, h.order[j]) \in Nat
  BY HubNumbers DEF EscrowFor, FeeFor
<1>2. IsFiniteSet(Ids)  BY VaultAssumption, LayerAssumption
<1>3. IsFiniteSet(Sells)  BY <1>2, FS_Subset DEF Ids
<1> QED  BY <1>1, <1>2, <1>3 DEF Escrows, Claims, Fees, Ids

\* The totals are amounts, and what is owed is not negative.
LEMMA TotalsAreAmounts ==
  ASSUME NEW h, IsHub(h), SumsOK(h)
  PROVE  h.escrowed \in Nat /\ h.claimableTotal \in Nat /\ Owed(h) >= 0
<1>1. h.escrowed \in Nat /\ h.claimableTotal \in Nat  BY Amounts, SumNat DEF SumsOK
<1> QED  BY <1>1 DEF Owed, IsHub

\* The totals after a step about one order.
LEMMA SoundKeepsSums ==
  ASSUME NEW h, IsHub(h), SumsOK(h), NEW i \in Ids, NEW g, Sound(h, g, i)
  PROVE  SumsOK(g)
<1>1. IsHub(g) /\ \A j \in Ids \ {i} : g.order[j] = h.order[j]  BY DEF Sound, Differs
<1>2. g.escrowed = Sum(Escrows(g), Ids)
  <2>1. PICK e, f : e = Escrows(h) /\ f = Escrows(g)  OBVIOUS
  <2>2. /\ \A j \in Ids : e[j] \in Int /\ f[j] \in Int
        /\ e[i] = EscrowFor(i, h.order[i]) /\ f[i] = EscrowFor(i, g.order[i])
        /\ IsFiniteSet(Ids)
    BY <1>1, <2>1, Amounts DEF Escrows
  <2>3. \A j \in Ids \ {i} : f[j] = e[j]  BY <1>1, <2>1 DEF Escrows
  <2>4. Sum(f, Ids) = Sum(e, Ids) - e[i] + f[i]  BY <2>2, <2>3, SumChange
  <2>5. g.escrowed - f[i] = h.escrowed - e[i]  BY <2>2 DEF Sound, OtherEscrow
  <2>6. h.escrowed = Sum(e, Ids)  BY <2>1 DEF SumsOK
  <2>7. h.escrowed \in Int /\ g.escrowed \in Int  BY <1>1 DEF IsHub
  <2>8. g.escrowed = Sum(f, Ids)  BY <2>2, <2>4, <2>5, <2>6, <2>7
  <2> QED  BY <2>1, <2>8
<1>3. g.claimableTotal = Sum(Claims(g), Ids)
  <2>1. PICK e, f : e = Claims(h) /\ f = Claims(g)  OBVIOUS
  <2>2. /\ \A j \in Ids : e[j] \in Int /\ f[j] \in Int
        /\ e[i] = h.order[i].owed /\ f[i] = g.order[i].owed
        /\ IsFiniteSet(Ids)
    BY <1>1, <2>1, Amounts DEF Claims
  <2>3. \A j \in Ids \ {i} : f[j] = e[j]  BY <1>1, <2>1 DEF Claims
  <2>4. Sum(f, Ids) = Sum(e, Ids) - e[i] + f[i]  BY <2>2, <2>3, SumChange
  <2>5. g.claimableTotal - f[i] = h.claimableTotal - e[i]  BY <2>2 DEF Sound, OtherClaims
  <2>6. h.claimableTotal = Sum(e, Ids)  BY <2>1 DEF SumsOK
  <2>7. h.claimableTotal \in Int /\ g.claimableTotal \in Int  BY <1>1 DEF IsHub
  <2>8. g.claimableTotal = Sum(f, Ids)  BY <2>2, <2>4, <2>5, <2>6, <2>7
  <2> QED  BY <2>1, <2>8
<1>4. g.native + Sum(Fees(g), Sells) >= Owed(g)
  <2>1. PICK e, f : e = Fees(h) /\ f = Fees(g)  OBVIOUS
  <2>2. /\ \A j \in Sells : e[j] \in Nat /\ f[j] \in Nat
        /\ IsFiniteSet(Sells)
    BY <1>1, <2>1, Amounts
  <2>3. PICK n, m, d, k : /\ n = g.native - Owed(g) /\ m = h.native - Owed(h)
                          /\ d = FeeFor(i, g.order[i]) /\ k = FeeFor(i, h.order[i])
    OBVIOUS
  <2>4. /\ n \in Int /\ m \in Int /\ d \in Nat /\ k \in Nat
        /\ g.native \in Int /\ Owed(g) \in Int /\ h.native \in Int /\ Owed(h) \in Int
    BY <1>1, <2>3, Amounts DEF IsHub, Owed
  <2>5. n + d >= m + k \/ n + d >= 0  BY <2>3 DEF Sound, Cover
  <2>6. m + Sum(e, Sells) >= 0 /\ Sum(e, Sells) \in Nat /\ Sum(f, Sells) \in Nat
    <3>1. Sum(e, Sells) \in Nat /\ Sum(f, Sells) \in Nat  BY <2>2, SumNat
    <3>2. h.native + Sum(e, Sells) >= Owed(h)  BY <2>1 DEF SumsOK
    <3> QED  BY <2>3, <2>4, <3>1, <3>2
  <2>7. CASE i \in Sells
    <3>1. e[i] = k /\ f[i] = d  BY <2>1, <2>3, <2>7 DEF Fees
    <3>2. \A j \in Sells \ {i} : f[j] = e[j]  BY <1>1, <2>1 DEF Fees, Ids
    <3>3. \A j \in Sells : e[j] \in Int /\ f[j] \in Int  BY <2>2
    <3>4. Sum(f, Sells) = Sum(e, Sells) - k + d
      <4>1. IsFiniteSet(Sells)  BY <2>2
      <4>2. Sum(f, Sells) = Sum(e, Sells) - e[i] + f[i]  BY <2>7, <3>2, <3>3, <4>1, SumChange
      <4> QED  BY <3>1, <4>2
    <3>5. d <= Sum(f, Sells)  BY <2>2, <2>7, <3>1, SumBounds
    <3>6. n + Sum(f, Sells) >= 0  BY <2>4, <2>5, <2>6, <3>4, <3>5
    <3> QED  BY <2>1, <2>3, <2>4, <2>6, <3>6
  <2>8. CASE i \notin Sells
    <3>1. d = 0 /\ k = 0  BY <2>3, <2>8 DEF FeeFor
    <3>2. e = f
      <4>1. \A j \in Sells : g.order[j] = h.order[j]  BY <1>1, <2>8 DEF Ids
      <4> QED  BY <2>1, <4>1 DEF Fees
    <3>3. n + Sum(f, Sells) >= 0  BY <2>4, <2>5, <2>6, <3>1, <3>2
    <3> QED  BY <2>1, <2>3, <2>4, <2>6, <3>3
  <2> QED  BY <2>7, <2>8
<1> QED  BY <1>2, <1>3, <1>4 DEF SumsOK

\* The totals after a step about no order.
LEMMA LevelKeepsSums ==
  ASSUME NEW h, IsHub(h), SumsOK(h), NEW g, Level(h, g)
  PROVE  SumsOK(g)
<1>1. /\ Escrows(g) = Escrows(h) /\ Claims(g) = Claims(h) /\ Fees(g) = Fees(h)
  BY DEF Level, Escrows, Claims, Fees
<1>2. PICK e : e = Sum(Fees(h), Sells)  OBVIOUS
<1>3. e \in Nat  BY <1>2, Amounts, SumNat
<1>4. /\ g.native \in Int /\ Owed(g) \in Int /\ h.native \in Int /\ Owed(h) \in Int
      /\ g.native - Owed(g) >= h.native - Owed(h) \/ g.native - Owed(g) >= 0
  BY DEF Level, IsHub, Owed
<1>5. h.native + e >= Owed(h)  BY <1>2 DEF SumsOK
<1>6. g.native + e >= Owed(g)  BY <1>3, <1>4, <1>5
<1> QED  BY <1>1, <1>2, <1>6 DEF SumsOK, Level

-----------------------------------------------------------------------------
(* The messages.  Whatever leaves the hub about an order leaves it once    *)
(* the order is placed, so an answer never finds an order that is not      *)
(* there.                                                                  *)

\* What was sent, and what the vault holds, is about orders that are ready.
SentOK ==
  /\ \A o \in lzOrdersSent : o \in OrderType /\ Ready(o.ref)
  /\ \A d \in deliversSent : d \in DeliverType /\ Ready(d.ref)
  /\ \A i \in transfersSent : i \in Buys /\ Ready(i)
HeldOK ==
  /\ \A r \in Refs : r \in settled \/ waiting[r] # 0 => Ready(r)
  /\ \A t \in returnsSent : t.ref \in settled

\* An order that is ready stays so.
LEMMA ReadyStays ==
  ASSUME NEW i \in Ids, Sound(hub, hub', i), NEW j \in Ids, Ready(j)
  PROVE  Ready(j)'
<1>1. CASE j = i  BY <1>1 DEF Sound, Follows, Ready, Order
<1>2. CASE j # i  BY <1>2 DEF Sound, Differs, Ready, Order
<1> QED  BY <1>1, <1>2

\* What the hub sends is well-formed, and about an order that is ready.
LEMMA HubSends ==
  ASSUME BooksOK, HubStep
  PROVE  /\ \A o \in lzOrdersSent' \ lzOrdersSent : o \in OrderType /\ Ready(o.ref)'
         /\ \A d \in deliversSent' \ deliversSent : d \in DeliverType /\ Ready(d.ref)'
         /\ \A i \in transfersSent' \ transfersSent : i \in Buys /\ Ready(i)'
<1> DEFINE Goal == /\ \A o \in lzOrdersSent' \ lzOrdersSent : o \in OrderType /\ Ready(o.ref)'
                   /\ \A d \in deliversSent' \ deliversSent : d \in DeliverType /\ Ready(d.ref)'
                   /\ \A i \in transfersSent' \ transfersSent : i \in Buys /\ Ready(i)'
<1>0. /\ \A i \in Ids, amount \in Nat : OrderMessage(i, amount) \in OrderType
                                         /\ OrderMessage(i, amount).ref = i
      /\ \A i \in Ids, shares \in Nat, mode \in {"Stock", "Settlement"} :
           Delivery(i, shares, mode) \in DeliverType /\ Delivery(i, shares, mode).ref = i
      /\ Principal \in Nat /\ SharesIn \in Nat
  BY LayerAssumption, HubAssumption DEF OrderMessage, OrderType, Delivery, DeliverType
<1>1. ASSUME NEW i \in Ids,
             Quiet(hub, hub', i),
             i \in Buys => hub.order[i].status # "Pending" \/ hub'.order[i].status # "Pending",
             i \in Buys => hub.order[i].status # "None",
             \E amount \in Nat :
               /\ lzOrdersSent' \subseteq lzOrdersSent \cup {OrderMessage(i, amount)}
               /\ transfersSent' \subseteq transfersSent \cup (IF i \in Buys THEN {i} ELSE {}),
             \E shares \in Nat, mode \in {"Stock", "Settlement"} :
               deliversSent' \subseteq deliversSent \cup {Delivery(i, shares, mode)}
      PROVE  Goal
  <2>1. Ready(i)'  BY <1>1 DEF Quiet, Sound, Follows, Ready, Order
  <2>2. PICK amount \in Nat :
          /\ lzOrdersSent' \subseteq lzOrdersSent \cup {OrderMessage(i, amount)}
          /\ transfersSent' \subseteq transfersSent \cup (IF i \in Buys THEN {i} ELSE {})
    BY <1>1
  <2>3. PICK shares \in Nat, mode \in {"Stock", "Settlement"} :
          deliversSent' \subseteq deliversSent \cup {Delivery(i, shares, mode)}
    BY <1>1
  <2>4. \A o \in lzOrdersSent' \ lzOrdersSent : o \in OrderType /\ o.ref = i  BY <1>0, <2>2
  <2>5. \A d \in deliversSent' \ deliversSent : d \in DeliverType /\ d.ref = i  BY <1>0, <2>3
  <2>6. \A j \in transfersSent' \ transfersSent : j = i /\ j \in Buys  BY <2>2
  <2> QED  BY <2>1, <2>4, <2>5, <2>6 DEF Ready, Order
<1>2. ASSUME UNCHANGED sentVars PROVE Goal  BY <1>2 DEF sentVars
<1>3. ASSUME NEW i \in Ids, Dispatch(i)  PROVE Goal
  <2>1. Quiet(hub, hub', i)  BY <1>3, DispatchQuiet
  <2>2. /\ lzOrdersSent' = lzOrdersSent \cup {OrderMessage(i, AmountIn(i))}
        /\ deliversSent' = deliversSent /\ transfersSent' = transfersSent
        /\ i \in Buys => hub.order[i].status = "Funded"
    BY <1>3 DEF Dispatch, Order
  <2>3. AmountIn(i) \in Nat  BY <1>0 DEF AmountIn
  <2> QED  BY <1>0, <1>1, <2>1, <2>2, <2>3
<1>4. ASSUME NEW i \in Ids, NEW fromReserve \in BOOLEAN, VoidOrder(i, fromReserve)  PROVE Goal
  <2>1. Quiet(hub, hub', i)  BY <1>4, VoidOrderQuiet
  <2>2. /\ lzOrdersSent' = lzOrdersSent \cup {OrderMessage(i, 0)}
        /\ deliversSent' = deliversSent /\ transfersSent' = transfersSent
        /\ hub.order[i].status \in {"Cancelled", "Funded", "Dispatched"}
    BY <1>4 DEF VoidOrder, Order
  <2> QED  BY <1>0, <1>1, <2>1, <2>2
<1>5. ASSUME NEW i \in Ids, Escalate(i)  PROVE Goal
  <2>1. Quiet(hub, hub', i)  BY <1>5, EscalateQuiet
  <2>2. /\ deliversSent' = deliversSent \cup {Delivery(i, SharesIn, "Settlement")}
        /\ lzOrdersSent' = lzOrdersSent /\ transfersSent' = transfersSent
        /\ i \notin Buys
    BY <1>5, HubAssumption DEF Escalate, Order
  <2> QED  BY <1>0, <1>1, <2>1, <2>2
<1>6. ASSUME NEW i \in Ids, EscalateFunds(i)  PROVE Goal
  <2>1. Quiet(hub, hub', i)  BY <1>6, EscalateQuiet
  <2>2. /\ deliversSent' = deliversSent \cup {Delivery(i, 0, "Settlement")}
        /\ lzOrdersSent' = lzOrdersSent /\ transfersSent' = transfersSent
        /\ hub.order[i].status \in {"Funded", "Dispatched", "Returning", "Proceeds"}
    BY <1>6 DEF EscalateFunds, Order
  <2> QED  BY <1>0, <1>1, <2>1, <2>2
<1>7. ASSUME NEW i \in Ids, NEW mode \in {"Stock", "Settlement"}, CanonicalRedeem(i, mode)
      PROVE  Goal
  <2>1. Quiet(hub, hub', i)  BY <1>7, PlacedQuiet
  <2>2. /\ deliversSent' = deliversSent \cup {Delivery(i, SharesIn, mode)}
        /\ lzOrdersSent' = lzOrdersSent /\ transfersSent' = transfersSent
        /\ i \notin Buys
    BY <1>7, HubAssumption DEF CanonicalRedeem
  <2> QED  BY <1>0, <1>1, <2>1, <2>2
<1>8. ASSUME NEW i \in Ids, NEW routeFee \in Nat, Launch(i, routeFee)  PROVE Goal
  <2>1. Quiet(hub, hub', i) /\ hub'.order[i].status # "Pending"  BY <1>8, LaunchQuiet
  <2>2. /\ lzOrdersSent' \subseteq lzOrdersSent \cup {OrderMessage(i, Principal)}
        /\ deliversSent' = deliversSent
        /\ transfersSent' \subseteq transfersSent \cup (IF i \in Buys THEN {i} ELSE {})
        /\ hub.order[i].status = "Pending"
    BY <1>8 DEF Launch, Order, sentVars
  <2> QED  BY <1>0, <1>1, <2>1, <2>2
<1>9. ASSUME NEW i \in Ids, SubmitFundedBuy(i)  PROVE Goal
  <2>1. Quiet(hub, hub', i)  BY <1>9, SubmitQuiet
  <2>2. /\ lzOrdersSent' = lzOrdersSent \cup {OrderMessage(i, Principal)}
        /\ deliversSent' = deliversSent /\ transfersSent' = transfersSent
        /\ hub.order[i].status = "Funded"
    BY <1>9 DEF SubmitFundedBuy, Order
  <2> QED  BY <1>0, <1>1, <2>1, <2>2
<1>10. ASSUME NEW i \in Ids, UserStep(i)  PROVE Goal
  <2>1. \/ UNCHANGED sentVars
        \/ Dispatch(i) \/ Escalate(i) \/ EscalateFunds(i)
        \/ \E fromReserve \in BOOLEAN : VoidOrder(i, fromReserve)
        \/ \E mode \in {"Stock", "Settlement"} : CanonicalRedeem(i, mode)
    BY <1>10 DEF UserStep, RequestBuy, RequestSell, CancelPending, RequestCancel, Claim
  <2> HIDE DEF Goal
  <2> QED  BY <1>2, <1>3, <1>4, <1>5, <1>6, <1>7, <2>1
<1>11. ASSUME NEW i \in Ids, KeeperStep(i)  PROVE Goal
  <2>1. UNCHANGED sentVars \/ SubmitFundedBuy(i) \/ \E routeFee \in RouteFees : Launch(i, routeFee)
    BY <1>11 DEF KeeperStep, ReserveReward, BeginFunding, CancelReward, ClaimResult
  <2>2. RouteFees \subseteq Nat  BY HubAssumption
  <2> HIDE DEF Goal
  <2> QED  BY <1>2, <1>8, <1>9, <2>1, <2>2
<1>12. ASSUME AdminStep PROVE UNCHANGED sentVars
  BY <1>12 DEF AdminStep, ClaimFees, WithdrawHubFloat, SetHubFloat, SetMintsHalted
<1> HIDE DEF Goal
<1>13. Goal  BY <1>2, <1>10, <1>11, <1>12 DEF HubStep
<1> QED  BY <1>13 DEF Goal

-----------------------------------------------------------------------------
(* The vault's side of the channels.                                       *)

\* A step of the vault, or money that reaches it.
VaultMoves == VaultStep \/ \E r \in Refs, amount \in Nat : Fund(r, amount)

\* Every step of the vault in the layer is one of its own.
LEMMA VaultStepIsAny ==
  ASSUME SentOK, VaultMoves
  PROVE  AnyVaultStep
<1>1. /\ \A o \in lzOrdersSent : o \in OrderType
      /\ \A d \in deliversSent : d \in DeliverType
  BY DEF SentOK
<1> QED  BY <1>1 DEF VaultMoves, VaultStep, AnyVaultStep

\* The orders the vault knows were sent to it.
LEMMA VaultHolds ==
  ASSUME VaultTypeOK, SentOK, HeldOK, hub' = hub, VaultMoves
  PROVE  HeldOK'
<1>0. settled \subseteq Refs /\ waiting \in [Refs -> Nat]  BY DEF VaultTypeOK, LogTypeOK
<1>1. ASSUME NEW s \in Refs, Ready(s),
             settled' = settled \/ settled' = settled \cup {s},
             \A r \in Refs \ {s} : waiting'[r] = waiting[r],
             returnsSent' = returnsSent
      PROVE  HeldOK'
  BY <1>1 DEF HeldOK, Ready, Order
<1>2. CASE UNCHANGED <<settled, waiting, returnsSent>>  BY <1>2 DEF HeldOK, Ready, Order
<1>3. ASSUME NEW o, Execute(o)  PROVE settled' = settled \cup {o.ref}
  BY <1>3 DEF Execute, Bought, Sold, Failed, Record
<1>4. ASSUME NEW o \in lzOrdersSent, ReceiveOrder(o)  PROVE HeldOK'
  <2>1. o.ref \in Refs /\ Ready(o.ref) /\ returnsSent' = returnsSent
    BY <1>4 DEF SentOK, OrderType, ReceiveOrder
  <2>2. CASE UNCHANGED vaultVars  BY <1>2, <2>2 DEF vaultVars, logVars
  <2>3. CASE waiting' = [waiting EXCEPT ![o.ref] = 0] /\ Failed(o)
    <3>1. settled' = settled \cup {o.ref}  BY <1>3, <2>3 DEF Execute
    <3>2. \A r \in Refs \ {o.ref} : waiting'[r] = waiting[r]  BY <1>0, <2>3
    <3> QED  BY <1>1, <2>1, <3>1, <3>2
  <2>4. CASE waiting' = [waiting EXCEPT ![o.ref] = o.amountIn] /\ settled' = settled
    <3>1. \A r \in Refs \ {o.ref} : waiting'[r] = waiting[r]  BY <1>0, <2>4
    <3> QED  BY <1>1, <2>1, <2>4, <3>1
  <2>5. CASE Execute(o) /\ waiting' = waiting
    <3>1. settled' = settled \cup {o.ref}  BY <1>3, <2>5
    <3> QED  BY <1>1, <2>1, <2>5, <3>1
  <2> QED  BY <1>4, <2>2, <2>3, <2>4, <2>5 DEF ReceiveOrder, logVars
<1>5. ASSUME NEW r \in Refs, ExecuteFunded(r)  PROVE HeldOK'
  <2>1. Ready(r) /\ returnsSent' = returnsSent /\ waiting' = [waiting EXCEPT ![r] = 0]
    BY <1>5 DEF ExecuteFunded, HeldOK
  <2>2. settled' = settled \cup {r}  BY <1>3, <1>5 DEF ExecuteFunded
  <2>3. \A s \in Refs \ {r} : waiting'[s] = waiting[s]  BY <1>0, <2>1
  <2> QED  BY <1>1, <2>1, <2>2, <2>3
<1>6. ASSUME NEW r \in Refs, ReturnFunds(r)  PROVE HeldOK'
  BY <1>6 DEF ReturnFunds, HeldOK, Ready, Order, logVars
<1>7. ASSUME NEW d \in deliversSent, Deliver(d)  PROVE HeldOK'
  <2>1. d.ref \in Refs /\ Ready(d.ref) /\ returnsSent' = returnsSent
    BY <1>7 DEF SentOK, DeliverType, Deliver, DeliverSettled, DeliverVoid, DeliverShares, vaultVars
  <2>2. CASE DeliverSettled(d)  BY <1>2, <2>2 DEF DeliverSettled, vaultVars, logVars
  <2>3. CASE DeliverVoid(d) \/ DeliverShares(d)
    <3>1. settled' = settled \cup {d.ref} /\ waiting' = [waiting EXCEPT ![d.ref] = 0]
      BY <2>3 DEF DeliverVoid, DeliverShares, Record
    <3>2. \A r \in Refs \ {d.ref} : waiting'[r] = waiting[r]  BY <1>0, <3>1
    <3> QED  BY <1>1, <2>1, <3>1, <3>2
  <2> QED  BY <1>7, <2>2, <2>3 DEF Deliver
<1>8. ASSUME NEW r \in Refs, ClaimUsd(r) \/ ClaimStock(r)  PROVE HeldOK'
  BY <1>2, <1>8 DEF ClaimUsd, ClaimStock, logVars
<1>9. ASSUME NEW r, NEW amount, Fund(r, amount)  PROVE HeldOK'
  BY <1>2, <1>9 DEF Fund, logVars
<1>10. ASSUME Checkpoint \/ (\E m \in Migrations : MigrateIn(m))
                \/ \E b \in BOOLEAN : SetVaultFloat(b)
       PROVE  HeldOK'
  BY <1>2, <1>10 DEF Checkpoint, MigrateIn, SetVaultFloat, logVars
<1> QED  BY <1>4, <1>5, <1>6, <1>7, <1>8, <1>9, <1>10 DEF VaultMoves, VaultStep

\* What was sent over the fast lane is in the log, and a failure carries nothing.
LogOK ==
  /\ \A r \in lzSent : \E n \in DOMAIN results : results[n] = r
  /\ \A n \in DOMAIN results : WellFormed(results[n])
Kept == \A n \in DOMAIN results : n \in DOMAIN results' /\ results'[n] = results[n]

\* One more entry.
LEMMA RecordKeeps ==
  ASSUME VaultTypeOK, LogOK, NEW e, WellFormed(e), results' = Append(results, e),
         lzSent' \subseteq lzSent \cup {e}
  PROVE  LogOK' /\ Kept
<1>1. e \in ResultType /\ results \in Seq(ResultType)  BY DEF WellFormed, VaultTypeOK, LogTypeOK
<1>2. /\ DOMAIN results = 1..Len(results) /\ Len(results) \in Nat
      /\ DOMAIN results' = 1..(Len(results) + 1)
      /\ \A n \in 1..Len(results) : results'[n] = results[n]
      /\ results'[Len(results) + 1] = e
  BY <1>1, AppendLog
<1>3. Len(results) + 1 \in DOMAIN results'  BY <1>2
<1>4. Kept  BY <1>2 DEF Kept
<1>5. ASSUME NEW r \in lzSent'  PROVE \E n \in DOMAIN results' : results'[n] = r
  <2>1. CASE r \in lzSent  BY <1>4, <2>1 DEF LogOK, Kept
  <2>2. CASE r = e  BY <1>2, <1>3, <2>2
  <2> QED  BY <1>5, <2>1, <2>2
<1>6. ASSUME NEW n \in DOMAIN results'  PROVE WellFormed(results'[n])
  <2>1. CASE n \in DOMAIN results  BY <1>4, <2>1 DEF LogOK, Kept
  <2>2. CASE n \notin DOMAIN results  BY <1>2, <2>2
  <2> QED  BY <2>1, <2>2
<1> QED  BY <1>4, <1>5, <1>6 DEF LogOK

\* The log as every step of the vault leaves it.
LEMMA VaultLogs ==
  ASSUME VaultTypeOK, LogOK, [AnyVaultStep]_vaultVars
  PROVE  LogOK' /\ Kept
<1>1. CASE UNCHANGED <<results, lzSent>>  BY <1>1 DEF LogOK, Kept
<1>2. ASSUME NEW r \in Refs, NEW outcome \in {"Bought", "Sold", "Failed"}, NEW in \in Nat,
             NEW out \in Nat, outcome = "Failed" => out = 0, NEW overLz,
             Record(r, outcome, in, out, overLz)
      PROVE  LogOK' /\ Kept
  <2>1. PICK e : e = [ref |-> r, outcome |-> outcome, amountIn |-> in, amountOut |-> out,
                      seq |-> Len(results)]
    OBVIOUS
  <2>2. Len(results) \in Nat  BY DEF VaultTypeOK, LogTypeOK
  <2>3. WellFormed(e)  BY <1>2, <2>1, <2>2 DEF WellFormed, ResultType, AllRefs
  <2>4. results' = Append(results, e) /\ lzSent' \subseteq lzSent \cup {e}
    BY <1>2, <2>1 DEF Record
  <2> QED  BY <2>3, <2>4, RecordKeeps
<1>3. ASSUME NEW o \in OrderType, Execute(o)  PROVE LogOK' /\ Kept
  <2>1. o.ref \in Refs /\ o.amountIn \in Nat  BY DEF OrderType
  <2>2. CASE Bought(o)
    <3>1. PICK shares \in BuyOuts : Record(o.ref, "Bought", o.amountIn, shares, TRUE)
      BY <2>2 DEF Bought
    <3>2. shares \in Nat  BY VaultAssumption
    <3> QED  BY <1>2, <2>1, <3>1, <3>2
  <2>3. CASE Sold(o)
    <3>1. PICK out \in SellOuts : Record(o.ref, "Sold", o.amountIn, out, TRUE)
      BY <2>3 DEF Sold
    <3>2. out \in Nat  BY VaultAssumption
    <3> QED  BY <1>2, <2>1, <3>1, <3>2
  <2>4. CASE Failed(o)  BY <1>2, <2>1, <2>4 DEF Failed
  <2> QED  BY <1>3, <2>2, <2>3, <2>4 DEF Execute
<1>4. ASSUME NEW o \in OrderType, ReceiveOrder(o)  PROVE LogOK' /\ Kept
  <2>1. Execute(o) \/ UNCHANGED <<results, lzSent>>
    BY <1>4 DEF ReceiveOrder, Execute, vaultVars, logVars
  <2> QED  BY <1>1, <1>3, <2>1
<1>5. ASSUME NEW r \in Refs, ExecuteFunded(r)  PROVE LogOK' /\ Kept
  <2>1. PICK o : o = [ref |-> r, side |-> "Buy", amountIn |-> waiting[r]]  OBVIOUS
  <2>2. o \in OrderType  BY <2>1 DEF OrderType, VaultTypeOK
  <2>3. Execute(o)  BY <1>5, <2>1 DEF ExecuteFunded
  <2> QED  BY <1>3, <2>2, <2>3
<1>6. ASSUME NEW d \in DeliverType, Deliver(d)  PROVE LogOK' /\ Kept
  <2>1. d.ref \in Refs /\ d.shares \in Nat  BY DEF DeliverType
  <2>2. \/ UNCHANGED <<results, lzSent>>
        \/ Record(d.ref, "Failed", 0, 0, FALSE) \/ Record(d.ref, "Sold", d.shares, 0, FALSE)
    BY <1>6 DEF Deliver, DeliverSettled, DeliverVoid, DeliverShares, vaultVars, logVars
  <2> QED  BY <1>1, <1>2, <2>1, <2>2
<1>7. ASSUME NEW m \in Migrations, MigrateIn(m)  PROVE LogOK' /\ Kept
  <2>1. PICK amount \in MigrationIns, shares \in BuyOuts :
          results' = Append(results, [ref |-> m, outcome |-> "Bought", amountIn |-> amount,
                                      amountOut |-> shares, seq |-> Len(results)])
    BY <1>7 DEF MigrateIn
  <2>2. PICK e : e = [ref |-> m, outcome |-> "Bought", amountIn |-> amount,
                      amountOut |-> shares, seq |-> Len(results)]
    OBVIOUS
  <2>3. amount \in Nat /\ shares \in Nat /\ Len(results) \in Nat
    BY VaultAssumption DEF VaultTypeOK, LogTypeOK
  <2>4. WellFormed(e)  BY <2>2, <2>3 DEF WellFormed, ResultType, AllRefs
  <2>5. lzSent' = lzSent  BY <1>7 DEF MigrateIn
  <2> QED  BY <2>1, <2>2, <2>4, <2>5, RecordKeeps
<1>8. ASSUME \/ \E r \in Refs : ReturnFunds(r) \/ ClaimUsd(r) \/ ClaimStock(r)
             \/ \E r \in Refs, amount \in Nat : Fund(r, amount)
             \/ Checkpoint \/ SkimExcess \/ CloseMigration \/ Donate(0, 1)
             \/ \E amount \in Nat : WithdrawFloat(amount) \/ Donate(amount, 0)
             \/ \E b \in BOOLEAN : SetVaultFloat(b)
      PROVE  UNCHANGED <<results, lzSent>>
  BY <1>8 DEF ReturnFunds, ClaimUsd, ClaimStock, Fund, Checkpoint, SkimExcess, CloseMigration,
              Donate, WithdrawFloat, SetVaultFloat, logVars
<1> QED
  BY <1>1, <1>4, <1>5, <1>6, <1>7, <1>8 DEF AnyVaultStep, vaultVars, logVars

-----------------------------------------------------------------------------
(* The layer.  Each of its steps moves the hub for one order, by an answer *)
(* of the log or without one, or moves the vault.                          *)

\* The inductive invariant of the layer.
LayerInv ==
  /\ BooksOK /\ SumsOK(hub)
  /\ mintsHalted \in BOOLEAN /\ floatEnabled \in BOOLEAN
  /\ VaultTypeOK /\ OneResultPerRef /\ LogOK
  /\ SentOK /\ HeldOK
  /\ HubAgreesWithVault

\* The order of r is settled, and as r says.
AnsweredBy(r) ==
  r.ref \in Ids /\ Answers(hub, hub', r.ref, Code(r.outcome), r.amountOut)
\* A step of the hub.
HubMoves ==
  \/ Level(hub, hub')
  \/ \E i \in Ids : Quiet(hub, hub', i)
  \/ \E n \in DOMAIN results : AnsweredBy(results[n])

\* Every result of the log about an order finds the order placed.
LEMMA LoggedIsReady ==
  ASSUME LayerInv, NEW n \in DOMAIN results, results[n].ref \in Ids
  PROVE  Ready(results[n].ref) /\ WellFormed(results[n])
<1>1. results[n].ref \in Refs  BY LayerAssumption
<1>2. results[n].ref \in settled  BY <1>1 DEF LayerInv, OneResultPerRef, Logged
<1> QED  BY <1>1, <1>2 DEF LayerInv, HeldOK, LogOK

\* The two ways an answer arrives.
LEMMA FastMoves ==
  ASSUME LayerInv, NEW r \in lzSent, FastResult(r)
  PROVE  HubMoves
<1>1. PICK n \in DOMAIN results : results[n] = r  BY DEF LayerInv, LogOK
<1>2. r.ref \in Ids /\ Settle(r.ref, r, FALSE)  BY DEF FastResult, ReceiveResult
<1>3. Ready(r.ref) /\ WellFormed(r)  BY <1>1, <1>2, LoggedIsReady
<1>4. BooksOK  BY DEF LayerInv
<1>5. AnsweredBy(r)  BY <1>2, <1>3, <1>4, SettleAnswers DEF AnsweredBy
<1> QED  BY <1>1, <1>5 DEF HubMoves

\* reconcile: a migration, a result the fast lane applied before, or one it did not.
LEMMA ProvenMoves ==
  ASSUME LayerInv, NEW n \in DOMAIN results, ProvenResult(n)
  PROVE  HubMoves
<1>1. PICK r : r = results[n]  OBVIOUS
<1>2. BooksOK /\ IsHub(hub) /\ Reconcile(r)  BY <1>1 DEF LayerInv, BooksOK, ProvenResult
<1>3. CASE ReconcileMigration(r)
  <2>1. PICK h : h = hub'  OBVIOUS
  <2>2. PICK raw : raw = r.amountOut  OBVIOUS
  <2>3. h = [hub EXCEPT !.supply = @ + raw] /\ raw \in Nat
    BY <1>1, <1>3, <2>1, <2>2 DEF ReconcileMigration, LayerInv, LogOK, WellFormed, ResultType
  <2>4. /\ h.order = hub.order /\ h.native = hub.native /\ h.escrowed = hub.escrowed
        /\ h.accruedFees = hub.accruedFees /\ h.claimableTotal = hub.claimableTotal
        /\ h.supply = hub.supply + raw
    BY <1>2, <2>3 DEF IsHub
  <2>5. h = [order |-> h.order, native |-> h.native, escrowed |-> h.escrowed,
             accruedFees |-> h.accruedFees, claimableTotal |-> h.claimableTotal,
             supply |-> h.supply]
    BY <1>2, <2>3 DEF IsHub
  <2>6. h.supply \in Nat  BY <1>2, <2>3, <2>4 DEF IsHub
  <2>7. IsHub(h)  BY <1>2, <2>4, <2>5, <2>6 DEF IsHub
  <2>8. hub.native - Owed(hub) \in Int  BY <1>2 DEF IsHub, Owed
  <2>9. Level(hub, h)  BY <2>4, <2>7, <2>8 DEF Level, Owed
  <2> QED  BY <2>1, <2>9 DEF HubMoves
<1>4. CASE ReconcileSettled(r)
  <2>1. r.ref \in Ids /\ Order(r.ref).lzSettled  BY <1>4 DEF ReconcileSettled
  <2>2. Order(r.ref).outcome # 0  BY <1>2, <2>1 DEF BooksOK, OrderOK, Order
  <2>3. PICK m \in ResultOf(r.ref) : Matches(r.ref, results[m])
    BY <2>1, <2>2 DEF LayerInv, HubAgreesWithVault
  <2>4. m = n  BY <1>1, <2>3 DEF LayerInv, OneResultPerRef, ResultOf
  <2>5. hub' = hub  BY <1>1, <1>4, <2>3, <2>4 DEF ReconcileSettled
  <2>6. Level(hub, hub)  BY <1>2, LevelSelf
  <2> QED  BY <2>5, <2>6 DEF HubMoves, Level, Owed
<1>5. CASE r.ref \in Ids /\ Settle(r.ref, r, TRUE)
  <2>1. Ready(r.ref) /\ WellFormed(r)  BY <1>1, <1>5, LoggedIsReady
  <2>2. AnsweredBy(r)  BY <1>2, <1>5, <2>1, SettleAnswers DEF AnsweredBy
  <2> QED  BY <1>1, <2>2 DEF HubMoves
<1> QED  BY <1>2, <1>3, <1>4, <1>5 DEF Reconcile

\* Money that arrives, in whatever state it finds its order.
LEMMA ReturnMoves ==
  ASSUME LayerInv, NEW i \in Ids, Ready(i), NEW amount \in Nat, ReceiveReturn(i, amount)
  PROVE  HubMoves
<1>1. PICK h : h = hub'  OBVIOUS
<1>2. h = Returned(hub, i, amount)  BY <1>1 DEF ReceiveReturn
<1>3. /\ IsHub(hub) /\ OrderOK(i, hub.order[i]) /\ hub.order[i].status # "None"
  BY DEF LayerInv, BooksOK, Ready, Order
<1>4. Quiet(hub, h, i)  BY <1>2, <1>3, ReturnedEffect
<1> QED  BY <1>1, <1>4 DEF HubMoves

\* The kinds of step.
LEMMA LayerStepKind ==
  ASSUME LayerInv, LayerNext
  PROVE  \/ UNCHANGED vaultVars /\ HubMoves /\ (HubStep \/ UNCHANGED sentVars)
         \/ UNCHANGED <<hub, sentVars>> /\ VaultMoves
<1>0. BooksOK /\ IsHub(hub) /\ Owed(hub) >= 0
  BY TotalsAreAmounts DEF LayerInv, BooksOK
<1>1. CASE HubStep /\ UNCHANGED vaultVars
  BY <1>0, <1>1, HubStepKind DEF HubMoves
<1>2. CASE VaultStep /\ UNCHANGED hubVars
  BY <1>2 DEF hubVars, sentVars, VaultMoves
<1>3. ASSUME NEW r \in lzSent, FastResult(r)
      PROVE  UNCHANGED vaultVars /\ HubMoves /\ UNCHANGED sentVars
  BY <1>3, FastMoves DEF FastResult, ReceiveResult
<1>4. ASSUME NEW n \in DOMAIN results, ProvenResult(n)
      PROVE  UNCHANGED vaultVars /\ HubMoves /\ UNCHANGED sentVars
  BY <1>4, ProvenMoves DEF ProvenResult, Reconcile
<1>5. ASSUME NEW i \in Buys, Fill(i)
      PROVE  UNCHANGED <<hub, sentVars>> /\ VaultMoves
  BY <1>5, HubAssumption, LayerAssumption DEF Fill, hubVars, sentVars, VaultMoves, Ids
<1>6. ASSUME NEW i \in Buys, NEW cost \in Costs, Bounce(i, cost)
      PROVE  UNCHANGED vaultVars /\ HubMoves /\ UNCHANGED sentVars
  <2>1. i \in Ids /\ Ready(i)  BY <1>6 DEF Bounce, LayerInv, SentOK, Ids
  <2>2. Principal - cost \in Nat  BY HubAssumption, LayerAssumption
  <2> QED  BY <1>6, <2>1, <2>2, ReturnMoves DEF Bounce, ReceiveReturn
<1>7. ASSUME NEW t \in returnsSent, NEW cost \in Costs, Credit(t, cost)
      PROVE  UNCHANGED vaultVars /\ HubMoves /\ UNCHANGED sentVars
  <2>1. t.ref \in Ids /\ t.amount \in Nat
    BY LayerAssumption DEF LayerInv, VaultTypeOK, TransferType
  <2>2. Ready(t.ref)  BY <2>1, LayerAssumption DEF LayerInv, HeldOK
  <2>3. t.amount - cost \in Nat  BY <1>7, <2>1, LayerAssumption, HubAssumption DEF Credit
  <2> QED  BY <1>7, <2>1, <2>2, <2>3, ReturnMoves DEF Credit, ReceiveReturn
<1>8. ASSUME NEW i \in Ids, NEW amount \in HubDust, CreditDust(i, amount)
      PROVE  UNCHANGED vaultVars /\ HubMoves /\ UNCHANGED sentVars
  <2>1. PICK h : h = hub'  OBVIOUS
  <2>2. h = Returned(hub, i, amount)  BY <1>8, <2>1 DEF CreditDust, ReceiveReturn
  <2>3. /\ IsHub(hub) /\ OrderOK(i, hub.order[i]) /\ hub.order[i].status # "None"
        /\ amount \in Nat
    BY <1>8, LayerAssumption DEF LayerInv, BooksOK, Order, CreditDust
  <2>4. Quiet(hub, h, i)  BY <2>2, <2>3, ReturnedEffect
  <2> QED  BY <1>8, <2>1, <2>4 DEF HubMoves, CreditDust, ReceiveReturn, ToppedUp
<1>9. ASSUME NEW i \in Ids, NEW amount \in Subsidies, TopUpReserve(i, amount)
      PROVE  UNCHANGED vaultVars /\ HubMoves /\ UNCHANGED sentVars
  <2>1. amount \in Nat  BY HubAssumption
  <2>2. Quiet(hub, hub', i)  BY <1>0, <1>9, <2>1, SubsidizeQuiet DEF TopUpReserve
  <2> QED  BY <1>9, <2>2 DEF HubMoves, TopUpReserve, ToppedUp, Subsidize
<1>10. ASSUME NEW r \in Refs, NEW amount \in FundAmounts, Donation(r, amount)
       PROVE  UNCHANGED <<hub, sentVars>> /\ VaultMoves
  BY <1>10, VaultAssumption DEF Donation, hubVars, sentVars, VaultMoves
<1> QED
  BY <1>1, <1>2, <1>3, <1>4, <1>5, <1>6, <1>7, <1>8, <1>9, <1>10 DEF LayerNext

\* The books after a step of the hub.
LEMMA BooksStay ==
  ASSUME LayerInv, HubMoves
  PROVE  /\ BooksOK' /\ SumsOK(hub)'
         /\ \A j \in Ids : Ready(j) => Ready(j)'
<1>1. IsHub(hub) /\ SumsOK(hub) /\ \A j \in Ids : OrderOK(j, hub.order[j])
  BY DEF LayerInv, BooksOK
<1>2. PICK h : h = hub'  OBVIOUS
<1>3. CASE Level(hub, h)
  <2>1. SumsOK(h)  BY <1>1, <1>3, LevelKeepsSums
  <2>2. IsHub(h) /\ h.order = hub.order  BY <1>3 DEF Level
  <2>3. \A j \in Ids : OrderOK(j, h.order[j])  BY <1>1, <2>2
  <2> QED  BY <1>2, <2>1, <2>2, <2>3 DEF BooksOK, SumsOK, Ready, Order
<1>4. ASSUME NEW i \in Ids, Sound(hub, h, i)
      PROVE  /\ BooksOK' /\ SumsOK(hub)'
             /\ \A j \in Ids : Ready(j) => Ready(j)'
  <2>1. SumsOK(h)  BY <1>1, <1>4, SoundKeepsSums
  <2>2. IsHub(h) /\ \A j \in Ids \ {i} : h.order[j] = hub.order[j]  BY <1>4 DEF Sound, Differs
  <2>3. OrderOK(i, h.order[i])  BY <1>4 DEF Sound, Follows
  <2>4. \A j \in Ids : OrderOK(j, h.order[j])
    <3>1. ASSUME NEW j \in Ids PROVE OrderOK(j, h.order[j])
      <4>1. CASE j = i  BY <2>3, <4>1
      <4>2. CASE j # i  BY <1>1, <2>2, <4>2
      <4> QED  BY <4>1, <4>2
    <3> QED  BY <3>1
  <2>5. \A j \in Ids : Ready(j) => Ready(j)'
    <3>1. Sound(hub, hub', i)  BY <1>2, <1>4
    <3> QED  BY <3>1, ReadyStays
  <2>6. SumsOK(hub')  BY <1>2, <2>1
  <2>7. BooksOK'  BY <1>2, <2>2, <2>4 DEF BooksOK
  <2> QED  BY <2>5, <2>6, <2>7 DEF SumsOK
<1>5. Level(hub, h) \/ \E i \in Ids : Sound(hub, h, i)
  BY <1>2 DEF HubMoves, Quiet, AnsweredBy, Answers
<1> QED  BY <1>3, <1>4, <1>5

\* HubAgreesWithVault, of a hub and a log.
Agreed(h, log) ==
  \A i \in Ids :
    /\ h.order[i].outcome # 0 =>
         \E n \in DOMAIN log :
           /\ log[n].ref = i
           /\ h.order[i].rawOut = log[n].amountOut
           /\ h.order[i].outcome = Code(log[n].outcome)
    /\ ~h.order[i].disputed

\* The property says it of the present hub and log, before and after a step.
LEMMA AgreementIs ==
  /\ HubAgreesWithVault <=> Agreed(hub, results)
  /\ HubAgreesWithVault' <=> Agreed(hub', results')
<1>1. HubAgreesWithVault <=> Agreed(hub, results)
  BY DEF HubAgreesWithVault, ResultOf, Matches, Order, Code, Agreed
<1>2. HubAgreesWithVault' <=> Agreed(hub', results')
  BY DEF HubAgreesWithVault, ResultOf, Matches, Order, Code, Agreed
<1> QED  BY <1>1, <1>2

\* An answer the hub acts on is the vault's, and there is no dispute.
LEMMA HubStaysInAgreement ==
  ASSUME LayerInv, HubMoves, UNCHANGED vaultVars
  PROVE  HubAgreesWithVault'
<1>0. results' = results  BY DEF vaultVars, logVars
<1>1. PICK h : h = hub'  OBVIOUS
<1>2. Agreed(hub, results)  BY AgreementIs DEF LayerInv
<1>3. ASSUME Level(hub, h)  PROVE Agreed(h, results)  BY <1>2, <1>3 DEF Level, Agreed
<1>4. ASSUME NEW i \in Ids, Quiet(hub, h, i)  PROVE Agreed(h, results)
  <2>1. \A j \in Ids : SameAnswer(h.order[j], hub.order[j])
    BY <1>4 DEF Quiet, Sound, Differs, SameAnswer
  <2> QED  BY <1>2, <2>1 DEF Agreed, SameAnswer
<1>5. ASSUME NEW n \in DOMAIN results, results[n].ref \in Ids,
             Answers(hub, h, results[n].ref, Code(results[n].outcome), results[n].amountOut)
      PROVE  Agreed(h, results)
  <2>1. PICK i \in Ids : i = results[n].ref  BY <1>5
  <2>2. /\ h.order[i].outcome = Code(results[n].outcome)
        /\ h.order[i].rawOut = results[n].amountOut
        /\ h.order[i].disputed = hub.order[i].disputed
        /\ \A j \in Ids \ {i} : h.order[j] = hub.order[j]
    BY <1>5, <2>1 DEF Answers, Sound, Differs
  <2>3. ASSUME NEW j \in Ids
        PROVE  /\ h.order[j].outcome # 0 =>
                    \E m \in DOMAIN results :
                      /\ results[m].ref = j
                      /\ h.order[j].rawOut = results[m].amountOut
                      /\ h.order[j].outcome = Code(results[m].outcome)
               /\ ~h.order[j].disputed
    <3>1. CASE j = i
      <4>1. ~h.order[i].disputed  BY <1>2, <2>2 DEF Agreed
      <4> QED  BY <2>1, <2>2, <3>1, <4>1
    <3>2. CASE j # i
      <4>1. h.order[j] = hub.order[j]  BY <2>2, <3>2
      <4> QED  BY <1>2, <4>1 DEF Agreed
    <3> QED  BY <3>1, <3>2
  <2> QED  BY <2>3 DEF Agreed
<1>6. Agreed(h, results)  BY <1>1, <1>3, <1>4, <1>5 DEF HubMoves, AnsweredBy
<1> QED  BY <1>0, <1>1, <1>6, AgreementIs

\* The switches are switched on or off.
LEMMA SwitchesStay ==
  ASSUME LayerNext, mintsHalted \in BOOLEAN, floatEnabled \in BOOLEAN
  PROVE  mintsHalted' \in BOOLEAN /\ floatEnabled' \in BOOLEAN
<1>1. ASSUME NEW i \in Ids, UserStep(i)  PROVE UNCHANGED <<mintsHalted, floatEnabled>>
  BY <1>1 DEF UserStep, RequestBuy, RequestSell, Dispatch, CancelPending, RequestCancel,
              VoidOrder, Escalate, EscalateFunds, CanonicalRedeem, Claim, laneVars
<1>2. ASSUME NEW i \in Ids, KeeperStep(i)  PROVE UNCHANGED <<mintsHalted, floatEnabled>>
  BY <1>2 DEF KeeperStep, Launch, ReserveReward, BeginFunding, SubmitFundedBuy, CancelReward,
              ClaimResult, laneVars
<1>3. ASSUME AdminStep  PROVE mintsHalted' \in BOOLEAN /\ floatEnabled' \in BOOLEAN
  BY <1>3 DEF AdminStep, ClaimFees, WithdrawHubFloat, SetHubFloat, SetMintsHalted, laneVars
<1>4. CASE UNCHANGED hubVars  BY <1>4 DEF hubVars
<1>5. ASSUME NEW r, FastResult(r)  PROVE UNCHANGED <<mintsHalted, floatEnabled>>
  BY <1>5 DEF FastResult, ReceiveResult
<1>6. ASSUME NEW n, ProvenResult(n)  PROVE mintsHalted' \in BOOLEAN /\ floatEnabled' \in BOOLEAN
  BY <1>6 DEF ProvenResult, Reconcile, ReconcileMigration, ReconcileSettled
<1>7. ASSUME NEW i, NEW amount, ReceiveReturn(i, amount)
      PROVE  UNCHANGED <<mintsHalted, floatEnabled>>
  BY <1>7 DEF ReceiveReturn, laneVars
<1>8. ASSUME NEW i, NEW amount, Subsidize(i, amount)
      PROVE  UNCHANGED <<mintsHalted, floatEnabled>>
  BY <1>8 DEF Subsidize, laneVars
<1> QED
  BY <1>1, <1>2, <1>3, <1>4, <1>5, <1>6, <1>7, <1>8
     DEF LayerNext, HubStep, Fill, Bounce, Credit, CreditDust, TopUpReserve, Donation

\* Every step of the layer keeps its invariant.
LEMMA LayerStep ==
  ASSUME LayerInv, [LayerNext]_layerVars
  PROVE  LayerInv'
<1>1. CASE UNCHANGED layerVars
  <2>1. /\ UNCHANGED <<hub, mintsHalted, floatEnabled, sentVars>> /\ UNCHANGED vaultVars
    BY <1>1 DEF layerVars, hubVars, sentVars
  <2>2. BooksOK' /\ SumsOK(hub)' /\ mintsHalted' \in BOOLEAN /\ floatEnabled' \in BOOLEAN
    BY <2>1 DEF LayerInv, BooksOK, SumsOK
  <2>3. VaultTypeOK' /\ OneResultPerRef'
    BY <2>1, TypeStep, NextSettlesOnce DEF LayerInv
  <2>4. /\ results' = results /\ lzSent' = lzSent /\ settled' = settled
        /\ waiting' = waiting /\ returnsSent' = returnsSent
    BY <2>1 DEF vaultVars, logVars
  <2>5. LogOK'  BY <2>4 DEF LayerInv, LogOK
  <2>7. HubAgreesWithVault'  BY <2>1, <2>4, AgreementIs DEF LayerInv
  <2>6. SentOK' /\ HeldOK'
    BY <2>1, <2>4 DEF LayerInv, SentOK, HeldOK, Ready, Order, sentVars
  <2> QED  BY <2>2, <2>3, <2>5, <2>6, <2>7 DEF LayerInv
<1>2. CASE UNCHANGED vaultVars /\ HubMoves /\ (HubStep \/ UNCHANGED sentVars) /\ LayerNext
  <2>1. BooksOK' /\ SumsOK(hub)' /\ \A j \in Ids : Ready(j) => Ready(j)'
    BY <1>2, BooksStay
  <2>2. mintsHalted' \in BOOLEAN /\ floatEnabled' \in BOOLEAN
    BY <1>2, SwitchesStay DEF LayerInv
  <2>3. VaultTypeOK' /\ OneResultPerRef'
    BY <1>2, TypeStep, NextSettlesOnce DEF LayerInv
  <2>4. /\ results' = results /\ lzSent' = lzSent /\ settled' = settled
        /\ waiting' = waiting /\ returnsSent' = returnsSent
    BY <1>2 DEF vaultVars, logVars
  <2>5. LogOK'  BY <2>4 DEF LayerInv, LogOK
  <2>6. HubAgreesWithVault'  BY <1>2, HubStaysInAgreement
  <2>7. HeldOK'  BY <2>1, <2>4, LayerAssumption DEF LayerInv, HeldOK
  <2>8. SentOK'
    <3>1. /\ \A o \in lzOrdersSent' : o \in lzOrdersSent \/ (o \in OrderType /\ Ready(o.ref)')
          /\ \A d \in deliversSent' : d \in deliversSent \/ (d \in DeliverType /\ Ready(d.ref)')
          /\ \A i \in transfersSent' : i \in transfersSent \/ (i \in Buys /\ Ready(i)')
      BY <1>2, HubSends DEF LayerInv, sentVars
    <3>2. /\ \A o \in lzOrdersSent : o \in OrderType /\ Ready(o.ref) /\ o.ref \in Ids
          /\ \A d \in deliversSent : d \in DeliverType /\ Ready(d.ref) /\ d.ref \in Ids
          /\ \A i \in transfersSent : i \in Buys /\ Ready(i) /\ i \in Ids
      BY LayerAssumption DEF LayerInv, SentOK, OrderType, DeliverType, Ids
    <3> QED  BY <2>1, <3>1, <3>2 DEF SentOK
  <2> QED  BY <2>1, <2>2, <2>3, <2>5, <2>6, <2>7, <2>8 DEF LayerInv
<1>3. CASE UNCHANGED <<hub, sentVars>> /\ VaultMoves /\ LayerNext
  <2>1. AnyVaultStep  BY <1>3, VaultStepIsAny DEF LayerInv
  <2>2. BooksOK' /\ SumsOK(hub)' /\ \A j : Ready(j)' = Ready(j)
    BY <1>3 DEF LayerInv, BooksOK, SumsOK, Ready, Order
  <2>3. mintsHalted' \in BOOLEAN /\ floatEnabled' \in BOOLEAN
    BY <1>3, SwitchesStay DEF LayerInv
  <2>4. VaultTypeOK' /\ OneResultPerRef' /\ LogOK' /\ Kept
    BY <2>1, TypeStep, NextSettlesOnce, VaultLogs DEF LayerInv
  <2>5. HeldOK'  BY <1>3, VaultHolds DEF LayerInv
  <2>6. SentOK'  BY <1>3, <2>2 DEF LayerInv, SentOK, sentVars
  <2>7. HubAgreesWithVault'
    <3>1. Agreed(hub, results)  BY AgreementIs DEF LayerInv
    <3>2. Agreed(hub, results')  BY <2>4, <3>1 DEF Agreed, Kept
    <3> QED  BY <1>3, <3>2, AgreementIs
  <2> QED  BY <2>2, <2>3, <2>4, <2>5, <2>6, <2>7 DEF LayerInv
<1> QED  BY <1>1, <1>2, <1>3, LayerStepKind

-----------------------------------------------------------------------------
(* The theorems.                                                           *)

\* No order, no message, no entry of the log.
LEMMA LayerStarts ==
  ASSUME LayerInit
  PROVE  LayerInv
<1>1. /\ hub = [order |-> [i \in Ids |-> NoOrder], native |-> HubFloat, escrowed |-> 0,
                accruedFees |-> 0, claimableTotal |-> 0, supply |-> InitialSupply]
      /\ HubFloat \in Nat /\ InitialSupply \in Nat
  BY HubAssumption DEF LayerInit, HubInit
<1>2. PICK h : h = hub  OBVIOUS
<1>3. /\ h.order = [i \in Ids |-> NoOrder] /\ h.native = HubFloat /\ h.escrowed = 0
      /\ h.accruedFees = 0 /\ h.claimableTotal = 0 /\ h.supply = InitialSupply
  BY <1>1, <1>2
<1>4. NoOrder \in HubOrder
  <2>1. 0 \in 0..3  OBVIOUS
  <2> QED  BY <2>1 DEF NoOrder, HubOrder, Statuses
<1>5. IsHub(h)
  <2>1. h = [order |-> h.order, native |-> h.native, escrowed |-> h.escrowed,
             accruedFees |-> h.accruedFees, claimableTotal |-> h.claimableTotal,
             supply |-> h.supply]
    BY <1>1, <1>2
  <2> QED  BY <1>1, <1>3, <1>4, <2>1 DEF IsHub
<1>6. \A i \in Ids : h.order[i] = NoOrder  BY <1>3
<1>7. \A i \in Ids : OrderOK(i, h.order[i])  BY <1>6 DEF OrderOK, NoOrder
<1>8. SumsOK(h)
  <2>1. /\ \A i \in Ids : Escrows(h)[i] = 0 /\ Claims(h)[i] = 0
        /\ IsFiniteSet(Ids) /\ IsFiniteSet(Sells)
    BY <1>5, <1>6, Amounts DEF Escrows, Claims, EscrowFor, NoOrder
  <2>2. \A i \in Sells : Fees(h)[i] = 0  BY <1>6 DEF Fees, FeeFor, NoOrder, Ids
  <2>3. Sum(Escrows(h), Ids) = 0 /\ Sum(Claims(h), Ids) = 0 /\ Sum(Fees(h), Sells) = 0
    BY <2>1, <2>2, SumZero
  <2> QED  BY <1>1, <1>3, <2>3 DEF SumsOK, Owed
<1>9. mintsHalted \in BOOLEAN /\ floatEnabled \in BOOLEAN  BY DEF LayerInit, HubInit
<1>10. VaultTypeOK
  BY VaultAssumption DEF LayerInit, VaultInit, VaultTypeOK, MoneyTypeOK, LogTypeOK
<1>11. OneResultPerRef /\ LogOK
  BY DEF LayerInit, VaultInit, OneResultPerRef, Logged, LogOK
<1>12. SentOK /\ HeldOK  BY DEF LayerInit, HubInit, VaultInit, SentOK, HeldOK
<1>13. HubAgreesWithVault  BY <1>2, <1>6 DEF HubAgreesWithVault, Order, NoOrder
<1> QED  BY <1>2, <1>5, <1>7, <1>8, <1>9, <1>10, <1>11, <1>12, <1>13 DEF LayerInv, BooksOK

\* The invariant of the layer.
LEMMA LayerInvHolds == LayerSpec => []LayerInv
BY LayerStarts, LayerStep, PTL DEF LayerSpec

\* The fees the float advanced, over the sells.
LEMMA FeesAre == FeesAdvanced = Sum(Fees(hub), Sells)
<1>1. Fees(hub) = [i \in Sells |-> IF Order(i).advanced THEN Order(i).fee ELSE 0]
  BY DEF Fees, FeeFor, Order
<1>2. DOMAIN Fees(hub) = Sells  BY DEF Fees
<1> QED  BY <1>1, <1>2 DEF FeesAdvanced, SumFunction, Sum

\* The totals are the sums of the property.
LEMMA EscrowsAre ==
  /\ SumFunction([i \in Ids |-> EscrowOf(i)]) = Sum(Escrows(hub), Ids)
  /\ SumFunction([i \in Ids |-> Order(i).owed]) = Sum(Claims(hub), Ids)
<1>1. Escrows(hub) = [i \in Ids |-> EscrowOf(i)]  BY DEF Escrows, EscrowOf, EscrowFor, Order, KeepsFee
<1>2. Claims(hub) = [i \in Ids |-> Order(i).owed]  BY DEF Claims, Order
<1>3. DOMAIN Escrows(hub) = Ids /\ DOMAIN Claims(hub) = Ids  BY DEF Escrows, Claims
<1> QED  BY <1>1, <1>2, <1>3 DEF SumFunction, Sum

\* The hub is solvent (SolonStockHub.sol: escrowed, accruedFees, claimableTotal): its
\* counters are the sums of its obligations to every order, no amount is ever negative,
\* and the native money covers them all but for the fees of the sells the float paid;
\* for any number of orders, any amounts, any float, and every order in which users,
\* keepers, the two lanes and the money route act.
THEOREM HubAlwaysSolvent == LayerSpec => []HubSolvent
<1>1. LayerInv => HubSolvent
  <2>1. SUFFICES ASSUME LayerInv PROVE HubSolvent  OBVIOUS
  <2>2. IsHub(hub) /\ SumsOK(hub)  BY <2>1 DEF LayerInv, BooksOK
  <2>3. hub.escrowed \in Nat /\ hub.claimableTotal \in Nat  BY <2>2, TotalsAreAmounts
  <2>4. \A i \in Ids :
          /\ Order(i).status \in Statuses /\ Order(i).outcome \in 0..3
          /\ {Order(i).fee, Order(i).extra, Order(i).held, Order(i).owed, Order(i).amountOut,
              Order(i).rawOut, Order(i).custodyRaw, Order(i).refundReady, Order(i).paid,
              Order(i).shares} \subseteq Nat
    <3>1. ASSUME NEW i \in Ids
          PROVE  /\ Order(i).status \in Statuses /\ Order(i).outcome \in 0..3
                 /\ {Order(i).fee, Order(i).extra, Order(i).held, Order(i).owed,
                     Order(i).amountOut, Order(i).rawOut, Order(i).custodyRaw,
                     Order(i).refundReady, Order(i).paid, Order(i).shares} \subseteq Nat
      <4>1. hub.order[i] \in HubOrder  BY <2>2 DEF IsHub
      <4> QED  BY <4>1 DEF HubOrder, Order
    <3> QED  BY <3>1
  <2>5. {hub.native, hub.escrowed, hub.accruedFees, hub.claimableTotal, hub.supply} \subseteq Nat
    BY <2>2, <2>3 DEF IsHub
  <2>6. HubTypeOK  BY <2>1, <2>4, <2>5 DEF HubTypeOK, LayerInv
  <2>7. EscrowIsObligations  BY <2>2, EscrowsAre DEF EscrowIsObligations, SumsOK
  <2>8. hub.native + FeesAdvanced >= Owed(hub)  BY <2>2, FeesAre DEF SumsOK
  <2> QED  BY <2>6, <2>7, <2>8 DEF HubSolvent
<1> QED  BY <1>1, LayerInvHolds, PTL

\* The two lanes agree: whatever repeats, overtakes or never arrives, the hub acts on
\* nothing but the one result the vault logged for the order, and reconcile never finds
\* a result that differs from the one the fast lane applied (HubSettlement.settle,
\* reconcile; resultDisputed stays false and no mint is halted by a mismatch).
THEOREM LanesAgree == LayerSpec => []HubAgreesWithVault
BY LayerInvHolds, PTL DEF LayerInv

\* What the vault promises on its own.
VaultPromises ==
  /\ VaultTypeOK /\ OneResultPerRef
  /\ RefMoneyConserved /\ LiabilitiesCovered /\ FullyBacked

\* With the hub the vault keeps its promises (ReserveVault.sol): the messages the hub
\* sends are among the orders and deliveries the vault was proved for, so there is one
\* result per ref, the money of each ref is apart, and both reserves cover what is owed.
THEOREM VaultKeepsPromises == LayerSpec => []VaultPromises
<1>1. LayerInit => VaultPromises
  <2>1. SUFFICES ASSUME LayerInit PROVE VaultPromises  OBVIOUS
  <2>2. VaultInit  BY <2>1 DEF LayerInit
  <2>3. VaultTypeOK /\ OneResultPerRef  BY <2>1, LayerStarts DEF LayerInv
  <2>4. RefMoneyConserved /\ FullyBacked
    BY <2>2, VaultAssumption DEF VaultInit, RefMoneyConserved, FullyBacked
  <2>5. LiabilitiesCovered  BY <2>2, VaultStartsCovered
  <2> QED  BY <2>3, <2>4, <2>5 DEF VaultPromises
<1>2. LayerInv /\ LayerInv' /\ VaultPromises /\ [LayerNext]_layerVars => VaultPromises'
  <2>1. SUFFICES ASSUME LayerInv, LayerInv', VaultPromises, [LayerNext]_layerVars
                 PROVE  VaultPromises'
    OBVIOUS
  <2>2. [AnyVaultStep]_vaultVars
    BY <2>1, LayerStepKind, VaultStepIsAny DEF layerVars, LayerInv
  <2>3. VaultTypeOK' /\ OneResultPerRef'  BY <2>1 DEF LayerInv
  <2>4. RefMoneyConserved'
    BY <2>1, <2>2, NextConserves DEF VaultPromises, RefMoneyConserved, Conserved
  <2>5. LiabilitiesCovered'  BY <2>1, <2>2, <2>3, NextCovers DEF VaultPromises
  <2>6. FullyBacked'  BY <2>1, <2>2, NextBacks DEF VaultPromises
  <2> QED  BY <2>3, <2>4, <2>5, <2>6 DEF VaultPromises
<1> QED  BY <1>1, <1>2, LayerInvHolds, PTL DEF LayerSpec

-----------------------------------------------------------------------------
(* Reservations.  Each step of the layer changes the ticket of one key at  *)
(* most: that of the order it places, launches or answers.                 *)

\* The book and its tickets are records; what the counters are does not matter here.
IsTicket(t) ==
  t = [state |-> t.state, lane |-> t.lane, sent |-> t.sent, unreviewed |-> t.unreviewed,
       asset |-> t.asset, usd |-> t.usd, raw |-> t.raw]

HasBookShape(b) ==
  b = [tickets |-> b.tickets, inflight |-> b.inflight, issued |-> b.issued,
       redeeming |-> b.redeeming, unreviewed |-> b.unreviewed,
       unreviewedReward |-> b.unreviewedReward, issuedRaw |-> b.issuedRaw,
       issuedOf |-> b.issuedOf, inflightOf |-> b.inflightOf, redeemingOf |-> b.redeemingOf]

IsBook(b) ==
  /\ HasBookShape(b)
  /\ b.tickets = [k \in Keys |-> b.tickets[k]]
  /\ \A k \in Keys : IsTicket(b.tickets[k])

\* c is the book b with another ticket of key k.
Touches(b, c, k) == IsBook(c) /\ \A j \in Keys \ {k} : c.tickets[j] = b.tickets[j]

\* The ticket of k is the same reservation.
SameReservation(b, c, k) ==
  /\ c.tickets[k].state = b.tickets[k].state
  /\ c.tickets[k].sent = b.tickets[k].sent

\* c is a book with the tickets of b but for t, the one of key k.
Replaced(b, c, k, t) == c.tickets = [b.tickets EXCEPT ![k] = t] /\ HasBookShape(c)

\* A book whose tickets are those of b but for the one of k.
LEMMA BookOf ==
  ASSUME NEW b, IsBook(b), NEW k \in Keys, NEW t, IsTicket(t), NEW c, Replaced(b, c, k, t)
  PROVE  Touches(b, c, k) /\ c.tickets[k] = t
<1> USE DEF Replaced
<1>1. c.tickets[k] = t /\ \A j \in Keys \ {k} : c.tickets[j] = b.tickets[j]  BY DEF IsBook
<1>2. \A j \in Keys : IsTicket(c.tickets[j])  BY <1>1 DEF IsBook
<1>3. c.tickets = [j \in Keys |-> c.tickets[j]]  BY DEF IsBook
<1> QED  BY <1>1, <1>2, <1>3 DEF Touches, IsBook

\* Counting a ticket as unreviewed, or no longer, touches no ticket.
LEMMA UnreviewedCount ==
  ASSUME NEW b, HasBookShape(b), NEW lane, NEW value, NEW c,
         c = AddUnreviewed(b, lane, value) \/ c = SubUnreviewed(b, lane, value)
  PROVE  HasBookShape(c) /\ c.tickets = b.tickets
<1>1. ASSUME NEW u, NEW r, c = [b EXCEPT !.unreviewed = u, !.unreviewedReward = r]
      PROVE  HasBookShape(c) /\ c.tickets = b.tickets
  BY <1>1 DEF HasBookShape, Replaced
<1> QED  BY <1>1 DEF AddUnreviewed, SubUnreviewed

\* reserve.
LEMMA ReservedTouches ==
  ASSUME NEW b, IsBook(b), NEW k \in Keys, NEW lane, NEW a, NEW value, NEW c,
         c = Reserved(b, k, lane, a, value)
  PROVE  Touches(b, c, k) /\ c.tickets[k].state = "Reserved"
<1>1. PICK t : t = [state |-> "Reserved", lane |-> lane, sent |-> FALSE, unreviewed |-> TRUE,
                    asset |-> a, usd |-> value, raw |-> 0]
  OBVIOUS
<1>2. IsTicket(t) /\ t.state = "Reserved"  BY <1>1 DEF IsTicket
<1>3. PICK d : d = [b EXCEPT !.tickets[k] = t, !.inflight = @ + value, !.inflightOf[a] = @ + value]
  OBVIOUS
<1>4. c = AddUnreviewed(d, lane, value)  BY <1>1, <1>3 DEF Reserved
<1>5. Replaced(b, d, k, t)
  BY <1>3 DEF IsBook, HasBookShape, Replaced
<1>6. Replaced(b, c, k, t)
  BY <1>4, <1>5, UnreviewedCount DEF Replaced
<1>7. Touches(b, c, k) /\ c.tickets[k] = t  BY <1>2, <1>6, BookOf
<1> QED  BY <1>2, <1>7

\* markSent.
LEMMA SentTouches ==
  ASSUME NEW b, IsBook(b), NEW k \in Keys, NEW c, c = SentMarked(b, k)
  PROVE  Touches(b, c, k) /\ c.tickets[k].state = b.tickets[k].state /\ c.tickets[k].sent
<1>0. PICK o : o = b.tickets[k] /\ IsTicket(o)  BY DEF IsBook
<1>1. PICK t : t = [o EXCEPT !.sent = TRUE]  OBVIOUS
<1>2. IsTicket(t) /\ t.state = o.state /\ t.sent = TRUE  BY <1>0, <1>1 DEF IsTicket
<1>3. Replaced(b, c, k, t)
  BY <1>0, <1>1 DEF IsBook, HasBookShape, Replaced, SentMarked
<1> QED  BY <1>0, <1>2, <1>3, BookOf

\* The calls that close a ticket, or leave it alone.
LEMMA DropTouches ==
  ASSUME NEW b, IsBook(b), NEW k \in Keys, NEW unsent \in BOOLEAN, NEW c, c = Dropped(b, k, unsent)
  PROVE  Touches(b, c, k)
<1>1. PICK t : t = IF unsent THEN NoTicket
                             ELSE [b.tickets[k] EXCEPT !.state = "Closed", !.unreviewed = FALSE]
  OBVIOUS
<1>2. IsTicket(t)  BY <1>1 DEF IsBook, IsTicket, NoTicket
<1>3. Replaced(b, c, k, t)
  BY <1>1 DEF IsBook, HasBookShape, Replaced, Dropped, SubUnreviewed
<1> QED  BY <1>2, <1>3, BookOf

\* A call that returns early touches no ticket.
LEMMA NothingTouched ==
  ASSUME NEW b, IsBook(b), NEW k
  PROVE  Touches(b, b, k)
BY DEF Touches

\* release.
LEMMA ReleasedTouches ==
  ASSUME NEW b, IsBook(b), NEW k \in Keys, NEW c, c = Released(b, k)
  PROVE  Touches(b, c, k)
BY DropTouches, NothingTouched DEF Released

\* finalizeBuy, with a ticket or (a migration) without one.
LEMMA BuyTouches ==
  ASSUME NEW b, IsBook(b), NEW k \in Keys, NEW a, NEW raw, NEW c, c = BuyFinalized(b, k, a, raw)
  PROVE  Touches(b, c, k)
<1>1. CASE b.tickets[k].state # "Reserved"
  <2>1. c = [b EXCEPT !.issuedRaw[a] = @ + raw]  BY <1>1 DEF BuyFinalized
  <2>2. /\ c.tickets = b.tickets
        /\ HasBookShape(c)
    BY <2>1 DEF IsBook, HasBookShape, Replaced
  <2> QED  BY <2>2 DEF Touches, IsBook
<1>2. CASE b.tickets[k].state = "Reserved"
  <2>1. PICK t : t = [b.tickets[k] EXCEPT !.state = "Issued", !.asset = a, !.raw = raw]  OBVIOUS
  <2>2. IsTicket(t)  BY <2>1 DEF IsBook, IsTicket
  <2>3. Replaced(b, c, k, t)
    BY <1>2, <2>1 DEF IsBook, HasBookShape, Replaced, BuyFinalized
  <2> QED  BY <2>2, <2>3, BookOf
<1> QED  BY <1>1, <1>2

\* review lowers the unreviewed count and keeps the reservation.
LEMMA ReviewTouches ==
  ASSUME NEW b, IsBook(b), NEW k \in Keys, NEW c, c = Reviewed(b, k)
  PROVE  Touches(b, c, k) /\ SameReservation(b, c, k)
<1>1. CASE c = b  BY <1>1, NothingTouched DEF SameReservation
<1>2. CASE c # b
  <2>0. PICK o : o = b.tickets[k] /\ IsTicket(o)  BY DEF IsBook
  <2>1. PICK t : t = [o EXCEPT !.unreviewed = FALSE]  OBVIOUS
  <2>2. IsTicket(t) /\ t.state = b.tickets[k].state /\ t.sent = b.tickets[k].sent
    BY <2>0, <2>1 DEF IsTicket
  <2>5. PICK d : d = [b EXCEPT !.tickets[k].unreviewed = FALSE]  OBVIOUS
  <2>6. c = SubUnreviewed(d, o.lane, o.usd)  BY <1>2, <2>0, <2>5 DEF Reviewed
  <2>7. Replaced(b, d, k, t)
    BY <2>0, <2>1, <2>5 DEF IsBook, HasBookShape, Replaced
  <2>3. Replaced(b, c, k, t)
    BY <2>6, <2>7, UnreviewedCount DEF Replaced
  <2>4. Touches(b, c, k) /\ c.tickets[k] = t  BY <2>2, <2>3, BookOf
  <2> QED  BY <2>2, <2>4 DEF SameReservation
<1> QED  BY <1>1, <1>2

\* beginRedeem.
LEMMA RedeemBegunTouches ==
  ASSUME NEW b, IsBook(b), NEW k \in Keys, NEW a, NEW raw, NEW c, c = RedeemBegun(b, k, a, raw)
  PROVE  Touches(b, c, k)
<1>1. PICK basis : basis = BasisOf(b, a, raw)  OBVIOUS
<1>2. PICK cut : cut = IF raw >= b.issuedRaw[a] THEN b.issuedRaw[a] ELSE raw  OBVIOUS
<1>3. PICK t : t = [state |-> "Redeeming", lane |-> 0, sent |-> TRUE, unreviewed |-> FALSE,
                    asset |-> a, usd |-> basis, raw |-> cut]
  OBVIOUS
<1>4. IsTicket(t)  BY <1>3 DEF IsTicket
<1>5. c = [b EXCEPT !.issuedRaw[a] = @ - cut, !.issuedOf[a] = @ - basis,
                    !.issued = @ - basis, !.redeeming = @ + basis,
                    !.redeemingOf[a] = @ + basis, !.tickets[k] = t]
  BY <1>1, <1>2, <1>3 DEF RedeemBegun
<1>6. Replaced(b, c, k, t)  BY <1>5 DEF IsBook, HasBookShape, Replaced
<1> QED  BY <1>4, <1>6, BookOf

\* Every call of a redemption touches its own ticket.
LEMMA RedeemTouches ==
  ASSUME NEW b, IsBook(b), NEW k \in Keys, NEW c,
         \/ \E a, raw : c = RedeemBegun(b, k, a, raw)
         \/ \E reviewed \in BOOLEAN : c = RedeemFinalized(b, k, reviewed)
         \/ c = RedeemReverted(b, k)
  PROVE  Touches(b, c, k)
<1>1. ASSUME NEW a, NEW raw, c = RedeemBegun(b, k, a, raw)
      PROVE  Touches(b, c, k)
  BY <1>1, RedeemBegunTouches
<1>2. ASSUME NEW reviewed \in BOOLEAN, c = RedeemFinalized(b, k, reviewed), c # b
      PROVE  Touches(b, c, k)
  <2>1. PICK t : t = [b.tickets[k] EXCEPT !.state = "Closed", !.unreviewed = ~reviewed]  OBVIOUS
  <2>2. IsTicket(t)  BY <2>1 DEF IsBook, IsTicket
  <2>3. PICK d : d = [b EXCEPT !.redeeming = @ - b.tickets[k].usd,
                               !.redeemingOf[b.tickets[k].asset] = @ - b.tickets[k].usd,
                               !.tickets[k].state = "Closed",
                               !.tickets[k].unreviewed = ~reviewed]
    OBVIOUS
  <2>4. c = d \/ c = AddUnreviewed(d, b.tickets[k].lane, b.tickets[k].usd)
    BY <1>2, <2>3 DEF RedeemFinalized
  <2>5. Replaced(b, d, k, t)
    BY <2>1, <2>3 DEF IsBook, HasBookShape, Replaced
  <2>6. Replaced(b, c, k, t)
    BY <2>4, <2>5, UnreviewedCount DEF Replaced
  <2> QED  BY <2>2, <2>6, BookOf
<1>3. ASSUME c = RedeemReverted(b, k), c # b
      PROVE  Touches(b, c, k)
  <2>1. PICK t : t = [b.tickets[k] EXCEPT !.state = "Closed"]  OBVIOUS
  <2>2. IsTicket(t)  BY <2>1 DEF IsBook, IsTicket
  <2>3. Replaced(b, c, k, t)
    BY <1>3, <2>1 DEF IsBook, HasBookShape, Replaced, RedeemReverted
  <2> QED  BY <2>2, <2>3, BookOf
<1> QED  BY <1>1, <1>2, <1>3, NothingTouched

\* Two calls about one key.
LEMMA TouchedTwice ==
  ASSUME NEW b, NEW c, NEW d, NEW k, Touches(b, c, k), Touches(c, d, k)
  PROVE  Touches(b, d, k)
BY DEF Touches

\* What a step may do to the ticket of one key: a buy whose principal left keeps its
\* reservation, gets one, or is answered.
TicketMoves ==
  /\ IsBook(book')
  /\ \/ book' = book /\ transfersSent' = transfersSent
     \/ \E k \in Keys :
          /\ Touches(book, book', k)
          /\ transfersSent' \subseteq transfersSent \cup {k}
          /\ k \in transfersSent' =>
               \/ hub'.order[k].outcome # 0
               \/ book'.tickets[k].state = "Reserved" /\ book'.tickets[k].sent
               \/ k \in transfersSent /\ SameReservation(book, book', k)

\* The orders that users and keepers place, launch and take back.
LEMMA HubStepTickets ==
  ASSUME LayerInv, IsBook(book), HubStep
  PROVE  TicketMoves
<1>0. /\ \A i \in Ids : i \in Keys
      /\ \A i \in transfersSent : i \in Buys /\ Ready(i)
      /\ Buys \cap Sells = {}
  BY HubAssumption DEF LayerInv, SentOK
<1>1. ASSUME UNCHANGED <<sentVars, capVars>>  PROVE TicketMoves
  BY <1>1 DEF TicketMoves, sentVars, capVars
<1>2. ASSUME UNCHANGED <<transfersSent, book>>  PROVE TicketMoves
  BY <1>2 DEF TicketMoves
<1>3. ASSUME NEW k \in Keys, k \notin transfersSent, Touches(book, book', k),
             transfersSent' = transfersSent
      PROVE  TicketMoves
  BY <1>3 DEF TicketMoves, Touches
<1>4. ASSUME NEW i \in Ids, RequestSell(i) \/ \E mode : CanonicalRedeem(i, mode)
      PROVE  TicketMoves
  <2>1. i \in Sells /\ book' = RedeemBegun(book, i, Asset, SharesIn) /\ transfersSent' = transfersSent
    BY <1>4 DEF RequestSell, CanonicalRedeem, sentVars
  <2>2. i \in Keys /\ i \notin transfersSent  BY <1>0, <2>1
  <2>3. Touches(book, book', i)  BY <2>1, <2>2, RedeemBegunTouches
  <2> QED  BY <1>3, <2>1, <2>2, <2>3
<1>5. ASSUME NEW i \in Ids, ReserveReward(i)  PROVE TicketMoves
  <2>1. i \notin transfersSent /\ i \in Keys  BY <1>0, <1>5 DEF ReserveReward, Ready
  <2>2. book' = Reserved(book, i, 1, Asset, Principal) /\ transfersSent' = transfersSent
    BY <1>5 DEF ReserveReward, ReserveFor, sentVars
  <2>3. Touches(book, book', i)  BY <2>1, <2>2, ReservedTouches
  <2> QED  BY <1>3, <2>1, <2>2, <2>3
<1>6. ASSUME NEW i \in Ids, CancelReward(i)  PROVE TicketMoves
  <2>1. i \notin transfersSent /\ i \in Keys
    BY <1>0, <1>6 DEF CancelReward, Ready, Buys
  <2>2. book' = Dropped(book, i, TRUE) /\ transfersSent' = transfersSent
    BY <1>6 DEF CancelReward, sentVars
  <2>3. Touches(book, book', i)  BY <2>1, <2>2, DropTouches
  <2> QED  BY <1>3, <2>1, <2>2, <2>3
<1>7. ASSUME NEW i \in Ids, NEW routeFee, Launch(i, routeFee)  PROVE TicketMoves
  <2>1. i \in Keys  BY <1>0
  <2>2. CASE UNCHANGED <<sentVars, book>>  BY <1>2, <2>2 DEF sentVars
  <2>3. CASE /\ transfersSent' = transfersSent \cup {i}
             /\ \/ book' = SentMarked(Reserved(book, i, 0, Asset, Principal), i)
                \/ book.tickets[i].state = "Reserved" /\ book' = SentMarked(book, i)
    <3>1. PICK c : /\ Touches(book, c, i) /\ c.tickets[i].state = "Reserved"
                   /\ book' = SentMarked(c, i)
      <4>1. CASE book.tickets[i].state = "Reserved" /\ book' = SentMarked(book, i)
        BY <4>1, NothingTouched
      <4>2. ASSUME book' = SentMarked(Reserved(book, i, 0, Asset, Principal), i)
            PROVE  \E c : /\ Touches(book, c, i) /\ c.tickets[i].state = "Reserved"
                          /\ book' = SentMarked(c, i)
        <5>1. PICK c : c = Reserved(book, i, 0, Asset, Principal)  OBVIOUS
        <5>2. Touches(book, c, i) /\ c.tickets[i].state = "Reserved"
          BY <2>1, <5>1, ReservedTouches
        <5> QED  BY <4>2, <5>1, <5>2
      <4> QED  BY <2>3, <4>1, <4>2
    <3>2. IsBook(c)  BY <3>1 DEF Touches
    <3>3. /\ Touches(c, book', i) /\ book'.tickets[i].state = "Reserved"
          /\ book'.tickets[i].sent
      BY <2>1, <3>1, <3>2, SentTouches
    <3>4. Touches(book, book', i)  BY <3>1, <3>3, TouchedTwice
    <3> QED  BY <2>1, <2>3, <3>3, <3>4 DEF TicketMoves, Touches
  <2> QED  BY <1>7, <2>2, <2>3 DEF Launch
<1>8. ASSUME NEW i \in Ids, UserStep(i)  PROVE TicketMoves
  <2>1. \/ UNCHANGED <<transfersSent, book>>
        \/ RequestSell(i) \/ \E mode : CanonicalRedeem(i, mode)
    BY <1>8 DEF UserStep, RequestBuy, Dispatch, CancelPending, RequestCancel, VoidOrder, Escalate,
                EscalateFunds, Claim, sentVars, capVars
  <2> QED  BY SMTT(30), <1>2, <1>4, <2>1
<1>9. ASSUME NEW i \in Ids, KeeperStep(i)  PROVE TicketMoves
  <2>1. \/ UNCHANGED <<transfersSent, book>>
        \/ ReserveReward(i) \/ CancelReward(i) \/ \E routeFee : Launch(i, routeFee)
    BY <1>9 DEF KeeperStep, BeginFunding, SubmitFundedBuy, ClaimResult, sentVars, capVars
  <2> QED  BY <1>2, <1>5, <1>6, <1>7, <2>1
<1>10. ASSUME AdminStep  PROVE UNCHANGED <<transfersSent, book>>
  BY <1>10 DEF AdminStep, ClaimFees, WithdrawHubFloat, SetHubFloat, SetMintsHalted, sentVars,
               capVars
<1> QED  BY <1>2, <1>8, <1>9, <1>10 DEF HubStep

\* An answer, on either lane.
LEMMA SettleTickets ==
  ASSUME LayerInv, IsBook(book), NEW r, r.ref \in Ids, Ready(r.ref), WellFormed(r),
         NEW canonical \in BOOLEAN, Settle(r.ref, r, canonical), UNCHANGED sentVars
  PROVE  TicketMoves
<1>0. PICK i \in Ids : i = r.ref  OBVIOUS
<1>1. i \in Keys  BY <1>0, HubAssumption
<1>2. hub'.order[i].outcome # 0
  <2>1. Answers(hub, hub', i, Code(r.outcome), r.amountOut)
    BY <1>0, SettleAnswers DEF LayerInv
  <2> QED  BY <2>1 DEF Answers, Code, WellFormed, ResultType
<1>3. PICK c : Touches(book, c, i) /\ (book' = c \/ book' = Reviewed(c, i))
  <2>1. CASE r.outcome = "Bought"
    <3>1. PICK c : c = BuyFinalized(book, i, Asset, r.amountOut)  OBVIOUS
    <3>2. Touches(book, c, i)  BY <1>1, <3>1, BuyTouches
    <3>3. book' = c \/ book' = Reviewed(c, i)  BY <1>0, <2>1, <3>1 DEF Settle
    <3> QED  BY <3>2, <3>3
  <2>2. CASE r.outcome = "Sold"
    <3>1. book' = RedeemFinalized(book, i, canonical)  BY <1>0, <2>2 DEF Settle
    <3>2. Touches(book, book', i)  BY <1>1, <3>1, RedeemTouches
    <3> QED  BY <3>2
  <2>3. CASE r.outcome = "Failed"
    <3>1. book' = Released(book, i) \/ book' = RedeemReverted(book, i)
      BY <1>0, <2>3 DEF Settle
    <3>2. Touches(book, book', i)  BY <1>1, <3>1, ReleasedTouches, RedeemTouches
    <3> QED  BY <3>2
  <2> QED  BY <2>1, <2>2, <2>3 DEF WellFormed, ResultType
<1>4. Touches(book, book', i)
  <2>1. CASE book' = c  BY <1>3, <2>1
  <2>2. CASE book' = Reviewed(c, i)
    <3>1. IsBook(c)  BY <1>3 DEF Touches
    <3>2. Touches(c, book', i)  BY <1>1, <2>2, <3>1, ReviewTouches
    <3> QED  BY <1>3, <3>2, TouchedTwice
  <2> QED  BY <1>3, <2>1, <2>2
<1>5. transfersSent' = transfersSent  BY DEF sentVars
<1> QED  BY <1>1, <1>2, <1>4, <1>5 DEF TicketMoves, Touches

\* Every step of the layer.
LEMMA LayerTickets ==
  ASSUME LayerInv, IsBook(book), LayerNext
  PROVE  TicketMoves
<1>1. ASSUME UNCHANGED <<transfersSent, book>>  PROVE TicketMoves
  BY <1>1 DEF TicketMoves
<1>2. ASSUME NEW r \in lzSent, FastResult(r)  PROVE TicketMoves
  <2>1. PICK n \in DOMAIN results : results[n] = r  BY DEF LayerInv, LogOK
  <2>2. r.ref \in Ids /\ Settle(r.ref, r, FALSE) /\ UNCHANGED sentVars
    BY <1>2 DEF FastResult, ReceiveResult
  <2>3. Ready(r.ref) /\ WellFormed(r)  BY <2>1, <2>2, LoggedIsReady
  <2> QED  BY <2>2, <2>3, SettleTickets
<1>3. ASSUME NEW n \in DOMAIN results, ProvenResult(n)  PROVE TicketMoves
  <2>1. PICK r : r = results[n]  OBVIOUS
  <2>2. Reconcile(r) /\ UNCHANGED sentVars /\ WellFormed(r)
    BY <1>3, <2>1 DEF ProvenResult, Reconcile, LayerInv, LogOK
  <2>3. CASE ReconcileMigration(r)
    <3>1. r.ref \notin Ids /\ book' = BuyFinalized(book, r.ref, Asset, r.amountOut)
      BY <2>3 DEF ReconcileMigration
    <3>2. r.ref \in Keys
      BY <2>2, <3>1, LayerAssumption DEF WellFormed, ResultType, AllRefs
    <3>3. r.ref \notin transfersSent /\ transfersSent' = transfersSent
      BY <2>2, <3>1 DEF LayerInv, SentOK, Ids, sentVars
    <3>4. Touches(book, book', r.ref)  BY <3>1, <3>2, BuyTouches
    <3> QED  BY <3>2, <3>3, <3>4 DEF TicketMoves, Touches
  <2>4. CASE ReconcileSettled(r)
    <3>1. r.ref \in Ids /\ (book' = book \/ book' = Reviewed(book, r.ref))
      BY <2>4 DEF ReconcileSettled
    <3>2. r.ref \in Keys /\ transfersSent' = transfersSent
      BY <2>2, <3>1, HubAssumption DEF sentVars
    <3>3. CASE book' = Reviewed(book, r.ref)
      <4>1. Touches(book, book', r.ref) /\ SameReservation(book, book', r.ref)
        BY <3>2, <3>3, ReviewTouches
      <4> QED  BY <3>2, <4>1 DEF TicketMoves, Touches
    <3> QED  BY <1>1, <3>1, <3>2, <3>3
  <2>5. CASE r.ref \in Ids /\ Settle(r.ref, r, TRUE)
    <3>1. Ready(r.ref)  BY <2>1, <2>5, LoggedIsReady
    <3> QED  BY <2>2, <2>5, <3>1, SettleTickets
  <2> QED  BY <2>2, <2>3, <2>4, <2>5 DEF Reconcile
<1>4. ASSUME NEW i, NEW amount, ReceiveReturn(i, amount)  PROVE TicketMoves
  BY <1>1, <1>4 DEF ReceiveReturn, sentVars, capVars
<1>6. ASSUME NEW i, NEW amount, Subsidize(i, amount)  PROVE TicketMoves
  BY <1>1, <1>6 DEF Subsidize, sentVars, capVars
<1>5. ASSUME UNCHANGED hubVars  PROVE TicketMoves
  BY <1>1, <1>5 DEF hubVars, sentVars, capVars
<1> QED
  BY <1>2, <1>3, <1>4, <1>5, <1>6, HubStepTickets
     DEF LayerNext, Fill, Bounce, Credit, CreditDust, TopUpReserve, Donation

\* An order without an answer had none before.
LEMMA UnansweredBefore ==
  ASSUME LayerInv, LayerNext, NEW j \in Ids, hub'.order[j].outcome = 0
  PROVE  hub.order[j].outcome = 0
<1>1. CASE hub' = hub  BY <1>1
<1>2. CASE Level(hub, hub')  BY <1>2 DEF Level
<1>3. ASSUME NEW i \in Ids, Quiet(hub, hub', i)  PROVE hub.order[j].outcome = 0
  BY <1>3 DEF Quiet, SameAnswer, Sound, Differs
<1>4. ASSUME NEW n \in DOMAIN results, AnsweredBy(results[n])  PROVE hub.order[j].outcome = 0
  <2>1. PICK r : r = results[n]  OBVIOUS
  <2>2. WellFormed(r) /\ AnsweredBy(r)  BY <1>4, <2>1 DEF LayerInv, LogOK
  <2>3. hub'.order[r.ref].outcome # 0
    BY <2>2 DEF AnsweredBy, Answers, Code, WellFormed, ResultType
  <2>4. j # r.ref  BY <2>3
  <2> QED  BY <2>2, <2>4 DEF AnsweredBy, Answers, Sound, Differs
<1> QED  BY <1>1, <1>2, <1>3, <1>4, LayerStepKind DEF HubMoves

\* The invariant behind the reservations.
ReservedInv == LayerInv /\ IsBook(book) /\ ReservedUntilAnswered

\* Every step of the layer keeps the reservations of the unanswered orders.
LEMMA ReservedStep ==
  ASSUME ReservedInv, [LayerNext]_layerVars
  PROVE  ReservedInv'
<1>1. LayerInv'  BY LayerStep DEF ReservedInv
<1>2. CASE UNCHANGED layerVars
  BY <1>1, <1>2 DEF ReservedInv, ReservedUntilAnswered, Order, layerVars, hubVars, sentVars, capVars
<1>3. CASE LayerNext
  <2>1. TicketMoves  BY <1>3, LayerTickets DEF ReservedInv
  <2>2. \A j \in transfersSent' : j \in Buys /\ j \in Ids /\ j \in Keys
    BY <1>1, HubAssumption DEF LayerInv, SentOK, Ids
  <2>3. ASSUME NEW j \in transfersSent', hub'.order[j].outcome = 0
        PROVE  book'.tickets[j].state = "Reserved" /\ book'.tickets[j].sent
    <3>1. hub.order[j].outcome = 0  BY <1>3, <2>2, <2>3, UnansweredBefore DEF ReservedInv
    <3>2. j \in transfersSent => book.tickets[j].state = "Reserved" /\ book.tickets[j].sent
      BY <2>2, <3>1 DEF ReservedInv, ReservedUntilAnswered, Order
    <3>3. CASE book' = book /\ transfersSent' = transfersSent  BY <2>3, <3>2, <3>3
    <3>4. ASSUME NEW k \in Keys, Touches(book, book', k),
                 transfersSent' \subseteq transfersSent \cup {k},
                 k \in transfersSent' =>
                   \/ hub'.order[k].outcome # 0
                   \/ book'.tickets[k].state = "Reserved" /\ book'.tickets[k].sent
                   \/ k \in transfersSent /\ SameReservation(book, book', k)
          PROVE  book'.tickets[j].state = "Reserved" /\ book'.tickets[j].sent
      <4>1. CASE j # k
        <5>1. j \in transfersSent  BY <2>3, <3>4, <4>1
        <5> QED  BY <2>2, <2>3, <3>2, <3>4, <4>1, <5>1 DEF Touches
      <4>2. CASE j = k  BY <2>3, <3>2, <3>4, <4>2 DEF SameReservation
      <4> QED  BY <4>1, <4>2
    <3> QED  BY <2>1, <3>3, <3>4 DEF TicketMoves
  <2>4. ReservedUntilAnswered'  BY <2>3 DEF ReservedUntilAnswered, Order
  <2> QED  BY <1>1, <2>1, <2>4 DEF ReservedInv, TicketMoves
<1> QED  BY <1>2, <1>3

\* While the vault may still spend a buy's principal, the cap keeps room for it: the ticket
\* is reserved and marked as sent until the hub has the answer (StockLayer.
\* ReservedUntilAnswered).
THEOREM RoomUntilAnswered == LayerSpec => []ReservedUntilAnswered
<1>1. ASSUME LayerInit  PROVE ReservedInv
  <2>1. LayerInv  BY <1>1, LayerStarts
  <2>2. book = [EmptyBook EXCEPT !.issuedRaw[Asset] = InitialSupply]
    BY <1>1 DEF LayerInit, HubInit
  <2>3. IsBook(book)
    <3>1. book.tickets = [k \in Keys |-> NoTicket]  BY <2>2 DEF EmptyBook
    <3>2. HasBookShape(book)  BY <2>2 DEF EmptyBook, HasBookShape
    <3>3. IsTicket(NoTicket)  BY DEF IsTicket, NoTicket
    <3> QED  BY <3>1, <3>2, <3>3 DEF IsBook
  <2>4. transfersSent = {}  BY <1>1 DEF LayerInit, HubInit
  <2> QED  BY <2>1, <2>3, <2>4 DEF ReservedInv, ReservedUntilAnswered
<1> QED  BY <1>1, ReservedStep, PTL DEF LayerSpec, ReservedInv

=============================================================================
