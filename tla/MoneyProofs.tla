----------------------------- MODULE MoneyProofs -----------------------------
(***************************************************************************)
(* Proofs that every user of the layer is made whole, and once.            *)
(*                                                                         *)
(* A public buy is related to six things around it: whether its principal  *)
(* was sent out, whether the vault was told to hand over what it holds,    *)
(* whether the principal is back or lost from the vault's side, what is    *)
(* gone to that side, what strangers gave and what came back.  BuyInv says *)
(* what the order holds and has paid in these terms, PublicInv that it     *)
(* holds of every public buy with the accounts.  Each operator of the hub  *)
(* keeps BuyInv, and each step of the route and the vault moves the        *)
(* surroundings only in ways that keep it.  A sell needs less (SellInv).   *)
(*                                                                         *)
(* From the two: a cancelled buy has its principal somewhere the user can  *)
(* get it, and no user is paid twice, whichever float advanced the order   *)
(* and in whatever order the answers, returns and deliveries arrive.       *)
(***************************************************************************)
EXTENDS AccountProofs

-----------------------------------------------------------------------------
(* A public buy, and what the rest of the layer holds for it.              *)

HadOf(o) == o.paid + o.owed
BuyWorth(o) ==
  HadOf(o) + (IF o.status = "Pending" THEN Principal ELSE 0)
    + (IF o.status \in KeepsFee THEN o.fee ELSE 0) + o.extra + o.held
IsOpen(o) ==
  \/ o.status \in {"Pending", "Funded", "Dispatched"}
  \/ o.status = "Escalated" /\ o.outcome = 0

\* The order by itself.
BuyShape(o) ==
  /\ IsOpen(o) => o.outcome = 0 /\ ~o.advanced /\ HadOf(o) = 0 /\ o.fee = BuyFee
  /\ o.status = "Filled" => o.outcome = 1
  /\ o.outcome = 1 => o.status = "Filled" \/ o.advanced
  /\ o.outcome \in {0, 1, 3}
  /\ o.status = "Returning" => o.outcome = 3
  /\ o.status = "Cancelled" => o.held = 0
  /\ o.advanced => o.status = "Cancelled"
  /\ o.shares > 0 => o.status = "Filled"
  /\ o.status # "Proceeds"
\* Its principal left; or it is not spent, and is with the user.
BuySent(o, sent) ==
  /\ o.status \in {"Funded", "Dispatched", "Escalated", "Returning", "Filled"} \/ o.advanced => sent
  /\ o.status = "Cancelled" /\ ~sent => HadOf(o) >= Principal
  /\ o.status = "Cancelled" /\ sent /\ ~o.advanced => o.outcome = 3
  /\ sent => o.status \notin {"None", "Pending"}
\* The vault was told to hand over what it holds: escalateFunds, never after the float's refund.
BuyTold(o, told) ==
  told => o.status \in {"Escalated", "Cancelled", "Filled", "Returning"} /\ ~o.advanced
\* What the reserve and the float's refund come to.
BuyRoom(o, top) ==
  /\ IsOpen(o) => o.extra <= Extra + top
  /\ o.advanced => HadOf(o) >= Principal /\ BuyWorth(o) <= Principal + BuyFee + Extra + top
\* With what is on the route or reached the vault, no more than was sent in, given or returned.
BuyBalance(o, gone, top, cred) ==
  ~o.advanced => BuyWorth(o) + gone <= Principal + Extra + BuyFee + top + cred
\* Next to the stock: the reserve, what was given or returned, and what the treasury was owed.
BuyRest(o, top, cred) ==
  o.outcome = 1 /\ ~o.advanced => BuyWorth(o) <= Extra + top + cred + o.late
\* A principal that bounced is held, and one that is nowhere else is held or paid.
BuyHolds(o, back, lost) ==
  /\ IsOpen(o) /\ back => o.held >= Principal - LossBound
  /\ ~o.advanced /\ lost => o.held + HadOf(o) >= Principal - LossBound

BuyInv(o, sent, told, back, lost, gone, top, cred) ==
  /\ BuyShape(o) /\ BuySent(o, sent) /\ BuyTold(o, told) /\ BuyRoom(o, top)
  /\ BuyBalance(o, gone, top, cred) /\ BuyRest(o, top, cred) /\ BuyHolds(o, back, lost)

\* A public buy pays its user, or the treasury.
LEMMA PublicLane ==
  ASSUME NEW i \in PublicBuys
  PROVE  /\ i \in Buys /\ i \in Ids /\ Lane(i) = 0 /\ i \notin Sells /\ i \notin RewardBuys
         /\ Beneficiary(i) = "user"
         /\ \A o, amount : LateFor(i, o, amount)
              = IF o.outcome = 1 /\ IsBack(amount, Principal) THEN "treasury" ELSE "user"
         /\ Principal \in Nat \ {0} /\ BuyFee \in Nat /\ Extra \in Nat /\ LossBound \in Nat
         /\ 2 * LossBound <= Principal
BY HubAssumption, LayerAssumption DEF Buys, Ids, Lane, LateFor, Beneficiary

\* The record is another but for what was paid, owed or late.
ButPaid(p, b) ==
  /\ p.status = b.status /\ p.fee = b.fee /\ p.extra = b.extra /\ p.held = b.held
  /\ p.outcome = b.outcome /\ p.advanced = b.advanced /\ p.shares = b.shares

\* What a payment to a user, or to the treasury, does.
LEMMA PaidParts ==
  ASSUME NEW p, NEW b, OrderShape(b), b.paid \in Nat, b.owed \in Nat, b.late \in Nat,
         NEW amount \in Nat, NEW to, PaidTo(p, b, to, amount)
  PROVE  /\ ButPaid(p, b) /\ p.paid \in Nat /\ p.owed \in Nat /\ p.late \in Nat
         /\ to = "user" => HadOf(p) = HadOf(b) + amount /\ p.late = b.late
         /\ to = "treasury" => \E x \in {0, amount} :
                                 HadOf(p) = HadOf(b) + x /\ p.late = b.late + x
<1>1. PICK owed, late, paid :
        /\ owed = b.owed + amount
        /\ late = IF to = "treasury" THEN b.late + amount ELSE b.late
        /\ paid = IF to = "user" THEN b.paid + amount ELSE b.paid
  OBVIOUS
<1>2. \/ SameMoney(p, [b EXCEPT !.owed = owed, !.late = late])
      \/ SameMoney(p, [b EXCEPT !.paid = paid])
  BY <1>1 DEF PaidTo
<1>3. CASE SameMoney(p, [b EXCEPT !.owed = owed, !.late = late])
  <2>1. ButPaid(p, b) /\ p.paid = b.paid /\ p.owed = owed /\ p.late = late
    BY <1>3 DEF SameMoney, OrderShape, ButPaid
  <2> QED  BY <1>1, <2>1 DEF HadOf
<1>4. CASE SameMoney(p, [b EXCEPT !.paid = paid])
  <2>1. ButPaid(p, b) /\ p.paid = paid /\ p.owed = b.owed /\ p.late = b.late
    BY <1>4 DEF SameMoney, OrderShape, ButPaid
  <2> QED  BY <1>1, <2>1 DEF HadOf
<1> QED  BY <1>2, <1>3, <1>4

\* A principal that left is on the route, at the vault, or bounced.
EnvOK(sent, back, lost, gone) ==
  /\ ~sent => ~back /\ ~lost /\ gone = 0
  /\ sent => gone >= Principal \/ back

\* The record is another but for what was paid and the numbers, which are these.
Becomes(p, o, st, fee, extra, held, had) ==
  /\ p.status = st /\ p.fee = fee /\ p.extra = extra /\ p.held = held /\ HadOf(p) = had
  /\ p.outcome = o.outcome /\ p.advanced = o.advanced /\ p.shares = o.shares /\ p.late = o.late

\* What users and keepers do to a public buy, in numbers.
BuyHandledSo(p, o) ==
  \/ Becomes(p, o, o.status, o.fee, o.extra, o.held, HadOf(o))
  \/ o = NoOrder /\ Becomes(p, o, "Pending", BuyFee, Extra, 0, 0)
  \/ \E x \in Nat : /\ x <= o.extra /\ o.status \in {"Funded", "Dispatched"}
                    /\ Becomes(p, o, "Dispatched", o.fee, x, o.held, HadOf(o))
  \/ \E x \in Nat : /\ x <= o.extra /\ o.status = "Cancelled"
                    /\ Becomes(p, o, "Cancelled", o.fee, x, o.held, HadOf(o))
  \/ o.status = "Pending"
     /\ Becomes(p, o, "Cancelled", o.fee, 0, 0, HadOf(o) + Principal + o.fee + o.extra + o.held)
  \/ /\ o.status = "Dispatched" /\ o.held = 0
     /\ p.status = "Cancelled" /\ p.extra = 0 /\ p.held = 0 /\ p.advanced
     /\ HadOf(p) = HadOf(o) + Principal + o.fee + o.extra
     /\ p.outcome = o.outcome /\ p.shares = o.shares /\ p.late = o.late

\* What users and keepers do to a buy, by its numbers.
LEMMA BuyHandledIs ==
  ASSUME NEW i \in PublicBuys, NEW o \in HubOrder, NEW p \in HubOrder, Handled(i, p, o)
  PROVE  BuyHandledSo(p, o)
<1>1. OrderShape(o)  BY DEF HubOrder, OrderShape
<1>2. /\ o.paid \in Nat /\ o.owed \in Nat /\ o.late \in Nat /\ o.fee \in Nat /\ o.extra \in Nat
      /\ o.held \in Nat
  BY DEF HubOrder
<1>3. Principal \in Nat /\ Lane(i) = 0 /\ i \in Buys /\ i \notin Sells /\ i \notin RewardBuys
  BY PublicLane
<1>4. CASE SameMoney(p, o)  BY <1>4 DEF SameMoney, BuyHandledSo, Becomes, HadOf
<1>5. CASE Opened(i, p, o)
  <2>1. o = NoOrder /\ SameMoney(p, [o EXCEPT !.status = "Pending", !.fee = BuyFee, !.extra = Extra])
    BY <1>3, <1>5 DEF Opened
  <2>2. Becomes(p, o, "Pending", BuyFee, Extra, 0, 0)
    BY <1>1, <2>1 DEF SameMoney, OrderShape, Becomes, HadOf, NoOrder
  <2> QED  BY <2>1, <2>2 DEF BuyHandledSo
<1>6. ASSUME NEW st, Onward(p, o, st)
      PROVE  \E x \in Nat : x <= o.extra /\ Becomes(p, o, st, o.fee, x, o.held, HadOf(o))
  BY <1>1, <1>6 DEF Onward, SameMoney, OrderShape, Becomes, HadOf
<1>7. CASE o.status = "Pending" /\ Refunded(i, p, o)
  <2>1. PICK b : b = [o EXCEPT !.status = "Cancelled", !.extra = 0, !.held = 0]  OBVIOUS
  <2>2. PICK amount : amount = Principal + o.fee + o.extra + o.held  OBVIOUS
  <2>3. PaidTo(p, b, "user", amount)  BY <1>3, <1>7, <2>1, <2>2 DEF Refunded
  <2>4. /\ OrderShape(b) /\ b.status = "Cancelled" /\ b.extra = 0 /\ b.held = 0 /\ b.fee = o.fee
        /\ b.paid = o.paid /\ b.owed = o.owed /\ b.late = o.late
        /\ b.outcome = o.outcome /\ b.advanced = o.advanced /\ b.shares = o.shares
    BY <1>1, <2>1 DEF OrderShape
  <2>5. amount \in Nat  BY <1>2, <1>3, <2>2
  <2>6. ButPaid(p, b) /\ HadOf(p) = HadOf(b) + amount /\ p.late = b.late
    <3>1. OrderShape(b) /\ b.paid \in Nat /\ b.owed \in Nat /\ b.late \in Nat  BY <1>2, <2>4
    <3> QED  BY <2>3, <2>5, <3>1, PaidParts
  <2>7. HadOf(p) = HadOf(o) + Principal + o.fee + o.extra + o.held
    BY <1>2, <1>3, <2>2, <2>4, <2>6 DEF HadOf
  <2>8. Becomes(p, o, "Cancelled", o.fee, 0, 0, HadOf(o) + Principal + o.fee + o.extra + o.held)
    BY <2>4, <2>6, <2>7 DEF Becomes, ButPaid
  <2> QED  BY <1>7, <2>8 DEF BuyHandledSo
<1>8. CASE o.status = "Dispatched" /\ o.held = 0 /\ FloatPaid(p, o)
  <2>1. PICK b : b = [o EXCEPT !.advanced = TRUE, !.status = "Cancelled", !.extra = 0]  OBVIOUS
  <2>2. PICK amount : amount = Principal + o.fee + o.extra  OBVIOUS
  <2>3. PaidTo(p, b, "user", amount)  BY <1>8, <2>1, <2>2 DEF FloatPaid
  <2>4. /\ OrderShape(b) /\ b.status = "Cancelled" /\ b.extra = 0 /\ b.held = 0 /\ b.advanced
        /\ b.paid = o.paid /\ b.owed = o.owed /\ b.late = o.late
        /\ b.outcome = o.outcome /\ b.shares = o.shares
    BY <1>1, <1>8, <2>1 DEF OrderShape
  <2>5. amount \in Nat  BY <1>2, <1>3, <2>2
  <2>6. ButPaid(p, b) /\ HadOf(p) = HadOf(b) + amount /\ p.late = b.late
    BY <1>2, <2>3, <2>4, <2>5, PaidParts
  <2>7. HadOf(p) = HadOf(o) + Principal + o.fee + o.extra
    BY <1>2, <1>3, <2>2, <2>4, <2>6 DEF HadOf
  <2> QED  BY <1>8, <2>4, <2>6, <2>7 DEF BuyHandledSo, ButPaid
<1>9. CASE Claimed(i, p, o)
  <2>1. SameMoney(p, [o EXCEPT !.owed = 0, !.paid = o.paid + o.owed])  BY <1>3, <1>9 DEF Claimed
  <2>2. p.owed = 0 /\ p.paid = o.paid + o.owed  BY <1>1, <2>1 DEF SameMoney, OrderShape
  <2>3. HadOf(p) = HadOf(o)  BY <1>2, <2>2 DEF HadOf
  <2>4. Becomes(p, o, o.status, o.fee, o.extra, o.held, HadOf(o))
    BY <1>1, <2>1, <2>3 DEF SameMoney, OrderShape, Becomes
  <2> QED  BY <2>4 DEF BuyHandledSo
<1>10. CASE o.status \in {"Funded", "Dispatched"} /\ Onward(p, o, "Dispatched")
  BY <1>6, <1>10 DEF BuyHandledSo
<1>11. CASE o.status = "Cancelled" /\ Onward(p, o, "Cancelled")
  BY <1>6, <1>11 DEF BuyHandledSo
<1> QED  BY <1>3, <1>4, <1>5, <1>7, <1>8, <1>9, <1>10, <1>11 DEF Handled

\* The numbers of an order.
LEMMA BuyNumbers ==
  ASSUME NEW o \in HubOrder
  PROVE  /\ o.fee \in Nat /\ o.extra \in Nat /\ o.held \in Nat /\ o.late \in Nat /\ o.shares \in Nat
         /\ o.paid \in Nat /\ o.owed \in Nat /\ HadOf(o) \in Nat /\ BuyWorth(o) \in Nat
         /\ o.advanced \in BOOLEAN /\ o.outcome \in 0..3
         /\ Principal \in Nat /\ Principal > 0 /\ BuyFee \in Nat /\ Extra \in Nat
         /\ LossBound \in Nat /\ 2 * LossBound <= Principal
<1>1. /\ o.fee \in Nat /\ o.extra \in Nat /\ o.held \in Nat /\ o.late \in Nat /\ o.shares \in Nat
      /\ o.paid \in Nat /\ o.owed \in Nat /\ o.advanced \in BOOLEAN /\ o.outcome \in 0..3
  BY DEF HubOrder
<1>2. /\ Principal \in Nat /\ Principal > 0 /\ BuyFee \in Nat /\ Extra \in Nat
      /\ LossBound \in Nat /\ 2 * LossBound <= Principal
  BY HubAssumption, LayerAssumption
<1>3. HadOf(o) \in Nat  BY <1>1 DEF HadOf
<1> QED  BY <1>1, <1>2, <1>3 DEF BuyWorth

\* What users and keepers do to a public buy keeps it.
LEMMA BuyHandled ==
  ASSUME NEW o \in HubOrder, NEW p \in HubOrder, NEW sent \in BOOLEAN, NEW told \in BOOLEAN,
         NEW back \in BOOLEAN, NEW lost \in BOOLEAN, NEW gone \in Nat, NEW top \in Nat,
         NEW cred \in Nat, EnvOK(sent, back, lost, gone),
         BuyInv(o, sent, told, back, lost, gone, top, cred), BuyHandledSo(p, o)
  PROVE  BuyInv(p, sent, told, back, lost, gone, top, cred)
<1>1. /\ BuyShape(o) /\ BuySent(o, sent) /\ BuyTold(o, told) /\ BuyRoom(o, top)
      /\ BuyBalance(o, gone, top, cred) /\ BuyRest(o, top, cred) /\ BuyHolds(o, back, lost)
  BY DEF BuyInv
<1>2. /\ o.fee \in Nat /\ o.extra \in Nat /\ o.held \in Nat /\ o.late \in Nat /\ o.shares \in Nat
      /\ HadOf(o) \in Nat /\ o.advanced \in BOOLEAN
      /\ Principal \in Nat /\ Principal > 0 /\ BuyFee \in Nat /\ Extra \in Nat /\ LossBound \in Nat
  BY BuyNumbers
<1>3. CASE Becomes(p, o, o.status, o.fee, o.extra, o.held, HadOf(o))
  <2>1. BuyWorth(p) = BuyWorth(o) /\ (IsOpen(p) <=> IsOpen(o))
    BY <1>3 DEF Becomes, BuyWorth, IsOpen
  <2>2. BuyShape(p) /\ BuySent(p, sent) /\ BuyTold(p, told)
    BY <1>1, <1>3, <2>1 DEF Becomes, BuyShape, BuySent, BuyTold
  <2>3. BuyRoom(p, top) /\ BuyBalance(p, gone, top, cred) /\ BuyRest(p, top, cred)
        /\ BuyHolds(p, back, lost)
    BY <1>1, <1>3, <2>1 DEF Becomes, BuyRoom, BuyBalance, BuyRest, BuyHolds
  <2> QED  BY <2>2, <2>3 DEF BuyInv
<1>4. CASE o = NoOrder /\ Becomes(p, o, "Pending", BuyFee, Extra, 0, 0)
  <2>1. /\ o.status = "None" /\ o.outcome = 0 /\ ~o.advanced /\ o.shares = 0 /\ o.late = 0
        /\ p.status = "Pending" /\ p.fee = BuyFee /\ p.extra = Extra /\ p.held = 0 /\ HadOf(p) = 0
        /\ p.outcome = 0 /\ ~p.advanced /\ p.shares = 0
    BY <1>4 DEF NoOrder, Becomes
  <2>2. ~sent /\ ~told /\ ~back /\ ~lost /\ gone = 0
    BY <1>1, <2>1 DEF BuySent, BuyTold, EnvOK
  <2>3. BuyWorth(p) = Principal + BuyFee + Extra
    BY <1>2, <2>1 DEF BuyWorth, KeepsFee
  <2>4. BuyShape(p) /\ BuySent(p, sent) /\ BuyTold(p, told)
    BY <2>1, <2>2 DEF BuyShape, BuySent, BuyTold, IsOpen
  <2>5. BuyRoom(p, top) /\ BuyBalance(p, gone, top, cred) /\ BuyRest(p, top, cred)
        /\ BuyHolds(p, back, lost)
    BY <1>2, <2>1, <2>2, <2>3 DEF BuyRoom, BuyBalance, BuyRest, BuyHolds
  <2> QED  BY <2>4, <2>5 DEF BuyInv
<1>5. ASSUME NEW x \in Nat, x <= o.extra, o.status \in {"Funded", "Dispatched"},
             Becomes(p, o, "Dispatched", o.fee, x, o.held, HadOf(o))
      PROVE  BuyInv(p, sent, told, back, lost, gone, top, cred)
  <2>1. IsOpen(o) /\ IsOpen(p)  BY <1>5 DEF IsOpen, Becomes
  <2>2. BuyWorth(p) <= BuyWorth(o)  BY <1>2, <1>5 DEF BuyWorth, KeepsFee, Becomes
  <2>3. BuyShape(p) /\ BuySent(p, sent) /\ BuyTold(p, told)
    BY <1>1, <1>5, <2>1 DEF BuyShape, BuySent, BuyTold, Becomes
  <2>4. BuyWorth(o) \in Nat /\ BuyWorth(p) \in Nat  BY BuyNumbers
  <2>5. BuyRoom(p, top) /\ BuyBalance(p, gone, top, cred) /\ BuyRest(p, top, cred)
        /\ BuyHolds(p, back, lost)
    BY <1>1, <1>2, <1>5, <2>1, <2>2, <2>4
    DEF BuyRoom, BuyBalance, BuyRest, BuyHolds, BuyShape, Becomes
  <2> QED  BY <2>3, <2>5 DEF BuyInv
<1>6. ASSUME NEW x \in Nat, x <= o.extra, o.status = "Cancelled",
             Becomes(p, o, "Cancelled", o.fee, x, o.held, HadOf(o))
      PROVE  BuyInv(p, sent, told, back, lost, gone, top, cred)
  <2>1. ~IsOpen(o) /\ ~IsOpen(p)  BY <1>6 DEF IsOpen, Becomes
  <2>2. BuyWorth(p) <= BuyWorth(o)  BY <1>2, <1>6 DEF BuyWorth, KeepsFee, Becomes
  <2>3. BuyShape(p) /\ BuySent(p, sent) /\ BuyTold(p, told)
    BY <1>1, <1>6, <2>1 DEF BuyShape, BuySent, BuyTold, Becomes
  <2>4. BuyWorth(o) \in Nat /\ BuyWorth(p) \in Nat  BY BuyNumbers
  <2>5. BuyRoom(p, top) /\ BuyBalance(p, gone, top, cred) /\ BuyRest(p, top, cred)
        /\ BuyHolds(p, back, lost)
    BY <1>1, <1>2, <1>6, <2>1, <2>2, <2>4
    DEF BuyRoom, BuyBalance, BuyRest, BuyHolds, BuyShape, Becomes
  <2> QED  BY <2>3, <2>5 DEF BuyInv
<1>7. CASE /\ o.status = "Pending"
           /\ Becomes(p, o, "Cancelled", o.fee, 0, 0, HadOf(o) + Principal + o.fee + o.extra + o.held)
  <2>1. IsOpen(o) /\ ~IsOpen(p)  BY <1>7 DEF IsOpen, Becomes
  <2>2. BuyWorth(p) = BuyWorth(o) /\ HadOf(p) >= Principal
    BY <1>2, <1>7 DEF BuyWorth, KeepsFee, Becomes
  <2>3. ~sent /\ ~told /\ ~back /\ ~lost /\ gone = 0
    BY <1>1, <1>7 DEF BuySent, BuyTold, EnvOK
  <2>4. BuyShape(p) /\ BuySent(p, sent) /\ BuyTold(p, told)
    BY <1>1, <1>2, <1>7, <2>1, <2>2, <2>3 DEF BuyShape, BuySent, BuyTold, Becomes
  <2>5. BuyRoom(p, top) /\ BuyBalance(p, gone, top, cred) /\ BuyRest(p, top, cred)
        /\ BuyHolds(p, back, lost)
    BY <1>1, <1>2, <1>7, <2>1, <2>2, <2>3
    DEF BuyRoom, BuyBalance, BuyRest, BuyHolds, BuyShape, Becomes
  <2> QED  BY <2>4, <2>5 DEF BuyInv
<1>8. CASE /\ o.status = "Dispatched" /\ o.held = 0
           /\ p.status = "Cancelled" /\ p.extra = 0 /\ p.held = 0 /\ p.advanced
           /\ HadOf(p) = HadOf(o) + Principal + o.fee + o.extra
           /\ p.outcome = o.outcome /\ p.shares = o.shares /\ p.late = o.late
  <2>1. IsOpen(o) /\ ~IsOpen(p)  BY <1>8 DEF IsOpen
  <2>2. HadOf(p) >= Principal /\ BuyWorth(p) = HadOf(p)
    BY <1>2, <1>8, BuyNumbers DEF BuyWorth, KeepsFee
  <2>3. sent /\ ~told  BY <1>1, <1>8 DEF BuySent, BuyTold
  <2>4. BuyShape(p) /\ BuySent(p, sent) /\ BuyTold(p, told)
    BY <1>1, <1>2, <1>8, <2>1, <2>2, <2>3 DEF BuyShape, BuySent, BuyTold
  <2>5. BuyRoom(p, top) /\ BuyBalance(p, gone, top, cred) /\ BuyRest(p, top, cred)
        /\ BuyHolds(p, back, lost)
    BY <1>1, <1>2, <1>8, <2>1, <2>2, <2>3
    DEF BuyRoom, BuyBalance, BuyRest, BuyHolds, BuyShape
  <2> QED  BY <2>4, <2>5 DEF BuyInv
<1> QED  BY <1>3, <1>4, <1>5, <1>6, <1>7, <1>8 DEF BuyHandledSo

\* launch and escalateFunds, in numbers.
LaunchedSo(p, o) ==
  /\ o.status = "Pending"
  /\ \E st \in {"Funded", "Dispatched"}, x \in Nat :
       x <= o.extra /\ Becomes(p, o, st, o.fee, x, o.held, HadOf(o))
EscalatedSo(p, o) ==
  \/ /\ o.status \in {"Funded", "Dispatched"}
     /\ \E x \in Nat : x <= o.extra /\ Becomes(p, o, "Escalated", o.fee, x, o.held, HadOf(o))
  \/ /\ o.status = "Returning"
     /\ Becomes(p, o, "Escalated", 0, 0, 0, HadOf(o) + o.held + o.fee + o.extra)
LaunchedWell(p, told, top, cred) == BuyInv(p, TRUE, told, FALSE, FALSE, Principal, top, cred)
EscalatedWell(p, sent, back, lost, gone, top, cred) ==
  BuyInv(p, sent, TRUE, back, lost, gone, top, cred)

\* launch: the principal leaves.
LEMMA BuyLaunched ==
  ASSUME NEW o \in HubOrder, NEW p \in HubOrder, NEW sent \in BOOLEAN, NEW told \in BOOLEAN,
         NEW back \in BOOLEAN, NEW lost \in BOOLEAN, NEW gone \in Nat, NEW top \in Nat,
         NEW cred \in Nat, EnvOK(sent, back, lost, gone),
         BuyInv(o, sent, told, back, lost, gone, top, cred), LaunchedSo(p, o)
  PROVE  LaunchedWell(p, told, top, cred)
<1>0. PICK st \in {"Funded", "Dispatched"}, x \in Nat :
        x <= o.extra /\ Becomes(p, o, st, o.fee, x, o.held, HadOf(o)) /\ o.status = "Pending"
  BY DEF LaunchedSo
<1>1. /\ BuyShape(o) /\ BuySent(o, sent) /\ BuyTold(o, told) /\ BuyRoom(o, top)
      /\ BuyBalance(o, gone, top, cred) /\ BuyRest(o, top, cred) /\ BuyHolds(o, back, lost)
  BY DEF BuyInv
<1>2. /\ o.fee \in Nat /\ o.extra \in Nat /\ o.held \in Nat /\ HadOf(o) \in Nat
      /\ Principal \in Nat /\ BuyFee \in Nat /\ Extra \in Nat
  BY BuyNumbers
<1>3. IsOpen(o) /\ IsOpen(p)  BY <1>0 DEF IsOpen, Becomes
<1>4. BuyWorth(p) + Principal <= BuyWorth(o) /\ BuyWorth(p) \in Nat /\ BuyWorth(o) \in Nat
  BY <1>0, <1>2, BuyNumbers DEF BuyWorth, KeepsFee, Becomes
<1>5. ~told  BY <1>0, <1>1 DEF BuyTold
<1>6. BuyShape(p) /\ BuySent(p, TRUE) /\ BuyTold(p, told)
  BY <1>0, <1>1, <1>3, <1>5 DEF BuyShape, BuySent, BuyTold, Becomes
<1>7. BuyRoom(p, top) /\ BuyBalance(p, Principal, top, cred) /\ BuyRest(p, top, cred)
      /\ BuyHolds(p, FALSE, FALSE)
  BY <1>0, <1>1, <1>2, <1>3, <1>4
  DEF BuyRoom, BuyBalance, BuyRest, BuyHolds, BuyShape, Becomes
<1> QED  BY <1>6, <1>7 DEF BuyInv, LaunchedWell

\* escalateFunds of an open buy, and of one whose answer is in.
LEMMA BuyEscalated ==
  ASSUME NEW o \in HubOrder, NEW p \in HubOrder, NEW sent \in BOOLEAN, NEW told \in BOOLEAN,
         NEW back \in BOOLEAN, NEW lost \in BOOLEAN, NEW gone \in Nat, NEW top \in Nat,
         NEW cred \in Nat, BuyInv(o, sent, told, back, lost, gone, top, cred), EscalatedSo(p, o)
  PROVE  EscalatedWell(p, sent, back, lost, gone, top, cred)
<1>1. /\ BuyShape(o) /\ BuySent(o, sent) /\ BuyTold(o, told) /\ BuyRoom(o, top)
      /\ BuyBalance(o, gone, top, cred) /\ BuyRest(o, top, cred) /\ BuyHolds(o, back, lost)
  BY DEF BuyInv
<1>2. /\ o.fee \in Nat /\ o.extra \in Nat /\ o.held \in Nat /\ HadOf(o) \in Nat
      /\ BuyWorth(o) \in Nat /\ BuyWorth(p) \in Nat
      /\ Principal \in Nat /\ BuyFee \in Nat /\ Extra \in Nat /\ LossBound \in Nat
  BY BuyNumbers
<1>3. ASSUME NEW x \in Nat, x <= o.extra, o.status \in {"Funded", "Dispatched"},
             Becomes(p, o, "Escalated", o.fee, x, o.held, HadOf(o))
      PROVE  BuyInv(p, sent, TRUE, back, lost, gone, top, cred)
  <2>1. IsOpen(o) /\ IsOpen(p) /\ p.outcome = 0 /\ ~p.advanced
    BY <1>1, <1>3 DEF IsOpen, BuyShape, Becomes
  <2>2. BuyWorth(p) <= BuyWorth(o)  BY <1>2, <1>3 DEF BuyWorth, KeepsFee, Becomes
  <2>3. BuyShape(p) /\ BuySent(p, sent) /\ BuyTold(p, TRUE)
    BY <1>1, <1>3, <2>1 DEF BuyShape, BuySent, BuyTold, Becomes
  <2>4. BuyRoom(p, top) /\ BuyBalance(p, gone, top, cred) /\ BuyRest(p, top, cred)
        /\ BuyHolds(p, back, lost)
    BY <1>1, <1>2, <1>3, <2>1, <2>2
    DEF BuyRoom, BuyBalance, BuyRest, BuyHolds, BuyShape, Becomes
  <2> QED  BY <2>3, <2>4 DEF BuyInv
<1>4. CASE /\ o.status = "Returning"
           /\ Becomes(p, o, "Escalated", 0, 0, 0, HadOf(o) + o.held + o.fee + o.extra)
  <2>1. o.outcome = 3 /\ ~o.advanced /\ ~IsOpen(o) /\ ~IsOpen(p) /\ p.outcome = 3 /\ ~p.advanced
        /\ o.shares = p.shares /\ p.status = "Escalated"
    BY <1>1, <1>4 DEF IsOpen, BuyShape, Becomes
  <2>2. BuyWorth(p) = BuyWorth(o) /\ p.held + HadOf(p) >= o.held + HadOf(o)
    BY <1>2, <1>4 DEF BuyWorth, KeepsFee, Becomes
  <2>3. BuyShape(p) /\ BuySent(p, sent) /\ BuyTold(p, TRUE)
    BY <1>1, <1>4, <2>1 DEF BuyShape, BuySent, BuyTold
  <2>4. p.held \in Nat /\ HadOf(p) \in Nat  BY BuyNumbers
  <2>5. BuyRoom(p, top) /\ BuyBalance(p, gone, top, cred) /\ BuyRest(p, top, cred)
        /\ BuyHolds(p, back, lost)
    BY <1>1, <1>2, <2>1, <2>2, <2>4 DEF BuyRoom, BuyBalance, BuyRest, BuyHolds
  <2>6. BuyInv(p, sent, TRUE, back, lost, gone, top, cred)  BY <2>3, <2>5 DEF BuyInv
  <2> QED  BY ONLY <2>6 DEF EscalatedWell
<1>5. CASE o.status \in {"Funded", "Dispatched"}
  <2>1. PICK x \in Nat : x <= o.extra /\ Becomes(p, o, "Escalated", o.fee, x, o.held, HadOf(o))
    BY <1>5 DEF EscalatedSo
  <2>2. BuyInv(p, sent, TRUE, back, lost, gone, top, cred)  BY <1>3, <1>5, <2>1
  <2> QED  BY ONLY <2>2 DEF EscalatedWell
<1>6. CASE o.status = "Returning"
  BY <1>4, <1>6 DEF EscalatedSo
<1> QED  BY <1>5, <1>6 DEF EscalatedSo

\* The order p is in order wherever q is.
NoWorse(p, q) ==
  \A sent, told, back, lost \in BOOLEAN, gone, top, cred \in Nat :
    BuyInv(q, sent, told, back, lost, gone, top, cred)
      => BuyInv(p, sent, told, back, lost, gone, top, cred)

\* _closeReturnedBuy keeps the invariant, whenever it is called.
LEMMA BuyClosed ==
  ASSUME NEW i \in PublicBuys, NEW q, OrderShape(q),
         q.fee \in Nat, q.extra \in Nat, q.held \in Nat, q.late \in Nat, q.paid \in Nat,
         q.owed \in Nat, q.status = "Returning", NEW p \in HubOrder, Closed(i, p, q)
  PROVE  NoWorse(p, q)
<1> SUFFICES ASSUME NEW sent \in BOOLEAN, NEW told \in BOOLEAN, NEW back \in BOOLEAN,
                    NEW lost \in BOOLEAN, NEW gone \in Nat, NEW top \in Nat, NEW cred \in Nat,
                    BuyInv(q, sent, told, back, lost, gone, top, cred)
             PROVE  BuyInv(p, sent, told, back, lost, gone, top, cred)
  BY DEF NoWorse
<1>1. /\ BuyShape(q) /\ BuySent(q, sent) /\ BuyTold(q, told) /\ BuyRoom(q, top)
      /\ BuyBalance(q, gone, top, cred) /\ BuyRest(q, top, cred) /\ BuyHolds(q, back, lost)
  BY DEF BuyInv
<1>2. CASE p = q  BY <1>2
<1>3. CASE p # q
  <2>1. PICK b : b = [q EXCEPT !.status = "Cancelled", !.held = 0, !.extra = 0, !.fee = 0]  OBVIOUS
  <2>2. PICK pool : pool = q.held + q.fee + q.extra  OBVIOUS
  <2>3. PaidTo(p, b, "user", pool)  BY <1>3, <2>1, <2>2, PublicLane DEF Closed
  <2>4. /\ OrderShape(b) /\ b.status = "Cancelled" /\ b.held = 0 /\ b.extra = 0 /\ b.fee = 0
        /\ b.paid = q.paid /\ b.owed = q.owed /\ b.late = q.late
        /\ b.outcome = q.outcome /\ b.advanced = q.advanced /\ b.shares = q.shares
    BY <2>1 DEF OrderShape
  <2>5. pool \in Nat  BY <2>2
  <2>6. b.paid \in Nat /\ b.owed \in Nat /\ b.late \in Nat  BY <2>4
  <2>7. ButPaid(p, b) /\ HadOf(p) = HadOf(b) + pool /\ p.late = b.late
    BY <2>3, <2>4, <2>5, <2>6, PaidParts
  <2>8. HadOf(p) = HadOf(q) + q.held + q.fee + q.extra /\ HadOf(q) \in Nat
    BY <2>2, <2>4, <2>5, <2>6, <2>7 DEF HadOf
  <2>9. /\ p.status = "Cancelled" /\ p.fee = 0 /\ p.extra = 0 /\ p.held = 0
        /\ p.outcome = q.outcome /\ p.advanced = q.advanced /\ p.shares = q.shares
    BY <2>4, <2>7 DEF ButPaid
  <2>10. q.outcome = 3 /\ ~q.advanced /\ ~IsOpen(q) /\ ~IsOpen(p) /\ sent
    BY <1>1, <2>9 DEF BuyShape, BuySent, IsOpen
  <2>11. BuyWorth(p) = BuyWorth(q) /\ p.held + HadOf(p) >= q.held + HadOf(q)
    BY <2>8, <2>9 DEF BuyWorth, KeepsFee
  <2>12. BuyShape(p) /\ BuySent(p, sent) /\ BuyTold(p, told)
    BY <1>1, <2>9, <2>10 DEF BuyShape, BuySent, BuyTold
  <2>13. /\ p.held \in Nat /\ HadOf(p) \in Nat /\ LossBound \in Nat /\ Principal \in Nat
         /\ HadOf(q) \in Nat
    BY <2>8, BuyNumbers
  <2>14. BuyRoom(p, top) /\ BuyBalance(p, gone, top, cred) /\ BuyRest(p, top, cred)
         /\ BuyHolds(p, back, lost)
    BY <1>1, <2>9, <2>10, <2>11, <2>13 DEF BuyRoom, BuyBalance, BuyRest, BuyHolds
  <2> QED  BY <2>12, <2>14 DEF BuyInv
<1> QED  BY <1>2, <1>3

\* settle, of a public buy that was bought: the reserve and what is held are paid out, to the
\* buyer or, of a principal that is back besides the stock, to the treasury.
FilledSo(p, o) ==
  /\ p.status = "Filled" /\ p.outcome = 1 /\ p.extra = 0 /\ p.held = 0 /\ p.advanced = o.advanced
  /\ \E x \in {0, o.held} :
       /\ HadOf(p) = HadOf(o) + o.extra + x
       /\ IF IsBack(o.held, Principal) THEN p.late = o.late + x
                                       ELSE x = o.held /\ p.late = o.late

\* settle, of a bought buy, by the numbers of the order.
LEMMA BuyFilledIs ==
  ASSUME NEW i \in PublicBuys, NEW o \in HubOrder, NEW p \in HubOrder, NEW raw \in Nat,
         FilledWith(i, p, o, raw)
  PROVE  FilledSo(p, o)
<1>1. OrderShape(o) /\ Lane(i) = 0 /\ Beneficiary(i) = "user"  BY PublicLane DEF HubOrder, OrderShape
<1>2. /\ o.paid \in Nat /\ o.owed \in Nat /\ o.late \in Nat /\ o.extra \in Nat /\ o.held \in Nat
  BY DEF HubOrder
<1>3. PICK shares, custody : /\ shares = IF Lane(i) = 0 THEN o.shares + raw ELSE o.shares
                             /\ custody = IF Lane(i) = 1 THEN raw ELSE o.custodyRaw
  OBVIOUS
<1>4. PICK b : b = [o EXCEPT !.status = "Filled", !.amountOut = raw, !.rawOut = raw, !.outcome = 1,
                             !.extra = 0, !.custodyRaw = custody, !.shares = shares]
  OBVIOUS
<1>5. /\ OrderShape(b) /\ b.status = "Filled" /\ b.outcome = 1 /\ b.extra = 0 /\ b.held = o.held
      /\ b.advanced = o.advanced /\ b.paid = o.paid /\ b.owed = o.owed /\ b.late = o.late
  BY <1>1, <1>4 DEF OrderShape
<1>6. PICK q, s : /\ OrderShape(q) /\ PaidTo(q, b, "user", o.extra)
                  /\ Flushed(i, s, q) /\ SameMoney(p, s)
  BY <1>1, <1>3, <1>4 DEF FilledWith
<1>7. /\ ButPaid(q, b) /\ q.paid \in Nat /\ q.owed \in Nat /\ q.late \in Nat
      /\ HadOf(q) = HadOf(b) + o.extra /\ q.late = b.late
  <2>1. OrderShape(b) /\ b.paid \in Nat /\ b.owed \in Nat /\ b.late \in Nat  BY <1>2, <1>5
  <2>2. o.extra \in Nat /\ PaidTo(q, b, "user", o.extra)  BY <1>2, <1>6
  <2> QED  BY <2>1, <2>2, PaidParts
<1>8. PICK e : e = [q EXCEPT !.held = 0]  OBVIOUS
<1>9. /\ OrderShape(e) /\ e.status = "Filled" /\ e.outcome = 1 /\ e.extra = 0 /\ e.held = 0
      /\ e.advanced = o.advanced /\ e.paid = q.paid /\ e.owed = q.owed /\ e.late = o.late
      /\ q.held = o.held /\ q.outcome = 1
  BY <1>5, <1>6, <1>7, <1>8 DEF OrderShape, ButPaid
<1>10. PICK to : to = IF IsBack(o.held, Principal) THEN "treasury" ELSE "user"  OBVIOUS
<1>11. PaidTo(s, e, to, o.held)
  <2>1. LateFor(i, q, o.held) = to  BY <1>9, <1>10, PublicLane
  <2> QED  BY <1>6, <1>8, <1>9, <2>1 DEF Flushed
<1>12. e.paid \in Nat /\ e.owed \in Nat /\ e.late \in Nat  BY <1>2, <1>7, <1>9
<1>13. /\ ButPaid(s, e) /\ (to = "user" => HadOf(s) = HadOf(e) + o.held /\ s.late = e.late)
       /\ to = "treasury" => \E x \in {0, o.held} : HadOf(s) = HadOf(e) + x /\ s.late = e.late + x
  BY <1>2, <1>9, <1>11, <1>12, PaidParts, SMTT(60)
<1>14. HadOf(e) = HadOf(o) + o.extra  BY <1>5, <1>7, <1>9 DEF HadOf
<1>15. /\ p.status = s.status /\ p.outcome = s.outcome /\ p.extra = s.extra /\ p.held = s.held
       /\ p.advanced = s.advanced /\ p.late = s.late /\ HadOf(p) = HadOf(s)
  BY <1>6 DEF SameMoney, HadOf
<1>16. /\ p.status = "Filled" /\ p.outcome = 1 /\ p.extra = 0 /\ p.held = 0 /\ p.advanced = o.advanced
  BY <1>9, <1>13, <1>15 DEF ButPaid
<1>17. CASE IsBack(o.held, Principal)
  <2>1. PICK x \in {0, o.held} : HadOf(s) = HadOf(e) + x /\ s.late = e.late + x
    BY <1>10, <1>13, <1>17
  <2>2. HadOf(p) = HadOf(o) + o.extra + x /\ p.late = o.late + x  BY <1>9, <1>14, <1>15, <2>1
  <2> QED  BY <1>16, <1>17, <2>2 DEF FilledSo
<1>18. CASE ~IsBack(o.held, Principal)
  <2>1. HadOf(p) = HadOf(o) + o.extra + o.held /\ p.late = o.late
    BY <1>9, <1>10, <1>13, <1>14, <1>15, <1>18
  <2> QED  BY <1>16, <1>18, <2>1 DEF FilledSo
<1> QED  BY <1>17, <1>18

\* The vault's answer keeps it.
LEMMA BuyAnswered ==
  ASSUME NEW i \in PublicBuys, NEW o \in HubOrder, NEW p \in HubOrder, NEW r,
         r.amountOut \in Nat, Answered(i, p, o, r), NEW sent \in BOOLEAN, NEW told \in BOOLEAN,
         NEW back \in BOOLEAN, NEW lost \in BOOLEAN, NEW gone \in Nat, NEW top \in Nat,
         NEW cred \in Nat, EnvOK(sent, back, lost, gone), r.outcome = "Bought" => ~lost,
         BuyInv(o, sent, told, back, lost, gone, top, cred)
  PROVE  BuyInv(p, sent, told, back, lost, gone, top, cred)
<1>1. /\ BuyShape(o) /\ BuySent(o, sent) /\ BuyTold(o, told) /\ BuyRoom(o, top)
      /\ BuyBalance(o, gone, top, cred) /\ BuyRest(o, top, cred) /\ BuyHolds(o, back, lost)
  BY DEF BuyInv
<1>2. /\ o.fee \in Nat /\ o.extra \in Nat /\ o.held \in Nat /\ o.late \in Nat /\ o.shares \in Nat
      /\ o.paid \in Nat /\ o.owed \in Nat
      /\ HadOf(o) \in Nat /\ o.advanced \in BOOLEAN /\ BuyWorth(o) \in Nat /\ BuyWorth(p) \in Nat
      /\ Principal \in Nat /\ Principal > 0 /\ BuyFee \in Nat /\ Extra \in Nat /\ LossBound \in Nat
      /\ 2 * LossBound <= Principal /\ p.late \in Nat
  BY BuyNumbers
<1>3. OrderShape(o) /\ i \in Buys /\ i \notin Sells /\ o.outcome = 0
  BY PublicLane DEF HubOrder, OrderShape, Answered
<1>4. CASE o.status \in {"Dispatched", "Escalated"} /\ FilledSo(p, o) /\ ~lost
  <2>1. IsOpen(o) /\ ~IsOpen(p) /\ ~o.advanced /\ ~p.advanced /\ HadOf(o) = 0 /\ o.fee = BuyFee
        /\ sent /\ p.status = "Filled" /\ p.outcome = 1
    BY <1>1, <1>3, <1>4 DEF IsOpen, BuyShape, BuySent, FilledSo
  <2>2. PICK x \in {0, o.held} :
          /\ HadOf(p) = HadOf(o) + o.extra + x
          /\ IF IsBack(o.held, Principal) THEN p.late = o.late + x
                                          ELSE x = o.held /\ p.late = o.late
    BY <1>4 DEF FilledSo
  <2>3. x \in Nat /\ x <= o.held  BY <1>2, <2>2
  <2>4. BuyWorth(p) = o.extra + x  BY <1>2, <1>4, <2>1, <2>2, <2>3 DEF BuyWorth, KeepsFee, FilledSo
  <2>5. BuyWorth(o) = BuyFee + o.extra + o.held  BY <1>2, <1>4, <2>1 DEF BuyWorth, KeepsFee
  <2>6. ~IsBack(o.held, Principal) => gone >= Principal
    <3>1. back => o.held >= Principal - LossBound  BY <1>1, <2>1 DEF BuyHolds
    <3>2. back => IsBack(o.held, Principal)  BY <1>2, <3>1 DEF IsBack
    <3> QED  BY <2>1, <3>2 DEF EnvOK
  <2>7. BuyWorth(o) + gone <= Principal + Extra + BuyFee + top + cred
    BY <1>1, <2>1 DEF BuyBalance
  <2>8. BuyRest(p, top, cred)
    <3>1. CASE IsBack(o.held, Principal)
      <4>1. o.extra <= Extra + top  BY <1>1, <2>1 DEF BuyRoom
      <4>2. p.late >= x  BY <1>2, <2>2, <2>3, <3>1
      <4> QED  BY <1>2, <2>3, <2>4, <4>1, <4>2 DEF BuyRest
    <3>2. CASE ~IsBack(o.held, Principal)
      BY <1>2, <2>2, <2>4, <2>5, <2>6, <2>7, <3>2 DEF BuyRest
    <3> QED  BY <3>1, <3>2
  <2>9. BuyShape(p) /\ BuySent(p, sent) /\ BuyTold(p, told)
    BY <1>1, <1>4, <2>1 DEF BuyShape, BuySent, BuyTold, FilledSo
  <2>10. BuyRoom(p, top) /\ BuyHolds(p, back, lost)  BY <1>4, <2>1 DEF BuyRoom, BuyHolds
  <2>11. BuyBalance(p, gone, top, cred)
    BY <1>2, <2>3, <2>4, <2>5, <2>7 DEF BuyBalance
  <2> QED  BY <2>8, <2>9, <2>10, <2>11 DEF BuyInv
<1>5. CASE /\ o.status = "Cancelled" /\ o.advanced
           /\ p.status = o.status /\ p.fee = o.fee /\ p.extra = o.extra /\ p.held = o.held
           /\ HadOf(p) = HadOf(o) /\ p.advanced /\ p.shares = o.shares /\ p.outcome \in {1, 3}
  <2>1. ~IsOpen(o) /\ ~IsOpen(p)  BY <1>5 DEF IsOpen
  <2>2. BuyWorth(p) = BuyWorth(o)  BY <1>5 DEF BuyWorth
  <2>3. BuyShape(p) /\ BuySent(p, sent) /\ BuyTold(p, told)
    BY <1>1, <1>5, <2>1 DEF BuyShape, BuySent, BuyTold
  <2>4. BuyRoom(p, top) /\ BuyBalance(p, gone, top, cred) /\ BuyRest(p, top, cred)
        /\ BuyHolds(p, back, lost)
    BY <1>1, <1>5, <2>1, <2>2 DEF BuyRoom, BuyBalance, BuyRest, BuyHolds
  <2> QED  BY <2>3, <2>4 DEF BuyInv
<1>6. ASSUME o.status \in {"Dispatched", "Escalated"}, FailedBuy(i, p, o)
      PROVE  BuyInv(p, sent, told, back, lost, gone, top, cred)
  <2>1. PICK b : b = [o EXCEPT !.outcome = 3, !.rawOut = 0]  OBVIOUS
  <2>2. PICK e : e = [b EXCEPT !.status = "Returning"]  OBVIOUS
  <2>3. PICK q : OrderShape(q) /\ SameMoney(q, e) /\ Closed(i, p, q)
    BY <1>6, <2>1, <2>2 DEF FailedBuy
  <2>4. /\ e.status = "Returning" /\ e.outcome = 3 /\ e.advanced = o.advanced /\ e.fee = o.fee
        /\ e.extra = o.extra /\ e.held = o.held /\ e.paid = o.paid /\ e.owed = o.owed
        /\ e.shares = o.shares /\ e.late = o.late
    BY <1>3, <2>1, <2>2 DEF OrderShape
  <2>5. /\ q.status = "Returning" /\ q.outcome = 3 /\ q.advanced = o.advanced /\ q.fee = o.fee
        /\ q.extra = o.extra /\ q.held = o.held /\ q.paid = o.paid /\ q.owed = o.owed
        /\ q.shares = o.shares /\ q.late = o.late
    BY <2>3, <2>4 DEF SameMoney
  <2>6. IsOpen(o) /\ ~IsOpen(q) /\ ~o.advanced /\ HadOf(q) = HadOf(o) /\ sent
    BY <1>1, <1>3, <1>6, <2>5 DEF IsOpen, BuyShape, BuySent, HadOf
  <2>7. BuyWorth(q) = BuyWorth(o)  BY <1>6, <2>5, <2>6 DEF BuyWorth, KeepsFee
  <2>8. BuyShape(q) /\ BuySent(q, sent) /\ BuyTold(q, told)
    BY <1>1, <2>5, <2>6 DEF BuyShape, BuySent, BuyTold
  <2>9. BuyRoom(q, top) /\ BuyBalance(q, gone, top, cred) /\ BuyRest(q, top, cred)
        /\ BuyHolds(q, back, lost)
    BY <1>1, <2>5, <2>6, <2>7 DEF BuyRoom, BuyBalance, BuyRest, BuyHolds
  <2>10. BuyInv(q, sent, told, back, lost, gone, top, cred)  BY <2>8, <2>9 DEF BuyInv
  <2>11. /\ q.fee \in Nat /\ q.extra \in Nat /\ q.held \in Nat /\ q.late \in Nat
         /\ q.paid \in Nat /\ q.owed \in Nat
    BY <1>2, <2>5
  <2>12. OrderShape(q) /\ q.status = "Returning" /\ Closed(i, p, q)  BY <2>3, <2>5
  <2>13. NoWorse(p, q)  BY <2>11, <2>12, BuyClosed
  <2> QED  BY <2>10, <2>13 DEF NoWorse
<1>7. ASSUME NEW outcome \in {1, 3}, SameMoney(p, [o EXCEPT !.rawOut = p.rawOut, !.outcome = outcome])
      PROVE  /\ p.status = o.status /\ p.fee = o.fee /\ p.extra = o.extra /\ p.held = o.held
             /\ HadOf(p) = HadOf(o) /\ p.advanced = o.advanced /\ p.shares = o.shares
             /\ p.outcome = outcome
  BY <1>3, <1>7 DEF SameMoney, OrderShape, HadOf
<1>8. CASE r.outcome = "Bought"
  <2>1. CASE o.status \in {"Dispatched", "Escalated"} /\ FilledWith(i, p, o, r.amountOut)
    BY <1>4, <1>8, <2>1, BuyFilledIs
  <2>2. CASE /\ o.status = "Cancelled" /\ o.advanced
             /\ SameMoney(p, [o EXCEPT !.rawOut = r.amountOut, !.outcome = 1])
    <3>1. p.rawOut = r.amountOut  BY <1>3, <2>2 DEF SameMoney, OrderShape
    <3> QED  BY <1>5, <1>7, <2>2, <3>1
  <2> QED  BY <1>8, <2>1, <2>2 DEF Answered
<1>9. CASE r.outcome = "Failed"
  <2>1. CASE o.status \in {"Dispatched", "Escalated"} /\ FailedBuy(i, p, o)  BY <1>6, <2>1
  <2>2. CASE o.status = "Cancelled" /\ o.advanced /\ FailedBuy(i, p, o)
    <3>1. SameMoney(p, [o EXCEPT !.outcome = 3, !.rawOut = 0])  BY <2>2 DEF FailedBuy
    <3>2. p.rawOut = 0  BY <1>3, <3>1 DEF SameMoney, OrderShape
    <3>3. SameMoney(p, [o EXCEPT !.rawOut = p.rawOut, !.outcome = 3])
      BY <1>3, <3>1, <3>2 DEF SameMoney, OrderShape
    <3> QED  BY <1>5, <1>7, <2>2, <3>3
  <2> QED  BY <1>3, <1>9, <2>1, <2>2 DEF Answered
<1> QED  BY <1>3, <1>8, <1>9 DEF Answered

\* What else may change: less is on the way, no more of it is nowhere, more was given.
EnvStays(back, lost, gone, top, cred, back1, lost1, gone1, top1, cred1) ==
  /\ gone1 <= gone /\ top <= top1 /\ cred <= cred1 /\ (back1 => back) /\ (lost1 => lost)

WaitsWell(o, sent, told, back, lost, gone, top, cred) ==
  \A back1, lost1 \in BOOLEAN, gone1, top1, cred1 \in Nat :
    EnvStays(back, lost, gone, top, cred, back1, lost1, gone1, top1, cred1)
      => BuyInv(o, sent, told, back1, lost1, gone1, top1, cred1)

\* The surroundings got better: nothing more is lost or gone, and no less was given.
LEMMA BuyWaits ==
  ASSUME NEW o \in HubOrder, NEW sent \in BOOLEAN, NEW told \in BOOLEAN,
         NEW back \in BOOLEAN, NEW lost \in BOOLEAN, NEW gone \in Nat, NEW top \in Nat,
         NEW cred \in Nat, BuyInv(o, sent, told, back, lost, gone, top, cred)
  PROVE  WaitsWell(o, sent, told, back, lost, gone, top, cred)
<1> SUFFICES ASSUME NEW back1 \in BOOLEAN, NEW lost1 \in BOOLEAN, NEW gone1 \in Nat,
                    NEW top1 \in Nat, NEW cred1 \in Nat,
                    EnvStays(back, lost, gone, top, cred, back1, lost1, gone1, top1, cred1)
             PROVE  BuyInv(o, sent, told, back1, lost1, gone1, top1, cred1)
  BY DEF WaitsWell
<1>1. /\ BuyShape(o) /\ BuySent(o, sent) /\ BuyTold(o, told) /\ BuyRoom(o, top)
      /\ BuyBalance(o, gone, top, cred) /\ BuyRest(o, top, cred) /\ BuyHolds(o, back, lost)
  BY DEF BuyInv
<1>2. /\ o.extra \in Nat /\ o.held \in Nat /\ o.late \in Nat /\ BuyWorth(o) \in Nat
      /\ Principal \in Nat /\ BuyFee \in Nat /\ Extra \in Nat
  BY BuyNumbers
<1>3. BuyRoom(o, top1) /\ BuyBalance(o, gone1, top1, cred1) /\ BuyRest(o, top1, cred1)
      /\ BuyHolds(o, back1, lost1)
  BY <1>1, <1>2 DEF BuyRoom, BuyBalance, BuyRest, BuyHolds, EnvStays
<1> QED  BY <1>1, <1>3 DEF BuyInv

\* What a payment does to an order as it is.
LEMMA PaidOut ==
  ASSUME NEW p, NEW o \in HubOrder, NEW amount \in Nat, NEW to \in {"user", "treasury"},
         PaidTo(p, o, to, amount)
  PROVE  /\ ButPaid(p, o)
         /\ \E x \in {0, amount} :
              /\ HadOf(p) = HadOf(o) + x
              /\ IF to = "treasury" THEN p.late = o.late + x ELSE x = amount /\ p.late = o.late
<1>1. /\ OrderShape(o) /\ o.paid \in Nat /\ o.owed \in Nat /\ o.late \in Nat
  BY DEF HubOrder, OrderShape
<1>2. PICK b : b = o  OBVIOUS
<1>3. OrderShape(b) /\ b.paid \in Nat /\ b.owed \in Nat /\ b.late \in Nat  BY <1>1, <1>2
<1>4. PICK x : x = amount  OBVIOUS
<1>5. PICK u : u = to  OBVIOUS
<1>6. x \in Nat /\ PaidTo(p, b, u, x)  BY <1>2, <1>4, <1>5
<1>7. /\ ButPaid(p, b)
      /\ u = "user" => HadOf(p) = HadOf(b) + x /\ p.late = b.late
      /\ u = "treasury" => \E y \in {0, x} : HadOf(p) = HadOf(b) + y /\ p.late = b.late + y
  BY ONLY <1>3, <1>6, PaidParts
<1> QED  BY <1>2, <1>4, <1>5, <1>7

\* Money that arrives: it was on the way, was returned or was given; and only the whole
\* principal, less the route's cost, may have been what the order lacked.
EnvGives(amount, back, lost, gone, top, cred, back1, lost1, gone1, top1, cred1) ==
  /\ gone1 + amount <= gone + (top1 - top) + (cred1 - cred) /\ gone1 <= gone
  /\ top <= top1 /\ cred <= cred1
  /\ back1 => back \/ amount >= Principal - LossBound
  /\ lost1 => lost \/ amount >= Principal - LossBound
  /\ IsBack(amount, Principal) \/ amount <= (top1 - top) + (cred1 - cred)

\* What was bought is not lost.
NotLost(o, lost) == o.outcome = 1 => ~lost

GivenWell(o, p, amount, sent, told, back, lost, gone, top, cred) ==
  \A back1, lost1 \in BOOLEAN, gone1, top1, cred1 \in Nat :
    /\ NotLost(o, lost1)
    /\ EnvGives(amount, back, lost, gone, top, cred, back1, lost1, gone1, top1, cred1)
    => BuyInv(p, sent, told, back1, lost1, gone1, top1, cred1)

\* Money that was returned, given or bounced arrives.
LEMMA BuyArrives ==
  ASSUME NEW i \in PublicBuys, NEW o \in HubOrder, NEW p \in HubOrder, NEW amount \in Nat,
         Arrives(i, p, o, amount), NEW sent \in BOOLEAN, NEW told \in BOOLEAN,
         NEW back \in BOOLEAN, NEW lost \in BOOLEAN, NEW gone \in Nat, NEW top \in Nat,
         NEW cred \in Nat, BuyInv(o, sent, told, back, lost, gone, top, cred)
  PROVE  GivenWell(o, p, amount, sent, told, back, lost, gone, top, cred)
<1> SUFFICES ASSUME NEW back1 \in BOOLEAN, NEW lost1 \in BOOLEAN, NEW gone1 \in Nat,
                    NEW top1 \in Nat, NEW cred1 \in Nat, NotLost(o, lost1),
                    EnvGives(amount, back, lost, gone, top, cred, back1, lost1, gone1, top1, cred1)
             PROVE  BuyInv(p, sent, told, back1, lost1, gone1, top1, cred1)
  BY DEF GivenWell
<1>1. /\ BuyShape(o) /\ BuySent(o, sent) /\ BuyTold(o, told) /\ BuyRoom(o, top)
      /\ BuyBalance(o, gone, top, cred) /\ BuyRest(o, top, cred) /\ BuyHolds(o, back, lost)
  BY DEF BuyInv
<1>2. /\ o.fee \in Nat /\ o.extra \in Nat /\ o.held \in Nat /\ o.late \in Nat /\ o.shares \in Nat
      /\ o.paid \in Nat /\ o.owed \in Nat
      /\ HadOf(o) \in Nat /\ o.advanced \in BOOLEAN /\ BuyWorth(o) \in Nat /\ BuyWorth(p) \in Nat
      /\ Principal \in Nat /\ Principal > 0 /\ BuyFee \in Nat /\ Extra \in Nat /\ LossBound \in Nat
      /\ p.late \in Nat
  BY BuyNumbers
<1>3. OrderShape(o)  BY DEF HubOrder, OrderShape
<1>4. CASE o.advanced
  <2>1. p = o /\ o.status = "Cancelled" /\ ~IsOpen(o)
    BY <1>1, <1>4 DEF Arrives, BuyShape, IsOpen
  <2>2. BuyRoom(p, top1) /\ BuyBalance(p, gone1, top1, cred1) /\ BuyRest(p, top1, cred1)
        /\ BuyHolds(p, back1, lost1)
    BY <1>1, <1>2, <1>4, <2>1 DEF BuyRoom, BuyBalance, BuyRest, BuyHolds, EnvGives
  <2> QED  BY <1>1, <2>1, <2>2 DEF BuyInv
<1>5. PICK k : k = [o EXCEPT !.held = @ + amount]  OBVIOUS
<1>6. /\ OrderShape(k) /\ k.status = o.status /\ k.fee = o.fee /\ k.extra = o.extra
      /\ k.held = o.held + amount /\ k.paid = o.paid /\ k.owed = o.owed /\ k.late = o.late
      /\ k.outcome = o.outcome /\ k.advanced = o.advanced /\ k.shares = o.shares
  BY <1>3, <1>5 DEF OrderShape
<1>7. HadOf(k) = HadOf(o) /\ (IsOpen(k) <=> IsOpen(o)) /\ BuyWorth(k) = BuyWorth(o) + amount
  BY <1>2, <1>6 DEF HadOf, IsOpen, BuyWorth
<1>8. ASSUME ~o.advanced, o.status \notin {"Filled", "Cancelled"}
      PROVE  BuyInv(k, sent, told, back1, lost1, gone1, top1, cred1)
  <2>1. BuyShape(k) /\ BuySent(k, sent) /\ BuyTold(k, told)
    BY <1>1, <1>6, <1>7, <1>8 DEF BuyShape, BuySent, BuyTold
  <2>2. k.outcome # 1  BY <1>1, <1>6, <1>8 DEF BuyShape
  <2>3. BuyBalance(k, gone1, top1, cred1)
    BY <1>1, <1>2, <1>6, <1>7, <1>8 DEF BuyBalance, EnvGives
  <2>4. BuyHolds(k, back1, lost1)
    BY <1>1, <1>2, <1>6, <1>7, <1>8 DEF BuyHolds, EnvGives
  <2>5. BuyRoom(k, top1) /\ BuyRest(k, top1, cred1)
    BY <1>1, <1>2, <1>6, <1>7, <1>8, <2>2 DEF BuyRoom, BuyRest, EnvGives
  <2> QED  BY <2>1, <2>3, <2>4, <2>5 DEF BuyInv
<1>9. CASE ~o.advanced /\ o.status = "Returning"
  <2>1. Closed(i, p, k)  BY <1>5, <1>9 DEF Arrives
  <2>2. /\ k.fee \in Nat /\ k.extra \in Nat /\ k.held \in Nat /\ k.late \in Nat
        /\ k.paid \in Nat /\ k.owed \in Nat /\ k.status = "Returning"
    BY <1>2, <1>6, <1>9
  <2>3. NoWorse(p, k)  BY <1>6, <2>1, <2>2, BuyClosed
  <2>4. BuyInv(k, sent, told, back1, lost1, gone1, top1, cred1)  BY <1>8, <1>9
  <2>5. /\ sent \in BOOLEAN /\ told \in BOOLEAN /\ back1 \in BOOLEAN /\ lost1 \in BOOLEAN
        /\ gone1 \in Nat /\ top1 \in Nat /\ cred1 \in Nat
    OBVIOUS
  <2> QED  BY ONLY <2>3, <2>4, <2>5, SMTT(60) DEF NoWorse
<1>10. CASE ~o.advanced /\ o.outcome = 0 /\ o.status \notin {"Returning", "Filled", "Cancelled"}
  <2>1. p = k  BY <1>1, <1>5, <1>10 DEF Arrives, BuyShape
  <2> QED  BY <1>8, <1>10, <2>1
<1>11. CASE /\ ~o.advanced /\ o.status # "Returning"
            /\ o.outcome # 0 \/ o.status \in {"Filled", "Cancelled"}
  <2>1. PICK to : to = IF o.outcome = 1 /\ IsBack(amount, Principal) THEN "treasury" ELSE "user"
    OBVIOUS
  <2>2. LateFor(i, o, amount) = to  BY <2>1, PublicLane
  <2>3. PaidTo(p, o, to, amount)  BY <1>1, <1>11, <2>2 DEF Arrives, BuyShape
  <2>4. ButPaid(p, o)  BY <2>1, <2>3, PaidOut
  <2>5. PICK x \in {0, amount} :
          /\ HadOf(p) = HadOf(o) + x
          /\ IF to = "treasury" THEN p.late = o.late + x ELSE x = amount /\ p.late = o.late
    BY <2>1, <2>3, PaidOut, ZenonT(60)
  <2>6. x \in Nat /\ x <= amount  BY <2>5
  <2>7. ~IsOpen(o) /\ (IsOpen(p) <=> IsOpen(o)) /\ BuyWorth(p) = BuyWorth(o) + x
        /\ p.held = o.held /\ p.outcome = o.outcome /\ p.advanced = o.advanced
    BY <1>1, <1>2, <1>11, <2>4, <2>5, <2>6 DEF ButPaid, IsOpen, BuyWorth, BuyShape
  <2>8. BuyShape(p) /\ BuyTold(p, told)
    BY <1>1, <2>4, <2>7 DEF BuyShape, BuyTold, ButPaid
  <2>9. BuySent(p, sent)
    BY <1>1, <1>2, <2>4, <2>5, <2>6 DEF BuySent, ButPaid
  <2>10. BuyRoom(p, top1)  BY <1>11, <2>7 DEF BuyRoom
  <2>11. BuyBalance(p, gone1, top1, cred1)
    BY <1>1, <1>2, <1>11, <2>6, <2>7 DEF BuyBalance, EnvGives
  <2>12. BuyRest(p, top1, cred1)
    <3>1. CASE to = "treasury"
      BY <1>1, <1>2, <1>11, <2>5, <2>6, <2>7, <3>1 DEF BuyRest, EnvGives
    <3>2. CASE o.outcome = 1 /\ to # "treasury"
      <4>1. amount <= (top1 - top) + (cred1 - cred)  BY <2>1, <3>2 DEF EnvGives
      <4> QED
        BY <1>1, <1>2, <1>11, <2>5, <2>6, <2>7, <3>2, <4>1 DEF BuyRest, EnvGives
    <3>3. CASE o.outcome # 1  BY <2>7, <3>3 DEF BuyRest
    <3> QED  BY <3>1, <3>2, <3>3
  <2>13. BuyHolds(p, back1, lost1)
    <3>1. CASE o.outcome = 1  BY <2>7, <3>1 DEF BuyHolds, NotLost
    <3>2. CASE o.outcome # 1
      <4>1. x = amount  BY <2>1, <2>5, <3>2
      <4> QED  BY <1>1, <1>2, <1>11, <2>5, <2>7, <4>1 DEF BuyHolds, EnvGives
    <3> QED  BY <3>1, <3>2
  <2> QED  BY <2>8, <2>9, <2>10, <2>11, <2>12, <2>13 DEF BuyInv
<1> QED  BY <1>4, <1>9, <1>10, <1>11, <1>2

\* A subsidy of the order's reserve.
LEMMA BuyToppedUp ==
  ASSUME NEW i \in PublicBuys, NEW o \in HubOrder, NEW p \in HubOrder, NEW amount \in Nat,
         Topped(i, p, o, amount), NEW sent \in BOOLEAN, NEW told \in BOOLEAN,
         NEW back \in BOOLEAN, NEW lost \in BOOLEAN, NEW gone \in Nat, NEW top \in Nat,
         NEW cred \in Nat, BuyInv(o, sent, told, back, lost, gone, top, cred)
  PROVE  BuyInv(p, sent, told, back, lost, gone, top + amount, cred)
<1>1. /\ BuyShape(o) /\ BuySent(o, sent) /\ BuyTold(o, told) /\ BuyRoom(o, top)
      /\ BuyBalance(o, gone, top, cred) /\ BuyRest(o, top, cred) /\ BuyHolds(o, back, lost)
  BY DEF BuyInv
<1>2. /\ o.fee \in Nat /\ o.extra \in Nat /\ o.held \in Nat /\ o.late \in Nat
      /\ o.paid \in Nat /\ o.owed \in Nat /\ BuyWorth(o) \in Nat /\ HadOf(o) \in Nat
      /\ Principal \in Nat /\ BuyFee \in Nat /\ Extra \in Nat
  BY BuyNumbers
<1>3. PICK k : k = [o EXCEPT !.extra = @ + amount]  OBVIOUS
<1>4. /\ OrderShape(k) /\ k.status = o.status /\ k.fee = o.fee /\ k.extra = o.extra + amount
      /\ k.held = o.held /\ k.paid = o.paid /\ k.owed = o.owed /\ k.late = o.late
      /\ k.outcome = o.outcome /\ k.advanced = o.advanced /\ k.shares = o.shares
  BY <1>3 DEF HubOrder, OrderShape
<1>5. HadOf(k) = HadOf(o) /\ (IsOpen(k) <=> IsOpen(o)) /\ BuyWorth(k) = BuyWorth(o) + amount
  BY <1>2, <1>4 DEF HadOf, IsOpen, BuyWorth
<1>6. BuyInv(k, sent, told, back, lost, gone, top + amount, cred)
  <2>1. BuyShape(k) /\ BuySent(k, sent) /\ BuyTold(k, told)
    BY <1>1, <1>4, <1>5 DEF BuyShape, BuySent, BuyTold
  <2>2. BuyRoom(k, top + amount) /\ BuyBalance(k, gone, top + amount, cred)
        /\ BuyRest(k, top + amount, cred) /\ BuyHolds(k, back, lost)
    BY <1>1, <1>2, <1>4, <1>5 DEF BuyRoom, BuyBalance, BuyRest, BuyHolds
  <2> QED  BY <2>1, <2>2 DEF BuyInv
<1>7. CASE p = k  BY <1>6, <1>7
<1>8. CASE o.status = "Returning" /\ Closed(i, p, k)
  <2>1. /\ k.fee \in Nat /\ k.extra \in Nat /\ k.held \in Nat /\ k.late \in Nat
        /\ k.paid \in Nat /\ k.owed \in Nat /\ k.status = "Returning"
    BY <1>2, <1>4, <1>8
  <2>2. NoWorse(p, k)  BY <1>4, <1>8, <2>1, BuyClosed
  <2>3. top + amount \in Nat  OBVIOUS
  <2> QED  BY <1>6, <2>2, <2>3 DEF NoWorse
<1> QED  BY <1>3, <1>7, <1>8 DEF Topped

-----------------------------------------------------------------------------
(* A public buy's surroundings, in the state.                              *)

\* The principal is nowhere on the vault's side: not spent, held, returned or handed over.
LostIn(a, cr) ==
  /\ ~BuyIn(a) /\ ~(a.fund >= Principal) /\ ~(\E t \in a.back \ cr : t.amount >= Principal)
  /\ ~(UsdOf(a) >= Principal)
SentFor(i) == i \in transfersSent
BackFor(i) == i \in resolved /\ paidIn[i] = donated[i]
LostFor(i) == i \in resolved /\ LostIn(Account(i), credited)
GoneFor(i) == (IF i \in transfersSent \ resolved THEN Principal ELSE 0) + paidIn[i] - donated[i]
CredFor(i) == Transferred(ReturnsOf(i) \cap credited)
PublicOK(i) ==
  BuyInv(hub.order[i], SentFor(i), Delivered(i), BackFor(i), LostFor(i), GoneFor(i), topUps[i],
         CredFor(i))

\* The recipient's share of an account, and what the log says of it.
LEMMA UsdIsLeft ==
  ASSUME AccountsInv, NEW r \in Refs
  PROVE  /\ UsdOf(Account(r)) = TakenOnVault(r) + owedUsd[r]
         /\ UsdOf(Account(r)) \in Nat
         /\ Transferred(ReturnsOf(r)) \in Nat /\ AreTransfers(ReturnsOf(r))
         /\ BuyIn(Account(r)) <=> \E n \in ResultOf(r) : results[n].outcome = "Bought"
         /\ SaleIn(Account(r)) <=> SoldOnVault(r)
         /\ AccountOK(r, Account(r)) /\ CameIn(r, Account(r))
<1>1. PICK a : a = Account(r)  OBVIOUS
<1>2. AccountOK(r, a) /\ CameIn(r, a)  BY <1>1 DEF AccountsInv
<1>3. /\ a.in = paidIn[r] /\ a.out = paidOut[r] /\ a.fund = funding[r]
      /\ a.proc = proceeds[r] /\ a.adv = advanced[r] /\ a.back = ReturnsOf(r)
      /\ a.log = LogOf(r)
  BY <1>1 DEF Account
<1>4. /\ BuyIn(a) <=> \E n \in ResultOf(r) : results[n].outcome = "Bought"
      /\ SaleIn(a) <=> SoldOnVault(r)
  BY <1>3 DEF BuyIn, SaleIn, LogOf, SoldOnVault
<1>5. SpentOf(a) = SpentAtVenue(r) /\ SpentOf(a) \in Nat
  BY <1>4, HubAssumption DEF SpentOf, SpentAtVenue
<1>6. AreTransfers(a.back)  BY <1>2 DEF AccountOK, SumsIn, AreTransfers
<1>7. Transferred(a.back) \in Nat  BY <1>6, TransferredMore
<1>8. paidIn[r] + advanced[r] = paidOut[r] + funding[r] + proceeds[r] + owedUsd[r]
  BY DEF AccountsInv, RefMoneyConserved
<1>9. owedUsd[r] \in Nat
  BY DEF AccountsInv, SharesInv, LayerInv, VaultTypeOK, MoneyTypeOK
<1>10. /\ a.in \in Nat /\ a.out \in Nat /\ a.fund \in Nat /\ a.proc \in Nat /\ a.adv \in Nat
       /\ Transferred(a.back) + SpentOf(a) <= a.out
  BY <1>2 DEF AccountOK, SumsIn
<1>11. UsdOf(a) = a.out - Transferred(a.back) - SpentOf(a) + owedUsd[r] /\ UsdOf(a) \in Nat
  <2>1. PICK spent \in Nat : spent = SpentOf(a)  BY <1>5
  <2>2. PICK home \in Nat : home = Transferred(a.back)  BY <1>7
  <2>3. PICK left \in Nat : left = owedUsd[r]  BY <1>9
  <2>4. a.in + a.adv = a.out + a.fund + a.proc + left  BY <1>3, <1>8, <2>3
  <2>5. UsdOf(a) = a.in + a.adv - a.fund - a.proc - spent - home
    BY ONLY <1>10, <2>1, <2>2 DEF UsdOf
  <2>6. home + spent <= a.out  BY <1>10, <2>1, <2>2
  <2>7. UsdOf(a) = a.out - home - spent + left /\ UsdOf(a) \in Nat
    BY ONLY <1>10, <2>1, <2>2, <2>3, <2>4, <2>5, <2>6
  <2> QED  BY <2>1, <2>2, <2>3, <2>7
<1>12. UsdOf(a) = TakenOnVault(r) + owedUsd[r]  BY <1>3, <1>5, <1>11 DEF TakenOnVault
<1>13. Transferred(ReturnsOf(r)) \in Nat /\ AreTransfers(ReturnsOf(r))
  BY <1>3, <1>6, <1>7
<1>14. UsdOf(Account(r)) = TakenOnVault(r) + owedUsd[r] /\ UsdOf(Account(r)) \in Nat
  BY ONLY <1>1, <1>11, <1>12
<1>15. AccountOK(r, Account(r)) /\ CameIn(r, Account(r))  BY DEF AccountsInv
<1>16. /\ BuyIn(Account(r)) <=> \E n \in ResultOf(r) : results[n].outcome = "Bought"
       /\ SaleIn(Account(r)) <=> SoldOnVault(r)
  BY ONLY <1>1, <1>4
<1> QED  BY <1>13, <1>14, <1>15, <1>16

\* The surroundings are in order.
EnvsOK ==
  \A i \in PublicBuys :
    /\ EnvOK(SentFor(i), BackFor(i), LostFor(i), GoneFor(i))
    /\ GoneFor(i) \in Nat /\ CredFor(i) \in Nat /\ topUps[i] \in Nat

\* The surroundings follow from the accounts.
LEMMA EnvIs == AccountsInv => EnvsOK
<1> SUFFICES ASSUME AccountsInv, NEW i \in PublicBuys
             PROVE  /\ EnvOK(SentFor(i), BackFor(i), LostFor(i), GoneFor(i))
                    /\ GoneFor(i) \in Nat /\ CredFor(i) \in Nat /\ topUps[i] \in Nat
  BY DEF EnvsOK
<1>1. i \in Ids /\ i \in Refs /\ i \in Buys /\ Principal \in Nat
  BY PublicLane, LayerAssumption
<1>2. /\ resolved \subseteq transfersSent /\ donated[i] \in Nat /\ topUps[i] \in Nat
  BY <1>1 DEF AccountsInv, RoutesOK
<1>3. \/ paidIn[i] = donated[i]
      \/ i \in resolved /\ paidIn[i] = donated[i] + Principal
  <2>1. CameIn(i, Account(i)) /\ Account(i).in = paidIn[i]  BY <1>1, UsdIsLeft DEF Account
  <2> QED  BY <1>1, <2>1 DEF CameIn
<1>4. GoneFor(i) \in Nat  BY <1>1, <1>2, <1>3 DEF GoneFor
<1>5. EnvOK(SentFor(i), BackFor(i), LostFor(i), GoneFor(i))
  BY <1>1, <1>2, <1>3 DEF EnvOK, SentFor, BackFor, LostFor, GoneFor
<1>6. CredFor(i) \in Nat
  <2>1. AreTransfers(ReturnsOf(i))  BY <1>1, UsdIsLeft
  <2> QED  BY <2>1, TransferredPart DEF CredFor
<1> QED  BY <1>2, <1>4, <1>5, <1>6

\* What the vault does to a buy's account loses no principal.
LEMMA LostStays ==
  ASSUME NEW r \in Buys, NEW a, NEW b, AccountOK(r, a), NumbersOf(b), AccountMoves(r, b, a),
         NEW cr, \A t \in cr : t.ref = r => t \in a.back, UsdOf(a) >= 0, LostIn(b, cr)
  PROVE  LostIn(a, cr) /\ b.in = a.in
<1>0. /\ Principal \in Nat \ {0} /\ r \notin Sells
      /\ a.in \in Nat /\ a.out \in Nat /\ a.fund \in Nat /\ a.proc \in Nat /\ a.adv \in Nat
      /\ b.fund \in Nat /\ AreTransfers(a.back)
  BY HubAssumption DEF AccountOK, SumsIn, NumbersOf, AreTransfers
<1>1. CASE SameAccount(b, a)
  <2>1. UsdOf(b) = UsdOf(a) /\ (BuyIn(b) <=> BuyIn(a))
    BY <1>1 DEF SameAccount, UsdOf, SpentOf, BuyIn
  <2> QED  BY <1>1, <2>1 DEF SameAccount, LostIn
<1>2. CASE BoughtFrom(r, b, a)
  <2>1. BuyIn(b)  BY <1>2 DEF BoughtFrom, Logs, BuyIn
  <2> QED  BY <2>1 DEF LostIn
<1>3. CASE FailedFrom(b, a)
  <2>1. /\ a.log = {} /\ b.in = a.in /\ b.fund = a.fund /\ b.proc = a.proc /\ b.adv = a.adv
        /\ b.back = a.back
    BY <1>3 DEF FailedFrom, Logs, AccountOK, SettledOnce
  <2>2. ~BuyIn(a) /\ ~BuyIn(b)  BY <2>1 DEF BuyIn, LostIn
  <2>3. UsdOf(b) = UsdOf(a)  BY <2>1, <2>2 DEF UsdOf, SpentOf
  <2> QED  BY <2>1, <2>2, <2>3 DEF LostIn
<1>4. CASE ReturnedFrom(r, b, a)
  <2>1. PICK amount : amount = a.fund + a.proc  OBVIOUS
  <2>2. PICK t : t = [ref |-> r, amount |-> amount, id |-> a.out]  OBVIOUS
  <2>3. /\ amount \in Nat /\ a.fund <= amount
        /\ b.back = a.back \cup {t} /\ b.fund = 0 /\ b.proc = 0
        /\ b.in = a.in /\ b.adv = a.adv /\ b.log = a.log
    BY <1>0, <1>4, <2>1, <2>2 DEF ReturnedFrom
  <2>4. t \notin a.back /\ t.amount = amount /\ t.ref = r /\ t \notin cr
    BY <1>0, <2>2 DEF AccountOK, SumsIn
  <2>5. Transferred(b.back) = Transferred(a.back) + amount /\ Transferred(a.back) \in Nat
    BY <1>0, <2>3, <2>4, TransferredMore
  <2>6. (BuyIn(b) <=> BuyIn(a)) /\ SpentOf(b) = SpentOf(a) /\ SpentOf(a) \in Nat
    BY <1>0, <2>3 DEF BuyIn, SpentOf
  <2>7. UsdOf(b) = UsdOf(a)  BY <1>0, <2>1, <2>3, <2>5, <2>6 DEF UsdOf
  <2>8. ~(amount >= Principal)  BY <2>3, <2>4 DEF LostIn
  <2>9. ~(a.fund >= Principal)  BY <1>0, <2>3, <2>8
  <2>10. ~(\E u \in a.back \ cr : u.amount >= Principal)  BY <2>3 DEF LostIn
  <2> QED  BY <2>3, <2>6, <2>7, <2>9, <2>10 DEF LostIn
<1>5. CASE HandedOver(b, a)
  <2>1. /\ b.in = a.in /\ b.adv = a.adv /\ b.back = a.back /\ b.fund = 0 /\ b.proc = 0
        /\ \/ b.log = a.log
           \/ a.log = {}
    BY <1>5 DEF HandedOver, Logs, AccountOK, SettledOnce
  <2>2. ~BuyIn(a) /\ ~BuyIn(b)  BY <2>1 DEF BuyIn, LostIn
  <2>3. Transferred(a.back) \in Nat  BY <1>0, TransferredMore
  <2>4. UsdOf(b) = UsdOf(a) + a.fund + a.proc /\ UsdOf(a) \in Int
    BY <1>0, <2>1, <2>2, <2>3 DEF UsdOf, SpentOf
  <2>5. ~(UsdOf(b) >= Principal)  BY DEF LostIn
  <2>6. ~(UsdOf(a) >= Principal) /\ ~(a.fund >= Principal)  BY <1>0, <2>4, <2>5
  <2> QED  BY <2>1, <2>2, <2>6 DEF LostIn
<1> QED
  BY <1>0, <1>1, <1>2, <1>3, <1>4, <1>5 DEF AccountMoves, SoldFrom, SharesOver

\* The next surroundings, in the next state's values.
LEMMA EnvNext ==
  ASSUME NEW i
  PROVE  /\ SentFor(i)' <=> i \in transfersSent'
         /\ BackFor(i)' <=> (i \in resolved' /\ paidIn'[i] = donated'[i])
         /\ LostFor(i)' <=> (i \in resolved' /\ LostIn(Account(i)', credited'))
         /\ GoneFor(i)' = (IF i \in transfersSent' \ resolved' THEN Principal ELSE 0)
                            + paidIn'[i] - donated'[i]
         /\ CredFor(i)' = Transferred(ReturnsOf(i)' \cap credited')
<1>1. /\ SentFor(i)' <=> i \in transfersSent'
      /\ BackFor(i)' <=> (i \in resolved' /\ paidIn'[i] = donated'[i])
      /\ GoneFor(i)' = (IF i \in transfersSent' \ resolved' THEN Principal ELSE 0)
                         + paidIn'[i] - donated'[i]
  BY DEF SentFor, BackFor, GoneFor
<1>2. CredFor(i)' = Transferred(ReturnsOf(i)' \cap credited')  BY DEF CredFor, Transferred
<1>3. LostFor(i)' <=> (i \in resolved' /\ LostIn(Account(i)', credited'))
  BY DEF LostFor, LostIn, BuyIn, UsdOf, SpentOf, Transferred
<1> QED  BY <1>1, <1>2, <1>3

\* A step that leaves the vault as it is, and what came back for the order.
LEMMA EnvKept ==
  ASSUME UNCHANGED vaultVars, NEW i, donated'[i] = donated[i], i \in resolved' <=> i \in resolved,
         ReturnsOf(i) \cap credited' = ReturnsOf(i) \cap credited
  PROVE  /\ BackFor(i)' <=> BackFor(i)
         /\ LostFor(i)' <=> LostFor(i)
         /\ CredFor(i)' = CredFor(i)
         /\ (i \in transfersSent' <=> i \in transfersSent) => GoneFor(i)' = GoneFor(i)
<1>1. Account(i)' = Account(i)  BY AccountKept
<1>2. ReturnsOf(i)' = ReturnsOf(i) /\ paidIn' = paidIn
  BY DEF ReturnsOf, vaultVars, liabilityVars, logVars, historyVars
<1>3. BackFor(i)' <=> BackFor(i)  BY <1>2, EnvNext DEF BackFor
<1>4. CredFor(i)' = CredFor(i)  BY <1>2, EnvNext DEF CredFor
<1>5. (i \in transfersSent' <=> i \in transfersSent) => GoneFor(i)' = GoneFor(i)
  BY <1>2, EnvNext DEF GoneFor
<1>6. PICK a : a = Account(i)  OBVIOUS
<1>7. a.back = ReturnsOf(i)  BY <1>6 DEF Account
<1>8. LostIn(a, credited') <=> LostIn(a, credited)  BY <1>7 DEF LostIn
<1>9. LostFor(i)' <=> LostFor(i)  BY <1>1, <1>6, <1>8, EnvNext, SMTT(60) DEF LostFor
<1> QED  BY <1>3, <1>4, <1>5, <1>9

\* The surroundings of a step, before and after, in values.
EnvNow(i, sent, told, back, lost, gone, top, cred) ==
  /\ sent <=> SentFor(i)
  /\ told <=> Delivered(i)
  /\ back <=> BackFor(i)
  /\ lost <=> LostFor(i)
  /\ gone = GoneFor(i) /\ top = topUps[i] /\ cred = CredFor(i)
EnvAfter(i, sent, told, back, lost, gone, top, cred) ==
  /\ sent <=> SentFor(i)'
  /\ told <=> Delivered(i)'
  /\ back <=> BackFor(i)'
  /\ lost <=> LostFor(i)'
  /\ gone = GoneFor(i)' /\ top = topUps'[i] /\ cred = CredFor(i)'
\* The step keeps what holds of the buy.
HoldsAfter(i) ==
  \A sent, told, back, lost \in BOOLEAN, gone, top, cred \in Nat :
    EnvAfter(i, sent, told, back, lost, gone, top, cred)
      => BuyInv(hub'.order[i], sent, told, back, lost, gone, top, cred)
KeepsBuy(i) ==
  \A sent, told, back, lost \in BOOLEAN, gone, top, cred \in Nat :
    /\ EnvNow(i, sent, told, back, lost, gone, top, cred)
    /\ EnvOK(sent, back, lost, gone)
    /\ BuyInv(hub.order[i], sent, told, back, lost, gone, top, cred)
    => HoldsAfter(i)

\* The state, in values.
LEMMA PublicNow ==
  ASSUME NEW i, PublicOK(i), NEW o, o = hub.order[i], NEW sent \in BOOLEAN, NEW told \in BOOLEAN,
         NEW back \in BOOLEAN, NEW lost \in BOOLEAN, NEW gone, NEW top, NEW cred,
         EnvNow(i, sent, told, back, lost, gone, top, cred)
  PROVE  BuyInv(o, sent, told, back, lost, gone, top, cred)
BY DEF PublicOK, EnvNow, BuyInv, BuyShape, BuySent, BuyTold, BuyRoom, BuyBalance, BuyRest,
       BuyHolds, IsOpen, HadOf, BuyWorth, KeepsFee

\* The next state, in values.
LEMMA PublicNext ==
  ASSUME NEW i, NEW o, o = hub'.order[i], NEW sent \in BOOLEAN, NEW told \in BOOLEAN,
         NEW back \in BOOLEAN, NEW lost \in BOOLEAN, NEW gone, NEW top, NEW cred,
         EnvAfter(i, sent, told, back, lost, gone, top, cred),
         BuyInv(o, sent, told, back, lost, gone, top, cred)
  PROVE  PublicOK(i)'
BY DEF PublicOK, EnvAfter, BuyInv, BuyShape, BuySent, BuyTold, BuyRoom, BuyBalance, BuyRest,
       BuyHolds, IsOpen, HadOf, BuyWorth, KeepsFee

\* What keeps the buy's invariant for any surroundings keeps it in the next state.
LEMMA PublicKept ==
  ASSUME AccountsInv, AccountsInv', NEW i \in PublicBuys, PublicOK(i), KeepsBuy(i)
  PROVE  PublicOK(i)'
<1>1. PICK sent \in BOOLEAN, told \in BOOLEAN, back \in BOOLEAN, lost \in BOOLEAN :
        /\ sent <=> SentFor(i)
        /\ told <=> Delivered(i)
        /\ back <=> BackFor(i)
        /\ lost <=> LostFor(i)
  OBVIOUS
<1>2. PICK sent1 \in BOOLEAN, told1 \in BOOLEAN, back1 \in BOOLEAN, lost1 \in BOOLEAN :
        /\ sent1 <=> SentFor(i)'
        /\ told1 <=> Delivered(i)'
        /\ back1 <=> BackFor(i)'
        /\ lost1 <=> LostFor(i)'
  OBVIOUS
<1>3. PICK gone, top, cred : gone = GoneFor(i) /\ top = topUps[i] /\ cred = CredFor(i)  OBVIOUS
<1>4. PICK gone1, top1, cred1 : gone1 = GoneFor(i)' /\ top1 = topUps'[i] /\ cred1 = CredFor(i)'
  OBVIOUS
<1>5. gone \in Nat /\ top \in Nat /\ cred \in Nat  BY <1>3, EnvIs DEF EnvsOK
<1>6. EnvsOK /\ EnvsOK'  BY EnvIs, PTL
<1>7. gone1 \in Nat /\ top1 \in Nat /\ cred1 \in Nat  BY <1>4, <1>6 DEF EnvsOK
<1>8. EnvOK(sent, back, lost, gone)
  <2>1. EnvOK(SentFor(i), BackFor(i), LostFor(i), GoneFor(i))  BY EnvIs DEF EnvsOK
  <2> QED  BY <1>1, <1>3, <2>1 DEF EnvOK
<1>9. EnvNow(i, sent, told, back, lost, gone, top, cred)  BY <1>1, <1>3 DEF EnvNow
<1>10. BuyInv(hub.order[i], sent, told, back, lost, gone, top, cred)  BY <1>9, PublicNow
<1>11. EnvAfter(i, sent1, told1, back1, lost1, gone1, top1, cred1)  BY <1>2, <1>4 DEF EnvAfter
<1>12. /\ sent \in BOOLEAN /\ told \in BOOLEAN /\ back \in BOOLEAN /\ lost \in BOOLEAN
       /\ sent1 \in BOOLEAN /\ told1 \in BOOLEAN /\ back1 \in BOOLEAN /\ lost1 \in BOOLEAN
  OBVIOUS
<1>13. HoldsAfter(i)
  <2>1. /\ EnvNow(i, sent, told, back, lost, gone, top, cred)
        /\ EnvOK(sent, back, lost, gone)
        /\ BuyInv(hub.order[i], sent, told, back, lost, gone, top, cred)
    BY ONLY <1>8, <1>9, <1>10
  <2> QED  BY ONLY KeepsBuy(i), <1>5, <1>12, <2>1, SMTT(60) DEF KeepsBuy
<1>14. BuyInv(hub'.order[i], sent1, told1, back1, lost1, gone1, top1, cred1)
  BY ONLY <1>7, <1>11, <1>12, <1>13, SMTT(60) DEF HoldsAfter
<1> QED  BY <1>11, <1>14, PublicNext

\* A step that is not the order's: its surroundings are as they were, or better.
LEMMA PublicWaits ==
  ASSUME AccountsInv, NEW i \in PublicBuys, hub'.order[i] = hub.order[i],
         i \in transfersSent' <=> i \in transfersSent, Delivered(i)' <=> Delivered(i),
         BackFor(i)' => BackFor(i), LostFor(i)' => LostFor(i),
         GoneFor(i)' <= GoneFor(i), topUps[i] <= topUps'[i], CredFor(i) <= CredFor(i)'
  PROVE  KeepsBuy(i)
<1> SUFFICES ASSUME NEW sent \in BOOLEAN, NEW told \in BOOLEAN, NEW back \in BOOLEAN,
                    NEW lost \in BOOLEAN, NEW gone \in Nat, NEW top \in Nat, NEW cred \in Nat,
                    EnvNow(i, sent, told, back, lost, gone, top, cred),
                    EnvOK(sent, back, lost, gone),
                    BuyInv(hub.order[i], sent, told, back, lost, gone, top, cred)
             PROVE  HoldsAfter(i)
  BY DEF KeepsBuy
<1> SUFFICES ASSUME NEW sent1 \in BOOLEAN, NEW told1 \in BOOLEAN, NEW back1 \in BOOLEAN,
                    NEW lost1 \in BOOLEAN, NEW gone1 \in Nat, NEW top1 \in Nat,
                    NEW cred1 \in Nat,
                    EnvAfter(i, sent1, told1, back1, lost1, gone1, top1, cred1)
             PROVE  BuyInv(hub'.order[i], sent1, told1, back1, lost1, gone1, top1, cred1)
  BY DEF HoldsAfter
<1>1. PICK o : o = hub.order[i]  OBVIOUS
<1>2. o \in HubOrder  BY <1>1, PublicLane DEF AccountsInv, SharesInv, LayerInv, BooksOK, IsHub
<1>3. EnvStays(back, lost, gone, top, cred, back1, lost1, gone1, top1, cred1)
  BY DEF EnvNow, EnvAfter, EnvStays
<1>4. sent1 = sent /\ told1 = told  BY DEF EnvNow, EnvAfter, SentFor
<1>5. BuyInv(o, sent, told, back, lost, gone, top, cred)  BY <1>1
<1>6. /\ sent \in BOOLEAN /\ told \in BOOLEAN /\ back \in BOOLEAN /\ lost \in BOOLEAN
      /\ back1 \in BOOLEAN /\ lost1 \in BOOLEAN /\ gone \in Nat /\ top \in Nat /\ cred \in Nat
      /\ gone1 \in Nat /\ top1 \in Nat /\ cred1 \in Nat
  OBVIOUS
<1>7. WaitsWell(o, sent, told, back, lost, gone, top, cred)
  BY ONLY <1>2, <1>5, <1>6, BuyWaits, SMTT(60)
<1>8. BuyInv(o, sent, told, back1, lost1, gone1, top1, cred1)
  BY ONLY <1>3, <1>6, <1>7 DEF WaitsWell
<1> QED  BY <1>1, <1>4, <1>8

\* Money that arrives for the order.
LEMMA PublicArrives ==
  ASSUME AccountsInv, NEW i \in PublicBuys, hub'.order[i] \in HubOrder, NEW amount \in Nat,
         Arrives(i, hub'.order[i], hub.order[i], amount),
         i \in transfersSent' <=> i \in transfersSent, Delivered(i)' <=> Delivered(i),
         GoneFor(i)' + amount <= GoneFor(i) + (topUps'[i] - topUps[i]) + (CredFor(i)' - CredFor(i)),
         GoneFor(i)' <= GoneFor(i), topUps[i] <= topUps'[i], CredFor(i) <= CredFor(i)',
         BackFor(i)' => BackFor(i) \/ amount >= Principal - LossBound,
         LostFor(i)' => LostFor(i) \/ amount >= Principal - LossBound,
         \/ IsBack(amount, Principal)
         \/ amount <= (topUps'[i] - topUps[i]) + (CredFor(i)' - CredFor(i)),
         hub.order[i].outcome = 1 => ~LostFor(i)'
  PROVE  KeepsBuy(i)
<1> SUFFICES ASSUME NEW sent \in BOOLEAN, NEW told \in BOOLEAN, NEW back \in BOOLEAN,
                    NEW lost \in BOOLEAN, NEW gone \in Nat, NEW top \in Nat, NEW cred \in Nat,
                    EnvNow(i, sent, told, back, lost, gone, top, cred),
                    EnvOK(sent, back, lost, gone),
                    BuyInv(hub.order[i], sent, told, back, lost, gone, top, cred)
             PROVE  HoldsAfter(i)
  BY DEF KeepsBuy
<1> SUFFICES ASSUME NEW sent1 \in BOOLEAN, NEW told1 \in BOOLEAN, NEW back1 \in BOOLEAN,
                    NEW lost1 \in BOOLEAN, NEW gone1 \in Nat, NEW top1 \in Nat,
                    NEW cred1 \in Nat,
                    EnvAfter(i, sent1, told1, back1, lost1, gone1, top1, cred1)
             PROVE  BuyInv(hub'.order[i], sent1, told1, back1, lost1, gone1, top1, cred1)
  BY DEF HoldsAfter
<1>1. PICK o, p : o = hub.order[i] /\ p = hub'.order[i]  OBVIOUS
<1>2. o \in HubOrder /\ p \in HubOrder
  BY <1>1, PublicLane DEF AccountsInv, SharesInv, LayerInv, BooksOK, IsHub
<1>3. EnvGives(amount, back, lost, gone, top, cred, back1, lost1, gone1, top1, cred1)
  BY DEF EnvNow, EnvAfter, EnvGives
<1>4. sent1 = sent /\ told1 = told  BY DEF EnvNow, EnvAfter, SentFor
<1>5. BuyInv(o, sent, told, back, lost, gone, top, cred) /\ Arrives(i, p, o, amount)  BY <1>1
<1>6. NotLost(o, lost1)  BY <1>1 DEF EnvAfter, NotLost
<1>7. /\ sent \in BOOLEAN /\ told \in BOOLEAN /\ back \in BOOLEAN /\ lost \in BOOLEAN
      /\ back1 \in BOOLEAN /\ lost1 \in BOOLEAN /\ gone \in Nat /\ top \in Nat /\ cred \in Nat
      /\ gone1 \in Nat /\ top1 \in Nat /\ cred1 \in Nat
      /\ i \in PublicBuys /\ amount \in Nat
  OBVIOUS
<1>8. GivenWell(o, p, amount, sent, told, back, lost, gone, top, cred)
  BY ONLY <1>2, <1>5, <1>7, BuyArrives, SMTT(41)
<1>9. BuyInv(p, sent, told, back1, lost1, gone1, top1, cred1)
  BY ONLY <1>3, <1>6, <1>7, <1>8 DEF GivenWell
<1> QED  BY <1>1, <1>4, <1>9

\* A step onward, and escalateFunds, in numbers.
LEMMA OnwardIs ==
  ASSUME NEW o \in HubOrder, NEW p, NEW st, Onward(p, o, st)
  PROVE  \E x \in Nat : x <= o.extra /\ Becomes(p, o, st, o.fee, x, o.held, HadOf(o))
<1>1. OrderShape(o)  BY DEF HubOrder, OrderShape
<1> QED  BY <1>1 DEF Onward, SameMoney, OrderShape, Becomes, HadOf

\* escalateFunds of a public buy, by its numbers.
LEMMA EscalatedIs ==
  ASSUME NEW i \in PublicBuys, NEW o \in HubOrder, NEW p \in HubOrder, EscalatedNow(i, p, o),
         BuyShape(o)
  PROVE  EscalatedSo(p, o)
<1>1. OrderShape(o)  BY DEF HubOrder, OrderShape
<1>2. /\ o.paid \in Nat /\ o.owed \in Nat /\ o.late \in Nat /\ o.fee \in Nat /\ o.extra \in Nat
      /\ o.held \in Nat
  BY DEF HubOrder
<1>3. i \in Buys  BY PublicLane
<1>4. CASE o.status \in {"Funded", "Dispatched"} /\ Onward(p, o, "Escalated")
  BY <1>4, OnwardIs DEF EscalatedSo
<1>5. CASE o.status \in {"Returning", "Proceeds"} /\ Taken(i, p, o)
  <2>1. PICK a : a = [o EXCEPT !.status = "Escalated", !.held = 0, !.fee = 0, !.extra = 0]  OBVIOUS
  <2>2. PICK amount : amount = o.held + o.fee + o.extra  OBVIOUS
  <2>3. /\ OrderShape(a) /\ a.status = "Escalated" /\ a.extra = 0 /\ a.held = 0 /\ a.fee = 0
        /\ a.paid = o.paid /\ a.owed = o.owed /\ a.late = o.late
        /\ a.outcome = o.outcome /\ a.advanced = o.advanced /\ a.shares = o.shares
    BY <1>1, <2>1 DEF OrderShape
  <2>4. PaidTo(p, a, "user", amount)  BY <1>3, <1>5, <2>1, <2>2 DEF Taken
  <2>5. amount \in Nat  BY <1>2, <2>2
  <2>6. ButPaid(p, a) /\ HadOf(p) = HadOf(a) + amount /\ p.late = a.late
    <3>1. OrderShape(a) /\ a.paid \in Nat /\ a.owed \in Nat /\ a.late \in Nat  BY <1>2, <2>3
    <3>2. PICK to : to = "user"  OBVIOUS
    <3>3. PaidTo(p, a, to, amount)  BY <2>4, <3>2
    <3>4. ButPaid(p, a) /\ (to = "user" => HadOf(p) = HadOf(a) + amount /\ p.late = a.late)
      BY ONLY <2>5, <3>1, <3>3, PaidParts
    <3> QED  BY <3>2, <3>4
  <2>7. HadOf(p) = HadOf(o) + o.held + o.fee + o.extra
    BY <1>2, <2>2, <2>3, <2>6 DEF HadOf
  <2>8. Becomes(p, o, "Escalated", 0, 0, 0, HadOf(o) + o.held + o.fee + o.extra)
    BY <2>3, <2>6, <2>7 DEF Becomes, ButPaid
  <2> QED  BY <1>5, <2>8 DEF BuyShape, EscalatedSo
<1> QED  BY <1>3, <1>4, <1>5 DEF EscalatedNow

\* A step of the hub about the order.
LEMMA PublicActs ==
  ASSUME AccountsInv, NEW i \in PublicBuys, hub'.order[i] \in HubOrder, HubActs(i)
  PROVE  KeepsBuy(i)
<1> SUFFICES ASSUME NEW sent \in BOOLEAN, NEW told \in BOOLEAN, NEW back \in BOOLEAN,
                    NEW lost \in BOOLEAN, NEW gone \in Nat, NEW top \in Nat, NEW cred \in Nat,
                    EnvNow(i, sent, told, back, lost, gone, top, cred),
                    EnvOK(sent, back, lost, gone),
                    BuyInv(hub.order[i], sent, told, back, lost, gone, top, cred)
             PROVE  HoldsAfter(i)
  BY DEF KeepsBuy
<1> SUFFICES ASSUME NEW sent1 \in BOOLEAN, NEW told1 \in BOOLEAN, NEW back1 \in BOOLEAN,
                    NEW lost1 \in BOOLEAN, NEW gone1 \in Nat, NEW top1 \in Nat,
                    NEW cred1 \in Nat,
                    EnvAfter(i, sent1, told1, back1, lost1, gone1, top1, cred1)
             PROVE  BuyInv(hub'.order[i], sent1, told1, back1, lost1, gone1, top1, cred1)
  BY DEF HoldsAfter
<1>1. PICK o, p : o = hub.order[i] /\ p = hub'.order[i]  OBVIOUS
<1>2. o \in HubOrder /\ p \in HubOrder
  BY <1>1, PublicLane DEF AccountsInv, SharesInv, LayerInv, BooksOK, IsHub
<1>3. BuyInv(o, sent, told, back, lost, gone, top, cred) /\ EnvOK(sent, back, lost, gone)
  BY <1>1
<1>4. /\ sent \in BOOLEAN /\ told \in BOOLEAN /\ back \in BOOLEAN /\ lost \in BOOLEAN
      /\ gone \in Nat /\ top \in Nat /\ cred \in Nat /\ i \in PublicBuys
  OBVIOUS
<1>5. i \in Ids /\ i \in Buys /\ Lane(i) = 0 /\ Principal \in Nat  BY PublicLane
<1>6. /\ UNCHANGED vaultVars /\ donated'[i] = donated[i] /\ (i \in resolved' <=> i \in resolved)
      /\ ReturnsOf(i) \cap credited' = ReturnsOf(i) \cap credited /\ topUps'[i] = topUps[i]
  BY DEF HubActs, routeVars, giftVars
<1>7. back1 = back /\ lost1 = lost /\ cred1 = cred /\ top1 = top
      /\ ((i \in transfersSent' <=> i \in transfersSent) => sent1 = sent /\ gone1 = gone)
      /\ (SameDelivered => told1 = told)
  BY <1>5, <1>6, EnvKept DEF EnvNow, EnvAfter, SentFor, SameDelivered
<1>8. ASSUME BuyInv(p, sent, told, back, lost, gone, top, cred),
             transfersSent' = transfersSent, SameDelivered
      PROVE  BuyInv(hub'.order[i], sent1, told1, back1, lost1, gone1, top1, cred1)
  BY <1>1, <1>7, <1>8
<1>9. CASE Handled(i, p, o) /\ UNCHANGED transfersSent /\ SameDelivered
  <2>1. BuyHandledSo(p, o)  BY <1>2, <1>9, BuyHandledIs
  <2>2. BuyInv(p, sent, told, back, lost, gone, top, cred)
    BY ONLY <1>2, <1>3, <1>4, <2>1, BuyHandled, SMTT(40)
  <2> QED  BY <1>8, <1>9, <2>2
<1>10. CASE LaunchedNow(i, p, o) /\ transfersSent' = transfersSent \cup {i} /\ SameDelivered
  <2>1. PICK st \in {"Funded", "Dispatched"} : Onward(p, o, st) /\ o.status = "Pending"
    BY <1>10 DEF LaunchedNow
  <2>3. LaunchedSo(p, o)  BY <1>2, <2>1, OnwardIs DEF LaunchedSo
  <2>4. LaunchedWell(p, told, top, cred)
    BY ONLY <1>2, <1>3, <1>4, <2>3, BuyLaunched, SMTT(40)
  <2>5. ~sent  BY <1>3, <2>1 DEF BuyInv, BuySent
  <2>6. ~back /\ ~lost /\ gone = 0  BY <1>3, <2>5 DEF EnvOK
  <2>7. sent1 /\ told1 = told  BY <1>7, <1>10 DEF EnvAfter, SentFor
  <2>8. i \notin resolved /\ i \notin transfersSent
    BY <2>5 DEF EnvNow, SentFor, AccountsInv, RoutesOK
  <2>9. gone1 = Principal
    <3>1. gone = paidIn[i] - donated[i] /\ paidIn' = paidIn
      <4>1. GoneFor(i) = 0 + paidIn[i] - donated[i]  BY <2>8 DEF GoneFor
      <4>2. paidIn[i] \in Nat /\ donated[i] \in Nat
        BY <1>5, LayerAssumption
        DEF AccountsInv, RoutesOK, SharesInv, LayerInv, VaultTypeOK, MoneyTypeOK
      <4> QED  BY <1>6, <4>1, <4>2 DEF EnvNow, vaultVars, historyVars
    <3>2. GoneFor(i)' = Principal + paidIn'[i] - donated'[i]
      BY <1>6, <1>10, <2>8, EnvNext
    <3>3. paidIn[i] \in Nat /\ donated[i] \in Nat
        BY <1>5, LayerAssumption
        DEF AccountsInv, RoutesOK, SharesInv, LayerInv, VaultTypeOK, MoneyTypeOK
    <3> QED  BY <1>5, <1>6, <2>6, <3>1, <3>2, <3>3 DEF EnvAfter
  <2> QED  BY <1>1, <1>7, <2>4, <2>6, <2>7, <2>9 DEF LaunchedWell
<1>11. CASE /\ EscalatedNow(i, p, o) /\ UNCHANGED transfersSent
            /\ deliversSent' = deliversSent \cup {Delivery(i, 0, "Settlement")}
  <2>1. EscalatedSo(p, o)
    BY <1>2, <1>3, <1>11, EscalatedIs DEF BuyInv
  <2>2. EscalatedWell(p, sent, back, lost, gone, top, cred)
    BY ONLY <1>2, <1>3, <1>4, <2>1, BuyEscalated, SMTT(40)
  <2>3. told1
    <3>1. Delivery(i, 0, "Settlement").ref = i /\ Delivery(i, 0, "Settlement").shares = 0
      BY DEF Delivery
    <3> QED  BY <1>11, <3>1 DEF EnvAfter, Delivered
  <2> QED  BY <1>1, <1>7, <1>11, <2>2, <2>3 DEF EscalatedWell
<1>12. ASSUME NEW n \in ResultOf(i), Answered(i, p, o, results[n]), NothingSent
       PROVE  BuyInv(hub'.order[i], sent1, told1, back1, lost1, gone1, top1, cred1)
  <2>1. PICK r : r = results[n]  OBVIOUS
  <2>2. r.amountOut \in Nat
    BY <2>1 DEF AccountsInv, SharesInv, LayerInv, LogOK, WellFormed, ResultType, ResultOf
  <2>3. r.outcome = "Bought" => ~lost
    <3>1. r.outcome = "Bought" => BuyIn(Account(i))
      <4>1. i \in Refs  BY <1>5, LayerAssumption
      <4> QED  BY <1>12, <2>1, <4>1, UsdIsLeft
    <3> QED  BY <3>1 DEF EnvNow, LostFor, LostIn
  <2>4. Answered(i, p, o, r)  BY <1>12, <2>1
  <2>5. BuyInv(p, sent, told, back, lost, gone, top, cred)
    BY ONLY <1>2, <1>3, <1>4, <2>2, <2>3, <2>4, BuyAnswered, SMTT(40)
  <2>6. transfersSent' = transfersSent /\ SameDelivered
    BY <1>12 DEF NothingSent, SameDelivered, Delivered
  <2> QED  BY <1>8, <2>5, <2>6
<1> QED  BY <1>1, <1>9, <1>10, <1>11, <1>12 DEF HubActs, Acted

\* What the vault bought is not lost, whatever arrives at the hub.
LEMMA BoughtNotLost ==
  ASSUME AccountsInv, NEW i \in PublicBuys, UNCHANGED vaultVars
  PROVE  hub.order[i].outcome = 1 => ~LostFor(i)'
<1>1. i \in Ids /\ i \in Refs /\ i \in Buys  BY PublicLane, LayerAssumption
<1>2. ASSUME hub.order[i].outcome = 1  PROVE ~LostFor(i)'
  <2>1. PICK n \in ResultOf(i) : Matches(i, results[n])
    BY <1>1, <1>2 DEF AccountsInv, SharesInv, LayerInv, HubAgreesWithVault, Order
  <2>2. results[n].outcome = "Bought"
    <3>1. results[n].outcome \in {"Bought", "Sold", "Failed"}
      BY <2>1 DEF AccountsInv, SharesInv, LayerInv, LogOK, WellFormed, ResultType, ResultOf
    <3> QED  BY <1>2, <2>1, <3>1 DEF Matches, Order
  <2>3. BuyIn(Account(i))  BY <1>1, <2>2, UsdIsLeft
  <2>4. Account(i)' = Account(i)  BY AccountKept
  <2> QED  BY <2>3, <2>4, EnvNext DEF LostIn
<1> QED  BY <1>2

\* The principal comes back from the route, without having been filled.
LEMMA PublicBounce ==
  ASSUME AccountsInv, NEW i \in PublicBuys, hub'.order[i] \in HubOrder, NEW cost \in Costs,
         BounceStep(i, cost)
  PROVE  KeepsBuy(i)
<1>1. /\ cost \in Nat /\ cost <= LossBound /\ LossBound \in Nat /\ 2 * LossBound <= Principal
      /\ Principal \in Nat \ {0} /\ i \in Ids /\ i \in Refs
  BY LayerAssumption, PublicLane
<1>2. PICK amount : amount = Principal - cost  OBVIOUS
<1>3. amount \in Nat /\ amount >= Principal - LossBound /\ amount <= Principal
      /\ IsBack(amount, Principal)
  BY <1>1, <1>2 DEF IsBack
<1>4. /\ i \in transfersSent /\ i \notin resolved /\ i \in resolved' /\ UNCHANGED vaultVars
      /\ credited' = credited /\ topUps' = topUps /\ donated' = donated
      /\ NothingSent /\ Arrives(i, hub'.order[i], hub.order[i], amount)
  BY <1>2 DEF BounceStep, Arrived, giftVars
<1>5. i \in transfersSent' /\ (Delivered(i)' <=> Delivered(i))  BY <1>4 DEF NothingSent, Delivered
<1>6. ReturnsOf(i)' = ReturnsOf(i) /\ paidIn' = paidIn
  BY <1>4 DEF ReturnsOf, vaultVars, liabilityVars, logVars, historyVars
<1>7. CredFor(i)' = CredFor(i)  BY <1>4, <1>6, EnvNext DEF CredFor
<1>8. paidIn[i] \in Nat /\ donated[i] \in Nat
  BY <1>1 DEF AccountsInv, RoutesOK, SharesInv, LayerInv, VaultTypeOK, MoneyTypeOK
<1>9. GoneFor(i) = Principal + paidIn[i] - donated[i]
      /\ GoneFor(i)' = 0 + paidIn[i] - donated[i]
  BY <1>4, <1>5, <1>6, EnvNext DEF GoneFor
<1>10. CredFor(i) \in Nat /\ topUps[i] \in Nat  BY EnvIs DEF EnvsOK
<1>11. GoneFor(i)' + amount <= GoneFor(i) + (topUps'[i] - topUps[i]) + (CredFor(i)' - CredFor(i))
       /\ GoneFor(i)' <= GoneFor(i) /\ topUps[i] <= topUps'[i] /\ CredFor(i) <= CredFor(i)'
  BY <1>1, <1>3, <1>4, <1>7, <1>8, <1>9, <1>10
<1>12. hub.order[i].outcome = 1 => ~LostFor(i)'  BY <1>4, BoughtNotLost
<1> QED  BY <1>3, <1>4, <1>5, <1>11, <1>12, PublicArrives

\* What the vault returned comes in.
LEMMA PublicCredit ==
  ASSUME AccountsInv, NEW i \in PublicBuys, hub'.order[i] \in HubOrder, NEW cost \in Costs,
         NEW t \in returnsSent, CreditStep(t, cost), t.ref = i
  PROVE  KeepsBuy(i)
<1>1. /\ cost \in Nat /\ cost <= LossBound /\ LossBound \in Nat
      /\ Principal \in Nat \ {0} /\ i \in Ids /\ i \in Refs
  BY LayerAssumption, PublicLane
<1>2. AreTransfers(ReturnsOf(i)) /\ t \in ReturnsOf(i)  BY <1>1, UsdIsLeft DEF ReturnsOf
<1>3. PICK whole \in Nat : whole = t.amount  BY <1>2 DEF AreTransfers
<1>4. PICK amount : amount = whole - cost  OBVIOUS
<1>5. /\ t \notin credited /\ whole > cost /\ UNCHANGED vaultVars /\ resolved' = resolved
      /\ credited' = credited \cup {t} /\ topUps' = topUps /\ donated' = donated
      /\ NothingSent /\ Arrives(i, hub'.order[i], hub.order[i], amount)
  BY <1>3, <1>4 DEF CreditStep, Arrived, giftVars
<1>6. amount \in Nat /\ amount <= whole  BY <1>1, <1>4, <1>5
<1>7. (i \in transfersSent' <=> i \in transfersSent) /\ (Delivered(i)' <=> Delivered(i))
  BY <1>5 DEF NothingSent, Delivered
<1>8. ReturnsOf(i)' = ReturnsOf(i) /\ paidIn' = paidIn
  BY <1>5 DEF ReturnsOf, vaultVars, liabilityVars, logVars, historyVars
<1>9. CredFor(i)' = CredFor(i) + whole /\ CredFor(i) \in Nat
  <2>1. PICK T : T = ReturnsOf(i) \cap credited  OBVIOUS
  <2>2. ReturnsOf(i)' \cap credited' = T \cup {t} /\ t \notin T  BY <1>2, <1>5, <1>8, <2>1
  <2>3. AreTransfers(T)  BY <1>2, <2>1, FS_Subset DEF AreTransfers
  <2>4. Transferred(T \cup {t}) = Transferred(T) + t.amount /\ Transferred(T) \in Nat
    BY <1>3, <2>2, <2>3, TransferredMore
  <2>5. CredFor(i) = Transferred(T)  BY <2>1 DEF CredFor
  <2>6. CredFor(i)' = Transferred(T \cup {t})  BY <2>2, EnvNext
  <2> QED  BY <1>3, <2>4, <2>5, <2>6
<1>10. GoneFor(i)' = GoneFor(i) /\ (BackFor(i)' <=> BackFor(i))
  BY <1>5, <1>7, <1>8, EnvNext DEF GoneFor, BackFor
<1>11. LostFor(i)' => LostFor(i) \/ amount >= Principal - LossBound
  <2>1. PICK a : a = Account(i)  OBVIOUS
  <2>2. a.back = ReturnsOf(i) /\ Account(i)' = a  BY <1>5, <2>1, AccountKept DEF Account
  <2>3. ASSUME LostIn(a, credited')  PROVE LostIn(a, credited) \/ whole >= Principal
    BY <1>3, <1>5, <2>3 DEF LostIn
  <2>4. whole >= Principal => amount >= Principal - LossBound  BY <1>1, <1>4
  <2> QED  BY <1>5, <2>1, <2>2, <2>3, <2>4, EnvNext DEF LostFor
<1>12. GoneFor(i) \in Nat /\ topUps[i] \in Nat  BY EnvIs DEF EnvsOK
<1>13. GoneFor(i)' + amount <= GoneFor(i) + (topUps'[i] - topUps[i]) + (CredFor(i)' - CredFor(i))
       /\ GoneFor(i)' <= GoneFor(i) /\ topUps[i] <= topUps'[i] /\ CredFor(i) <= CredFor(i)'
       /\ amount <= (topUps'[i] - topUps[i]) + (CredFor(i)' - CredFor(i))
  BY <1>5, <1>6, <1>9, <1>10, <1>12
<1>14. hub.order[i].outcome = 1 => ~LostFor(i)'  BY <1>5, BoughtNotLost
<1> QED  BY <1>5, <1>6, <1>7, <1>10, <1>11, <1>13, <1>14, PublicArrives

\* A stranger's gift.
LEMMA PublicGift ==
  ASSUME AccountsInv, NEW i \in PublicBuys, hub'.order[i] \in HubOrder, NEW amount \in Nat,
         GiftStep(i, amount)
  PROVE  KeepsBuy(i)
<1>1. i \in Ids  BY PublicLane
<1>2. GoneFor(i) \in Nat /\ topUps[i] \in Nat /\ CredFor(i) \in Nat  BY EnvIs DEF EnvsOK
<1>3. topUps'[i] = topUps[i] + amount
  BY <1>1 DEF GiftStep, AccountsInv, RoutesOK
<1>4. /\ UNCHANGED vaultVars /\ NothingSent /\ donated'[i] = donated[i]
      /\ (i \in resolved' <=> i \in resolved)
      /\ ReturnsOf(i) \cap credited' = ReturnsOf(i) \cap credited
  BY DEF GiftStep, Given, routeVars
<1>5. (i \in transfersSent' <=> i \in transfersSent) /\ (Delivered(i)' <=> Delivered(i))
  BY <1>4 DEF NothingSent, Delivered
<1>6. /\ BackFor(i)' <=> BackFor(i)
      /\ LostFor(i)' <=> LostFor(i)
      /\ CredFor(i)' = CredFor(i) /\ GoneFor(i)' = GoneFor(i)
  BY <1>4, <1>5, EnvKept
<1>7. CASE Arrives(i, hub'.order[i], hub.order[i], amount)
  <2>1. GoneFor(i)' + amount <= GoneFor(i) + (topUps'[i] - topUps[i]) + (CredFor(i)' - CredFor(i))
        /\ GoneFor(i)' <= GoneFor(i) /\ topUps[i] <= topUps'[i] /\ CredFor(i) <= CredFor(i)'
        /\ amount <= (topUps'[i] - topUps[i]) + (CredFor(i)' - CredFor(i))
    BY <1>2, <1>3, <1>6
  <2>2. hub.order[i].outcome = 1 => ~LostFor(i)'  BY <1>4, BoughtNotLost
  <2> QED  BY <1>5, <1>6, <1>7, <2>1, <2>2, PublicArrives
<1>8. CASE Topped(i, hub'.order[i], hub.order[i], amount)
  <2> SUFFICES ASSUME NEW sent \in BOOLEAN, NEW told \in BOOLEAN, NEW back \in BOOLEAN,
                      NEW lost \in BOOLEAN, NEW gone \in Nat, NEW top \in Nat, NEW cred \in Nat,
                      EnvNow(i, sent, told, back, lost, gone, top, cred),
                      EnvOK(sent, back, lost, gone),
                      BuyInv(hub.order[i], sent, told, back, lost, gone, top, cred)
               PROVE  HoldsAfter(i)
    BY SMTT(60) DEF KeepsBuy
  <2> SUFFICES ASSUME NEW sent1 \in BOOLEAN, NEW told1 \in BOOLEAN, NEW back1 \in BOOLEAN,
                      NEW lost1 \in BOOLEAN, NEW gone1 \in Nat, NEW top1 \in Nat,
                      NEW cred1 \in Nat,
                      EnvAfter(i, sent1, told1, back1, lost1, gone1, top1, cred1)
               PROVE  BuyInv(hub'.order[i], sent1, told1, back1, lost1, gone1, top1, cred1)
    BY DEF HoldsAfter
  <2>1. PICK o, p : o = hub.order[i] /\ p = hub'.order[i]  OBVIOUS
  <2>2. o \in HubOrder /\ p \in HubOrder
    BY <1>1, <2>1 DEF AccountsInv, SharesInv, LayerInv, BooksOK, IsHub
  <2>3. BuyInv(o, sent, told, back, lost, gone, top, cred) /\ Topped(i, p, o, amount)
    BY <1>8, <2>1
  <2>4. /\ sent \in BOOLEAN /\ told \in BOOLEAN /\ back \in BOOLEAN /\ lost \in BOOLEAN
        /\ gone \in Nat /\ top \in Nat /\ cred \in Nat /\ i \in PublicBuys /\ amount \in Nat
    OBVIOUS
  <2>5. BuyInv(p, sent, told, back, lost, gone, top + amount, cred)
    BY ONLY <2>2, <2>3, <2>4, BuyToppedUp, SMTT(40)
  <2>6. sent1 = sent /\ told1 = told /\ back1 = back /\ lost1 = lost /\ gone1 = gone
        /\ top1 = top + amount /\ cred1 = cred
    BY <1>3, <1>5, <1>6 DEF EnvNow, EnvAfter, SentFor
  <2> QED  BY <2>1, <2>5, <2>6
<1> QED  BY <1>7, <1>8 DEF GiftStep, Given

\* A step of the vault about other money, or about the order's.
LEMMA PublicVault ==
  ASSUME AccountsInv, NEW i \in PublicBuys, hub' = hub, NothingSent,
         i \in resolved' <=> i \in resolved, donated'[i] = donated[i], topUps'[i] = topUps[i],
         credited' = credited, returnsSent \subseteq returnsSent', VaultTypeOK',
         AccountMoves(i, Account(i)', Account(i))
  PROVE  KeepsBuy(i)
<1>1. i \in Ids /\ i \in Refs /\ i \in Buys /\ i \notin Sells  BY PublicLane, LayerAssumption
<1>2. PICK a, b : a = Account(i) /\ b = Account(i)'  OBVIOUS
<1>3. AccountOK(i, a) /\ UsdOf(a) >= 0  BY <1>1, <1>2, UsdIsLeft
<1>4. NumbersOf(b) /\ AccountMoves(i, b, a)  BY <1>1, <1>2, NumbersNext
<1>5. a.back = ReturnsOf(i) /\ a.in = paidIn[i] /\ b.back = ReturnsOf(i)' /\ b.in = paidIn'[i]
  BY <1>1, <1>2, AccountFields DEF Account
<1>6. b.in = a.in
  BY <1>1, <1>4
  DEF AccountMoves, SameAccount, BoughtFrom, SoldFrom, FailedFrom, ReturnedFrom, HandedOver,
      SharesOver
<1>7. ReturnsOf(i)' \cap credited' = ReturnsOf(i) \cap credited
  BY DEF ReturnsOf, AccountsInv, RoutesOK
<1>8. \A t \in credited : t.ref = i => t \in a.back
  BY <1>5 DEF ReturnsOf, AccountsInv, RoutesOK
<1>9. LostIn(b, credited) => LostIn(a, credited)
  BY ONLY <1>1, <1>3, <1>4, <1>8, LostStays
<1>10. LostFor(i)' => LostFor(i)  BY <1>2, <1>9, EnvNext DEF LostFor
<1>11. CredFor(i)' = CredFor(i)  BY <1>7, EnvNext DEF CredFor
<1>12. (i \in transfersSent' <=> i \in transfersSent) /\ (Delivered(i)' <=> Delivered(i))
  BY DEF NothingSent, Delivered
<1>13. GoneFor(i)' = GoneFor(i) /\ (BackFor(i)' <=> BackFor(i))
  BY <1>5, <1>6, <1>12, EnvNext DEF GoneFor, BackFor
<1>14. GoneFor(i) \in Nat /\ topUps[i] \in Nat /\ CredFor(i) \in Nat  BY EnvIs DEF EnvsOK
<1>15. GoneFor(i)' <= GoneFor(i) /\ topUps[i] <= topUps'[i] /\ CredFor(i) <= CredFor(i)'
  BY <1>11, <1>13, <1>14
<1> QED  BY <1>10, <1>12, <1>13, <1>15, PublicWaits

\* Money that arrives on the vault for the order: its principal, or a donation.
LEMMA PublicFunded ==
  ASSUME AccountsInv, NEW i \in PublicBuys, hub' = hub, NothingSent, UNCHANGED topUps,
         NEW amount \in Nat, Fund(i, amount), credited' = credited, VaultTypeOK',
         \/ i \in transfersSent \ resolved /\ amount = Principal
              /\ resolved' = resolved \cup {i} /\ donated' = donated
         \/ resolved' = resolved /\ donated'[i] = donated[i] + amount
  PROVE  KeepsBuy(i)
<1>1. i \in Ids /\ i \in Refs /\ i \in Buys /\ Principal \in Nat \ {0}
  BY PublicLane, LayerAssumption
<1>2. PICK a, b : a = Account(i) /\ b = Account(i)'  OBVIOUS
<1>3. AccountOK(i, a) /\ CameIn(i, a)  BY <1>1, <1>2, UsdIsLeft
<1>4. VaultTypeOK /\ donated[i] \in Nat /\ a.in \in Nat
  BY <1>1, <1>3 DEF AccountsInv, RoutesOK, SharesInv, LayerInv, AccountOK, SumsIn
<1>5. NumbersOf(b) /\ FundedWith(b, a, amount)  BY <1>1, <1>2, <1>4, NumbersNext, FundTurn
<1>6. UsdOf(b) = UsdOf(a) /\ (BuyIn(b) <=> BuyIn(a)) /\ b.fund >= a.fund
  BY ONLY <1>1, <1>3, <1>5, amount \in Nat, AccountFunded
<1>7. a.back = ReturnsOf(i) /\ a.in = paidIn[i] /\ b.back = ReturnsOf(i)' /\ b.in = paidIn'[i]
  BY <1>1, <1>2, AccountFields DEF Account
<1>8. b.in = a.in + amount /\ b.back = a.back  BY <1>5 DEF FundedWith
<1>9. CredFor(i)' = CredFor(i)  BY <1>7, <1>8, EnvNext DEF CredFor
<1>10. (i \in transfersSent' <=> i \in transfersSent) /\ (Delivered(i)' <=> Delivered(i))
  BY DEF NothingSent, Delivered
<1>11. GoneFor(i) \in Nat /\ topUps[i] \in Nat /\ CredFor(i) \in Nat  BY EnvIs DEF EnvsOK
<1>12. /\ GoneFor(i) = (IF i \in transfersSent \ resolved THEN Principal ELSE 0) + a.in - donated[i]
       /\ GoneFor(i)' = (IF i \in transfersSent \ resolved' THEN Principal ELSE 0)
                          + a.in + amount - donated'[i]
  BY <1>1, <1>4, <1>7, <1>8, <1>10, EnvNext DEF GoneFor
<1>13. CASE /\ i \in transfersSent \ resolved /\ amount = Principal
            /\ resolved' = resolved \cup {i} /\ donated' = donated
  <2>1. GoneFor(i)' = GoneFor(i)  BY <1>1, <1>4, <1>12, <1>13
  <2>2. a.in = donated[i]  BY <1>1, <1>3, <1>13 DEF CameIn
  <2>3. ~BackFor(i)'
    <3>1. paidIn'[i] = donated[i] + Principal  BY <1>7, <1>8, <1>13, <2>2
    <3>2. paidIn'[i] # donated[i]  BY <1>1, <1>4, <3>1
    <3> QED  BY <1>13, <3>2, EnvNext
  <2>4. ~LostIn(b, credited)
    <3>1. a.adv \in Nat /\ a.fund \in Nat /\ (a.adv > 0 => BuyIn(a))
      BY <1>1, <1>3 DEF AccountOK, SumsIn, SideOf
    <3>2. a.adv = 0 => b.fund = a.fund + Principal  BY <1>1, <1>5, <1>13, <3>1 DEF FundedWith
    <3> QED  BY <1>1, <1>6, <3>1, <3>2 DEF LostIn
  <2>5. ~LostFor(i)'  BY <1>2, <2>4, EnvNext
  <2> QED  BY <1>9, <1>10, <1>11, <2>1, <2>3, <2>5, PublicWaits
<1>14. CASE resolved' = resolved /\ donated'[i] = donated[i] + amount
  <2>1. GoneFor(i)' = GoneFor(i)  BY <1>1, <1>4, <1>12, <1>14
  <2>2. BackFor(i)' <=> BackFor(i)
    BY <1>4, <1>7, <1>8, <1>14, EnvNext DEF BackFor
  <2>3. LostIn(b, credited) => LostIn(a, credited)
    <3>1. a.fund \in Nat /\ b.fund \in Nat  BY <1>3, <1>5 DEF AccountOK, SumsIn, NumbersOf
    <3> QED  BY <1>1, <1>6, <1>8, <3>1 DEF LostIn
  <2>4. LostFor(i)' => LostFor(i)  BY <1>2, <1>14, <2>3, EnvNext DEF LostFor
  <2> QED  BY <1>9, <1>10, <1>11, <2>1, <2>2, <2>4, PublicWaits
<1> QED  BY <1>13, <1>14

\* What is invariant of public buys.
PublicInv == AccountsInv /\ \A i \in PublicBuys : PublicOK(i)

\* Every step keeps it.
LEMMA PublicStep ==
  ASSUME PublicInv, LayerNext, AccountsInv'
  PROVE  PublicInv'
<1>1. AccountsInv /\ LayerInv /\ VaultTypeOK /\ VaultTypeOK' /\ MessagesOK /\ RequestsOK /\ MoneyStep
  BY LayerMoney DEF PublicInv, AccountsInv, SharesInv, LayerInv
<1>2. ASSUME NEW i \in PublicBuys  PROVE PublicOK(i)'
  <2>1. i \in Ids /\ i \in Refs /\ i \in Buys /\ PublicOK(i)
    BY PublicLane, LayerAssumption DEF PublicInv
  <2>2. hub'.order[i] \in HubOrder
    BY <2>1 DEF AccountsInv, SharesInv, LayerInv, BooksOK, IsHub
  <2>3. SUFFICES KeepsBuy(i)  BY <1>1, <2>1, PublicKept
  <2>4. GoneFor(i) \in Nat /\ topUps[i] \in Nat /\ CredFor(i) \in Nat
    BY <1>1, EnvIs DEF EnvsOK
  <2>5. ASSUME UNCHANGED vaultVars, hub'.order[i] = hub.order[i], donated'[i] = donated[i],
               i \in resolved' <=> i \in resolved, topUps'[i] = topUps[i],
               ReturnsOf(i) \cap credited' = ReturnsOf(i) \cap credited,
               i \in transfersSent' <=> i \in transfersSent, Delivered(i)' <=> Delivered(i)
        PROVE  KeepsBuy(i)
    <3>1. /\ BackFor(i)' <=> BackFor(i)
          /\ LostFor(i)' <=> LostFor(i)
          /\ CredFor(i)' = CredFor(i) /\ GoneFor(i)' = GoneFor(i)
      BY <2>5, EnvKept
    <3> QED  BY <1>1, <2>4, <2>5, <3>1, PublicWaits
  <2>6. ASSUME NothingSent
        PROVE  (i \in transfersSent' <=> i \in transfersSent) /\ (Delivered(i)' <=> Delivered(i))
    BY <2>6 DEF NothingSent, Delivered
  <2>7. CASE IdleStep  BY <2>5, <2>6, <2>7 DEF IdleStep, routeVars, giftVars
  <2>8. ASSUME NEW j \in Ids, j # i, HubActs(j)  PROVE KeepsBuy(i)
    <3>1. (i \in transfersSent' <=> i \in transfersSent) /\ (Delivered(i)' <=> Delivered(i))
      <4>1. CASE NothingSent  BY <2>6, <4>1
      <4>2. CASE Acted(j)
        <5>1. i \in transfersSent' <=> i \in transfersSent  BY <2>8, <4>2 DEF Acted
        <5>2. CASE SameDelivered  BY <2>1, <5>1, <5>2 DEF SameDelivered
        <5>3. CASE deliversSent' = deliversSent \cup {Delivery(j, 0, "Settlement")}
          <6>1. Delivery(j, 0, "Settlement").ref # i  BY <2>8 DEF Delivery
          <6> QED  BY <5>1, <5>3, <6>1 DEF Delivered
        <5> QED  BY <4>2, <5>2, <5>3 DEF Acted
      <4> QED  BY <2>8, <4>1, <4>2 DEF HubActs
    <3>2. hub'.order[i] = hub.order[i]  BY <2>1, <2>8 DEF HubActs, OnlyOrder
    <3> QED  BY <2>5, <2>8, <3>1, <3>2 DEF HubActs, routeVars, giftVars
  <2>9. CASE HubActs(i)  BY <1>1, <2>2, <2>9, PublicActs
  <2>10. ASSUME NEW j \in Ids, NEW cost \in Costs, BounceStep(j, cost)  PROVE KeepsBuy(i)
    <3>1. CASE j = i  BY <1>1, <2>2, <2>10, <3>1, PublicBounce
    <3>2. CASE j # i
      <4>1. hub'.order[i] = hub.order[i] /\ NothingSent
        BY <2>1, <2>10, <3>2 DEF BounceStep, Arrived, OnlyOrder
      <4> QED  BY <2>5, <2>6, <2>10, <3>2, <4>1 DEF BounceStep, giftVars
    <3> QED  BY <3>1, <3>2
  <2>11. ASSUME NEW t \in returnsSent, NEW cost \in Costs, CreditStep(t, cost)
         PROVE  KeepsBuy(i)
    <3>1. CASE t.ref = i  BY <1>1, <2>2, <2>11, <3>1, PublicCredit
    <3>2. CASE t.ref # i
      <4>1. hub'.order[i] = hub.order[i] /\ NothingSent
        BY <2>1, <2>11, <3>2 DEF CreditStep, Arrived, OnlyOrder
      <4>2. ReturnsOf(i) \cap credited' = ReturnsOf(i) \cap credited
        BY <2>11, <3>2 DEF CreditStep, ReturnsOf
      <4> QED  BY <2>5, <2>6, <2>11, <4>1, <4>2 DEF CreditStep, giftVars
    <3> QED  BY <3>1, <3>2
  <2>12. ASSUME NEW j \in Ids, NEW amount \in Nat, GiftStep(j, amount)  PROVE KeepsBuy(i)
    <3>1. CASE j = i  BY <1>1, <2>2, <2>12, <3>1, PublicGift
    <3>2. CASE j # i
      <4>1. hub'.order[i] = hub.order[i] /\ NothingSent
        BY <2>1, <2>12, <3>2 DEF GiftStep, Given, OnlyOrder
      <4>2. topUps'[i] = topUps[i]
        BY <1>1, <2>1, <2>12, <3>2 DEF GiftStep, AccountsInv, RoutesOK
      <4> QED  BY <2>5, <2>6, <2>12, <4>1, <4>2 DEF GiftStep, routeVars
    <3> QED  BY <3>1, <3>2
  <2>13. CASE VaultSideStep
    <3>1. CASE VaultStep /\ UNCHANGED <<routeVars, giftVars>>
      <4>1. AccountMoves(i, Account(i)', Account(i))  BY <1>1, <2>1, <3>1, VaultTurn
      <4>2. returnsSent \subseteq returnsSent'  BY <3>1, ReturnsStay DEF VaultMoves
      <4> QED
        BY <1>1, <2>13, <3>1, <4>1, <4>2, PublicVault DEF VaultSideStep, routeVars, giftVars
    <3>2. ASSUME NEW s \in Refs, s # i, NEW amount \in Nat, Fund(s, amount),
                 i \in resolved' <=> i \in resolved, donated'[i] = donated[i],
                 topUps' = topUps, credited' = credited
          PROVE  KeepsBuy(i)
      <4>1. SameAccount(Account(i)', Account(i))  BY <1>1, <2>1, <3>2, FundTurn
      <4>2. AccountMoves(i, Account(i)', Account(i))  BY <4>1 DEF AccountMoves
      <4>3. returnsSent \subseteq returnsSent'  BY <3>2 DEF Fund
      <4> QED  BY <1>1, <2>13, <3>2, <4>2, <4>3, PublicVault DEF VaultSideStep
    <3>3. ASSUME NEW s \in Buys, Fill(s)  PROVE KeepsBuy(i)
      <4>1. /\ Fund(s, Principal) /\ s \in transfersSent \ resolved
            /\ resolved' = resolved \cup {s} /\ donated' = donated /\ topUps' = topUps
            /\ credited' = credited /\ hub' = hub /\ NothingSent
        BY <2>13, <3>3 DEF Fill, giftVars, VaultSideStep
      <4>2. s \in Refs /\ Principal \in Nat  BY LayerAssumption, HubAssumption DEF Ids
      <4>3. CASE s = i  BY <1>1, <4>1, <4>2, <4>3, PublicFunded
      <4>4. CASE s # i  BY <3>2, <4>1, <4>2, <4>4
      <4> QED  BY <4>3, <4>4
    <3>4. ASSUME NEW s \in Refs, NEW amount \in FundAmounts, Donation(s, amount)
          PROVE  KeepsBuy(i)
      <4>1. /\ Fund(s, amount) /\ resolved' = resolved /\ credited' = credited
            /\ donated' = [donated EXCEPT ![s] = @ + amount] /\ topUps' = topUps
            /\ hub' = hub /\ NothingSent
        BY <2>13, <3>4 DEF Donation, routeVars, VaultSideStep
      <4>2. amount \in Nat /\ s \in Ids /\ donated \in [Ids -> Nat]
        BY <1>1, VaultAssumption, LayerAssumption DEF AccountsInv, RoutesOK
      <4>3. CASE s = i
        <5>1. donated'[i] = donated[i] + amount  BY <4>1, <4>2, <4>3
        <5> QED  BY <1>1, <4>1, <4>2, <4>3, <5>1, PublicFunded
      <4>4. CASE s # i
        <5>1. donated'[i] = donated[i]  BY <2>1, <4>1, <4>2, <4>4
        <5> QED  BY <3>2, <4>1, <4>2, <4>4, <5>1
      <4> QED  BY <4>3, <4>4
    <3> QED  BY <2>13, <3>1, <3>3, <3>4 DEF VaultSideStep
  <2>14. ASSUME NEW t \in returnsSent  PROVE t.ref \in Ids
    BY <1>1, <2>14, LayerAssumption DEF LayerInv, VaultTypeOK, TransferType
  <2> QED  BY <1>1, <2>7, <2>8, <2>9, <2>10, <2>11, <2>12, <2>13 DEF MoneyStep
<1> QED  BY <1>2 DEF PublicInv

\* At the start nothing has moved.
LEMMA AccountsStart == LayerInit => AccountsInv
<1> SUFFICES ASSUME LayerInit PROVE AccountsInv  OBVIOUS
<1>1. SharesInv  BY SharesStart
<1>2. VaultInit /\ HubInit /\ resolved = {} /\ credited = {}
      /\ topUps = [i \in Ids |-> 0] /\ donated = [i \in Ids |-> 0]
  BY DEF LayerInit
<1>3. RequestsOK  BY <1>2 DEF RequestsOK, HubInit, VaultInit
<1>4. RoutesOK  BY <1>2 DEF RoutesOK
<1>5. RefMoneyConserved  BY <1>2 DEF VaultInit, RefMoneyConserved
<1>6. ASSUME NEW r \in Refs  PROVE AccountOK(r, Account(r)) /\ CameIn(r, Account(r))
  <2>1. PICK a : a = Account(r)  OBVIOUS
  <2>2. ReturnsOf(r) = {} /\ ResultOf(r) = {} /\ LogOf(r) = {} /\ r \notin settled
    BY <1>2 DEF VaultInit, ReturnsOf, ResultOf, LogOf
  <2>3. /\ a.in = 0 /\ a.out = 0 /\ a.fund = 0 /\ a.proc = 0 /\ a.adv = 0 /\ a.back = {}
        /\ a.log = {} /\ ~a.done /\ a.done \in BOOLEAN
    <3>1. /\ paidIn[r] = 0 /\ paidOut[r] = 0 /\ funding[r] = 0 /\ proceeds[r] = 0 /\ advanced[r] = 0
      BY <1>2 DEF VaultInit
    <3>2. /\ a.in = paidIn[r] /\ a.out = paidOut[r] /\ a.fund = funding[r] /\ a.proc = proceeds[r]
          /\ a.adv = advanced[r] /\ a.back = ReturnsOf(r) /\ a.log = LogOf(r)
      BY <2>1 DEF Account
    <3>3. ~a.done /\ a.done \in BOOLEAN
      <4>1. a.done <=> r \in settled  BY <2>1 DEF Account
      <4>2. a.done \in BOOLEAN  BY <2>1 DEF Account
      <4> QED  BY <2>2, <4>1, <4>2
    <3> QED  BY <2>2, <3>1, <3>2, <3>3
  <2>4. ~BuyIn(a) /\ ~SaleIn(a) /\ SpentOf(a) = 0  BY <2>3 DEF BuyIn, SaleIn, SpentOf
  <2>5. AreTransfers({}) /\ Transferred({}) = 0
    <3>1. AreTransfers({})  BY FS_EmptySet DEF AreTransfers
    <3> QED  BY <3>1, TransferredMore
  <2>6. Transferred(a.back) = 0  BY <2>3, <2>5
  <2>7. SumsIn(a)
    <3>1. IsFiniteSet(a.back) /\ \A t \in a.back : FALSE  BY <2>3, FS_EmptySet
    <3>2. Transferred(a.back) + SpentOf(a) <= a.out  BY <2>3, <2>4, <2>6
    <3> QED  BY <2>3, <3>1, <3>2 DEF SumsIn
  <2>8. UsdOf(a) = 0  BY <2>3, <2>4, <2>6 DEF UsdOf
  <2>9. AccountOK(r, a)
    BY <2>3, <2>4, <2>7, <2>8 DEF AccountOK, SettledOnce, SideOf, RecipientOf
  <2>10. donated[r] = 0  BY <1>2, LayerAssumption
  <2> QED  BY <2>1, <2>3, <2>4, <2>9, <2>10 DEF CameIn
<1> QED  BY <1>1, <1>3, <1>4, <1>5, <1>6 DEF AccountsInv

\* At the start nothing was sent, given or lost.
LEMMA PublicStart == LayerInit => PublicInv
<1> SUFFICES ASSUME LayerInit PROVE PublicInv  OBVIOUS
<1>1. AccountsInv  BY AccountsStart
<1>2. ASSUME NEW i \in PublicBuys  PROVE PublicOK(i)
  <2>1. i \in Ids /\ i \in Refs /\ Principal \in Nat \ {0} /\ BuyFee \in Nat /\ Extra \in Nat
    BY PublicLane, LayerAssumption
  <2>2. /\ hub.order[i] = NoOrder /\ transfersSent = {} /\ deliversSent = {} /\ resolved = {}
        /\ paidIn[i] = 0 /\ donated[i] = 0 /\ topUps[i] = 0 /\ ReturnsOf(i) = {}
    BY <2>1 DEF LayerInit, HubInit, VaultInit, ReturnsOf
  <2>3. ~SentFor(i) /\ ~Delivered(i) /\ ~BackFor(i) /\ ~LostFor(i) /\ GoneFor(i) = 0
    BY <2>2 DEF SentFor, Delivered, BackFor, LostFor, GoneFor
  <2>4. CredFor(i) \in Nat  BY <1>1, EnvIs DEF EnvsOK
  <2>5. /\ NoOrder.status = "None" /\ NoOrder.outcome = 0 /\ NoOrder.fee = 0 /\ NoOrder.extra = 0
        /\ NoOrder.held = 0 /\ NoOrder.owed = 0 /\ NoOrder.paid = 0 /\ NoOrder.shares = 0
        /\ NoOrder.late = 0 /\ NoOrder.advanced = FALSE
    BY DEF NoOrder
  <2> QED
    BY <2>1, <2>2, <2>3, <2>4, <2>5
    DEF PublicOK, BuyInv, BuyShape, BuySent, BuyTold, BuyRoom, BuyBalance, BuyRest, BuyHolds,
        IsOpen, HadOf, BuyWorth, KeepsFee
<1> QED  BY <1>1, <1>2 DEF PublicInv

\* In every behaviour of the layer, the accounts and the public buys keep their invariant.
THEOREM PublicInvHolds == LayerSpec => []PublicInv
<1>1. ASSUME PublicInv, [LayerNext]_layerVars, VaultPromises'
      PROVE  PublicInv'
  <2>1. SharesInv'  BY <1>1, SharesStep DEF PublicInv, AccountsInv
  <2>2. CASE LayerNext
    <3>1. AccountsInv'  BY <1>1, <2>1, <2>2, AccountsStep DEF PublicInv, VaultPromises
    <3> QED  BY <1>1, <2>2, <3>1, PublicStep
  <2>3. CASE UNCHANGED layerVars
    <3>1. RequestsOK' /\ RoutesOK' /\ RefMoneyConserved'
      BY <1>1, <2>3
      DEF PublicInv, AccountsInv, RequestsOK, RoutesOK, layerVars, hubVars, vaultVars, routeVars,
          giftVars, sentVars, liabilityVars, logVars, custodyVars, historyVars, VaultPromises
    <3>2. ASSUME NEW r \in Refs  PROVE (AccountOK(r, Account(r)) /\ CameIn(r, Account(r)))'
      <4>1. PICK b : b = Account(r)'  OBVIOUS
      <4>2. b = Account(r)  BY <2>3, <4>1, AccountKept DEF layerVars
      <4>3. AccountOK(r, b) /\ CameIn(r, b)  BY <1>1, <4>2 DEF PublicInv, AccountsInv
      <4>4. (Delivered(r) => Delivered(r)') /\ donated'[r] = donated[r] /\ resolved \subseteq resolved'
        BY <2>3 DEF Delivered, layerVars, hubVars, sentVars, routeVars, giftVars
      <4> QED  BY <4>1, <4>3, <4>4, AccountNext, CameNext
    <3>3. AccountsInv'  BY <2>1, <3>1, <3>2 DEF AccountsInv
    <3>4. ASSUME NEW i \in PublicBuys  PROVE PublicOK(i)'
      <4>1. hub'.order[i] = hub.order[i] /\ topUps'[i] = topUps[i] /\ UNCHANGED vaultVars
            /\ donated'[i] = donated[i] /\ (i \in resolved' <=> i \in resolved)
            /\ ReturnsOf(i) \cap credited' = ReturnsOf(i) \cap credited
            /\ (i \in transfersSent' <=> i \in transfersSent) /\ (Delivered(i)' <=> Delivered(i))
        BY <2>3 DEF Delivered, layerVars, hubVars, sentVars, routeVars, giftVars
      <4>2. /\ BackFor(i)' <=> BackFor(i)
            /\ LostFor(i)' <=> LostFor(i)
            /\ CredFor(i)' = CredFor(i) /\ GoneFor(i)' = GoneFor(i)
        BY <4>1, EnvKept
      <4>3. GoneFor(i) \in Nat /\ topUps[i] \in Nat /\ CredFor(i) \in Nat
        BY <1>1, EnvIs DEF EnvsOK, PublicInv
      <4>4. KeepsBuy(i)  BY <1>1, <4>1, <4>2, <4>3, PublicWaits DEF PublicInv
      <4> QED  BY <1>1, <3>3, <4>4, PublicKept DEF PublicInv
    <3> QED  BY <3>3, <3>4 DEF PublicInv
  <2> QED  BY <1>1, <2>2, <2>3
<1> QED  BY <1>1, PublicStart, VaultKeepsPromises, PTL DEF LayerSpec

-----------------------------------------------------------------------------
(* What the user of a public buy has received.                             *)

\* What was received is what the hub paid or owes, and the recipient's part of the account.
LEMMA ReceivedIs ==
  ASSUME AccountsInv, NEW i \in Ids
  PROVE  /\ Received(i) = HadOf(hub.order[i]) + UsdOf(Account(i))
         /\ HadOf(hub.order[i]) \in Nat /\ UsdOf(Account(i)) \in Nat
<1>1. i \in Refs  BY LayerAssumption
<1>2. hub.order[i] \in HubOrder  BY DEF AccountsInv, SharesInv, LayerInv, BooksOK, IsHub
<1>3. hub.order[i].paid \in Nat /\ hub.order[i].owed \in Nat  BY <1>2 DEF HubOrder
<1>4. /\ UsdOf(Account(i)) = TakenOnVault(i) + owedUsd[i] /\ UsdOf(Account(i)) \in Nat
  BY <1>1, UsdIsLeft
<1>5. owedUsd[i] \in Nat /\ paidOut[i] \in Nat /\ SpentAtVenue(i) \in Nat
  BY <1>1, HubAssumption
  DEF AccountsInv, SharesInv, LayerInv, VaultTypeOK, MoneyTypeOK, SpentAtVenue
<1>6. Transferred(ReturnsOf(i)) \in Nat  BY <1>1, UsdIsLeft
<1>7. TakenOnVault(i) \in Int  BY <1>5, <1>6 DEF TakenOnVault
<1> QED  BY <1>3, <1>4, <1>5, <1>7 DEF Received, Order, HadOf

\* An answer that failed is the one in the log: nothing was bought.
LEMMA FailedIsNotBought ==
  ASSUME AccountsInv, NEW i \in Ids
  PROVE  /\ hub.order[i].outcome = 3 => ~BuyIn(Account(i)) /\ ~SaleIn(Account(i))
         /\ hub.order[i].outcome = 1 => BuyIn(Account(i))
<1>1. i \in Refs  BY LayerAssumption
<1>2. PICK a : a = Account(i)  OBVIOUS
<1>3. AccountOK(i, a) /\ a.log = LogOf(i)  BY <1>1, <1>2, UsdIsLeft DEF Account
<1>4. ASSUME hub.order[i].outcome # 0
      PROVE  \E n \in ResultOf(i) : /\ Matches(i, results[n]) /\ results[n] \in LogOf(i)
                                    /\ results[n].outcome \in {"Bought", "Sold", "Failed"}
  <2>1. PICK n \in ResultOf(i) : Matches(i, results[n])
    BY <1>4 DEF AccountsInv, SharesInv, LayerInv, HubAgreesWithVault, Order
  <2>2. results[n].outcome \in {"Bought", "Sold", "Failed"}
    BY <2>1 DEF AccountsInv, SharesInv, LayerInv, LogOK, WellFormed, ResultType, ResultOf
  <2> QED  BY <2>1, <2>2 DEF LogOf
<1>5. ASSUME hub.order[i].outcome = 3  PROVE ~BuyIn(a) /\ ~SaleIn(a)
  <2>1. PICK n \in ResultOf(i) : /\ Matches(i, results[n]) /\ results[n] \in LogOf(i)
                                 /\ results[n].outcome \in {"Bought", "Sold", "Failed"}
    BY <1>4, <1>5
  <2>2. results[n].outcome = "Failed"  BY <1>5, <2>1 DEF Matches, Order
  <2>3. \A e \in a.log : e = results[n]  BY <1>3, <2>1 DEF AccountOK, SettledOnce
  <2> QED  BY <2>2, <2>3 DEF BuyIn, SaleIn
<1>6. ASSUME hub.order[i].outcome = 1  PROVE BuyIn(a)
  <2>1. PICK n \in ResultOf(i) : /\ Matches(i, results[n]) /\ results[n] \in LogOf(i)
                                 /\ results[n].outcome \in {"Bought", "Sold", "Failed"}
    BY <1>4, <1>6
  <2>2. results[n].outcome = "Bought"  BY <1>6, <2>1 DEF Matches, Order
  <2> QED  BY <1>3, <2>1, <2>2 DEF BuyIn
<1> QED  BY <1>2, <1>5, <1>6

\* CancelledBuyIsWhole (_closeReturnedBuy and _refund, HubSettlement.sol; returnFunds,
\* RobinhoodReserveVault.sol): the principal of a cancelled buy is with its user, held by
\* the vault, on the route or owed, but for what the route took, and the user has no shares.
THEOREM CancelledIsWhole == LayerSpec => []CancelledBuyIsWhole
<1>1. PublicInv => CancelledBuyIsWhole
  <2> SUFFICES ASSUME PublicInv, NEW i \in PublicBuys, Order(i).status = "Cancelled"
               PROVE  LET outbound == IF i \in transfersSent \ resolved THEN Principal ELSE 0
                          inbound == Transferred(ReturnsOf(i) \ credited)
                      IN /\ Order(i).shares = 0
                         /\ Received(i) + outbound + inbound + funding[i] + proceeds[i] + LossBound
                              >= Principal
    BY DEF CancelledBuyIsWhole
  <2>1. PICK o : o = hub.order[i]  OBVIOUS
  <2>2. PICK outbound : outbound = IF i \in transfersSent \ resolved THEN Principal ELSE 0  OBVIOUS
  <2>3. PICK inbound : inbound = Transferred(ReturnsOf(i) \ credited)  OBVIOUS
  <2>4. PICK a : a = Account(i)  OBVIOUS
  <2>5. AccountsInv /\ i \in Ids /\ i \in Refs /\ Principal \in Nat /\ LossBound \in Nat
        /\ LossBound <= Principal
    BY PublicLane, LayerAssumption DEF PublicInv
  <2>6. o \in HubOrder
    BY <2>1, <2>5 DEF AccountsInv, SharesInv, LayerInv, BooksOK, IsHub
  <2>7. /\ o.held \in Nat /\ o.shares \in Nat /\ HadOf(o) \in Nat /\ UsdOf(a) \in Nat
        /\ Received(i) = HadOf(o) + UsdOf(a)
    BY <2>1, <2>4, <2>5, <2>6, ReceivedIs DEF HubOrder
  <2>8. /\ outbound \in Nat /\ inbound \in Nat /\ funding[i] \in Nat /\ proceeds[i] \in Nat
        /\ \A t \in ReturnsOf(i) \ credited : t.amount <= inbound
    <3>1. AreTransfers(ReturnsOf(i))  BY <2>5, UsdIsLeft
    <3>2. ReturnsOf(i) \ credited \subseteq ReturnsOf(i)  OBVIOUS
    <3>3. inbound \in Nat /\ \A t \in ReturnsOf(i) \ credited : t.amount <= inbound
      BY <2>3, <3>1, <3>2, TransferredPart
    <3> QED
      BY <2>2, <2>5, <3>3 DEF AccountsInv, SharesInv, LayerInv, VaultTypeOK, MoneyTypeOK
  <2>9. /\ BuyShape(o) /\ BuySent(o, SentFor(i)) /\ BuyTold(o, Delivered(i)) /\ BuyRoom(o, topUps[i])
        /\ BuyHolds(o, BackFor(i), LostFor(i))
    BY <2>1 DEF PublicInv, PublicOK, BuyInv
  <2>10. o.status = "Cancelled" /\ o.held = 0 /\ o.shares = 0
    BY <2>1, <2>7, <2>9 DEF Order, BuyShape
  <2>11. \/ HadOf(o) >= Principal - LossBound \/ UsdOf(a) >= Principal
         \/ outbound >= Principal \/ inbound >= Principal \/ funding[i] >= Principal
    <3>1. CASE ~SentFor(i)  BY <2>5, <2>7, <2>9, <2>10, <3>1 DEF BuySent
    <3>2. CASE o.advanced  BY <2>5, <2>7, <2>9, <2>10, <3>2 DEF BuyRoom
    <3>3. CASE SentFor(i) /\ ~o.advanced
      <4>1. o.outcome = 3  BY <2>9, <2>10, <3>3 DEF BuySent
      <4>2. ~BuyIn(a)  BY <2>1, <2>4, <2>5, <4>1, FailedIsNotBought
      <4>3. CASE i \notin resolved  BY <2>2, <2>5, <3>3, <4>3 DEF SentFor
      <4>4. CASE i \in resolved /\ LostIn(a, credited)
        <5>1. LostFor(i)  BY <2>4, <4>4 DEF LostFor
        <5> QED  BY <2>7, <2>9, <2>10, <3>3, <5>1 DEF BuyHolds
      <4>5. CASE ~LostIn(a, credited)
        <5>1. a.fund = funding[i] /\ a.back = ReturnsOf(i)  BY <2>4 DEF Account
        <5>2. \/ funding[i] >= Principal \/ UsdOf(a) >= Principal
              \/ \E t \in ReturnsOf(i) \ credited : t.amount >= Principal
          BY <4>2, <4>5, <5>1 DEF LostIn
        <5>3. ASSUME NEW t \in ReturnsOf(i) \ credited, t.amount >= Principal
              PROVE  inbound >= Principal
          <6>1. t.amount \in Nat  BY <2>5, UsdIsLeft DEF AreTransfers
          <6> QED  BY <2>5, <2>8, <5>3, <6>1
        <5> QED  BY <5>2, <5>3
      <4> QED  BY <4>3, <4>4, <4>5
    <3> QED  BY <3>1, <3>2, <3>3
  <2>12. Received(i) + outbound + inbound + funding[i] + proceeds[i] + LossBound >= Principal
    BY <2>5, <2>7, <2>8, <2>11
  <2> QED  BY <2>1, <2>2, <2>3, <2>10, <2>12 DEF Order
<1> QED  BY <1>1, PublicInvHolds, PTL

-----------------------------------------------------------------------------
(* What a public buyer has received, at most.                              *)

\* The recipient's part of an account is what came for it and did not go back or out.
LEMMA UsdAtMost ==
  ASSUME AccountsInv, NEW i \in Ids
  PROVE  LET a == Account(i)
         IN /\ a.in \in Nat /\ a.adv \in Nat /\ SpentOf(a) \in Nat /\ CredFor(i) \in Nat
            /\ UsdOf(a) \in Nat
            /\ UsdOf(a) + CredFor(i) + SpentOf(a) <= a.in + a.adv
<1>1. i \in Refs  BY LayerAssumption
<1>2. PICK a : a = Account(i)  OBVIOUS
<1>3. AccountOK(i, a) /\ UsdOf(a) \in Nat /\ AreTransfers(ReturnsOf(i)) /\ a.back = ReturnsOf(i)
  BY <1>1, <1>2, UsdIsLeft DEF Account
<1>4. PICK home : home = Transferred(a.back)  OBVIOUS
<1>5. PICK spent : spent = SpentOf(a)  OBVIOUS
<1>6. CredFor(i) \in Nat /\ CredFor(i) <= home
  BY <1>3, <1>4, TransferredPart DEF CredFor
<1>7. home \in Nat  BY <1>3, <1>4, TransferredMore
<1>8. a.in \in Nat /\ a.adv \in Nat /\ a.fund \in Nat /\ a.proc \in Nat
  BY <1>3 DEF AccountOK, SumsIn
<1>9. spent \in Nat  BY <1>5, HubAssumption DEF SpentOf
<1>10. UsdOf(a) = a.in + a.adv - a.fund - a.proc - home - spent  BY <1>4, <1>5 DEF UsdOf
<1>11. UsdOf(a) + CredFor(i) + spent <= a.in + a.adv
  BY ONLY <1>6, <1>7, <1>8, <1>9, <1>10
<1> QED  BY <1>2, <1>3, <1>5, <1>6, <1>8, <1>9, <1>11

\* Neither side's float pays a buyer twice, and one with shares has no principal too.
LEMMA BuyersPaidOnce ==
  ASSUME PublicInv, NEW i \in PublicBuys
  PROVE  /\ Received(i) <= Principal + BuyFee + Extra + Gifts(i)
         /\ Order(i).shares > 0 => Received(i) <= Extra + Gifts(i) + Order(i).late
<1>1. PICK o : o = hub.order[i]  OBVIOUS
<1>2. PICK a : a = Account(i)  OBVIOUS
<1>3. /\ AccountsInv /\ i \in Ids /\ i \in Refs /\ i \in Buys
      /\ Principal \in Nat /\ BuyFee \in Nat /\ Extra \in Nat
  BY PublicLane, LayerAssumption DEF PublicInv
<1>4. o \in HubOrder  BY <1>1, <1>3 DEF AccountsInv, SharesInv, LayerInv, BooksOK, IsHub
<1>5. /\ HadOf(o) \in Nat /\ BuyWorth(o) \in Nat /\ o.late \in Nat /\ o.shares \in Nat
      /\ o.fee \in Nat /\ o.extra \in Nat /\ o.held \in Nat
  BY <1>4, BuyNumbers
<1>6. HadOf(o) <= BuyWorth(o)  BY <1>3, <1>5 DEF BuyWorth
<1>7. Received(i) = HadOf(o) + UsdOf(a)  BY <1>1, <1>2, <1>3, ReceivedIs
<1>8. PICK cred : cred = CredFor(i)  OBVIOUS
<1>9. PICK left : left = UsdOf(a)  OBVIOUS
<1>10. PICK top, given : top = topUps[i] /\ given = donated[i]  OBVIOUS
<1>11. /\ a.in \in Nat /\ a.adv \in Nat /\ SpentOf(a) \in Nat /\ cred \in Nat /\ left \in Nat
       /\ left + cred + SpentOf(a) <= a.in + a.adv
  BY <1>2, <1>3, <1>8, <1>9, UsdAtMost
<1>12. AccountOK(i, a) /\ CameIn(i, a) /\ a.in = paidIn[i]
  BY <1>2, <1>3, UsdIsLeft DEF Account
<1>13. top \in Nat /\ given \in Nat /\ Gifts(i) = top + given
  BY <1>3, <1>10 DEF AccountsInv, RoutesOK, Gifts
<1>14. PICK gone : gone = GoneFor(i)  OBVIOUS
<1>15. gone \in Nat /\ gone >= a.in - given
  BY <1>3, <1>10, <1>11, <1>12, <1>13, <1>14, EnvIs DEF GoneFor, EnvsOK
<1>16. /\ BuyShape(o) /\ BuyTold(o, Delivered(i)) /\ BuyRoom(o, top)
       /\ BuyBalance(o, gone, top, cred) /\ BuyRest(o, top, cred)
  BY <1>1, <1>8, <1>10, <1>14 DEF PublicInv, PublicOK, BuyInv
<1>17. /\ a.adv > 0 => BuyIn(a) /\ a.in + a.adv = Principal
       /\ ~SaleIn(a) /\ a.in <= given + Principal
  BY <1>3, <1>10, <1>12, <1>13 DEF AccountOK, SideOf, CameIn
<1>18. BuyIn(a) => SpentOf(a) = Principal  BY DEF SpentOf
<1>19. HadOf(o) + left <= Principal + BuyFee + Extra + (top + given)
  <2>1. CASE o.advanced
    <3>1. left = 0
      <4>1. ~Delivered(i)  BY <1>16, <2>1 DEF BuyTold
      <4> QED  BY <1>9, <1>12, <1>17, <4>1 DEF AccountOK, RecipientOf, SaleIn
    <3>2. HadOf(o) <= Principal + BuyFee + Extra + top
      BY <1>3, <1>5, <1>6, <1>13, <1>16, <2>1 DEF BuyRoom
    <3> QED  BY <1>3, <1>5, <1>13, <3>1, <3>2
  <2>2. CASE ~o.advanced
    <3>1. HadOf(o) + gone <= Principal + Extra + BuyFee + top + cred
      BY <1>3, <1>5, <1>6, <1>11, <1>13, <1>15, <1>16, <2>2 DEF BuyBalance
    <3>2. CASE a.adv = 0
      <4>1. left + cred <= a.in  BY <1>11, <3>2
      <4> QED  BY ONLY <1>3, <1>5, <1>11, <1>13, <1>15, <3>1, <4>1
    <3>3. CASE a.adv > 0
      <4>1. left + cred <= 0  BY <1>3, <1>11, <1>17, <1>18, <3>3
      <4> QED  BY ONLY <1>3, <1>5, <1>11, <1>13, <1>15, <3>1, <4>1
    <3> QED  BY <1>11, <3>2, <3>3
  <2> QED  BY <2>1, <2>2
<1>20. ASSUME o.shares > 0  PROVE HadOf(o) + left <= Extra + (top + given) + o.late
  <2>1. o.outcome = 1 /\ ~o.advanced  BY <1>16, <1>20 DEF BuyShape
  <2>2. HadOf(o) <= Extra + top + cred + o.late
    BY <1>3, <1>5, <1>6, <1>11, <1>13, <1>16, <2>1 DEF BuyRest
  <2>3. BuyIn(a)  BY <1>1, <1>2, <1>3, <2>1, FailedIsNotBought
  <2>4. left + cred <= given
    <3>1. left + cred + Principal <= a.in + a.adv  BY <1>11, <1>18, <2>3
    <3> QED  BY ONLY <1>3, <1>11, <1>13, <1>17, <3>1
  <2> QED  BY ONLY <1>3, <1>5, <1>11, <1>13, <2>2, <2>4
<1> QED  BY <1>1, <1>7, <1>9, <1>13, <1>19, <1>20 DEF Order

-----------------------------------------------------------------------------
(* A sell, and what the rest of the layer holds for it.                    *)

SellWorth(o) == HadOf(o) + o.extra + o.held

\* The order by itself.
SellShape(o) ==
  /\ o.outcome \in {0, 2, 3}
  /\ o.outcome = 0 => HadOf(o) = 0 /\ o.status \in {"None", "Pending", "Dispatched", "Escalated"}
  /\ o.outcome = 2 => o.status \in {"Filled", "Proceeds", "Escalated"}
  /\ o.outcome = 3 => o.status = "Cancelled"
  /\ o.shares > 0 => o.outcome = 3
  /\ o.advanced => o.outcome = 2 /\ o.status = "Filled" /\ o.rawOut # 0
\* The vault was told to hand over what it holds: only of a sale the float did not pay.
SellTold(o, told) == told => o.outcome # 0 /\ ~o.advanced
\* What was given or returned; and of a sale the float paid, what it was sold for instead.
SellRoom(o, top, cred) ==
  /\ o.outcome = 0 => o.extra <= top
  /\ ~o.advanced => SellWorth(o) <= top + cred
  /\ o.advanced => SellWorth(o) <= top + o.rawOut

SellInv(o, told, top, cred) == SellShape(o) /\ SellTold(o, told) /\ SellRoom(o, top, cred)

\* A sell pays its user.
LEMMA SellLane ==
  ASSUME NEW i \in Sells
  PROVE  /\ i \in Ids /\ i \in Refs /\ Lane(i) = 0
         /\ i \notin Buys /\ i \notin PublicBuys /\ i \notin RewardBuys
         /\ \A o, amount : LateFor(i, o, amount) = "user"
         /\ SharesIn \in Nat
BY HubAssumption, LayerAssumption DEF Buys, Ids, Lane, LateFor, Beneficiary

\* The numbers of an order.
LEMMA SellNumbers ==
  ASSUME NEW o \in HubOrder
  PROVE  /\ OrderShape(o) /\ o.fee \in Nat /\ o.extra \in Nat /\ o.held \in Nat /\ o.shares \in Nat
         /\ o.paid \in Nat /\ o.owed \in Nat /\ o.late \in Nat /\ o.rawOut \in Nat
         /\ HadOf(o) \in Nat /\ SellWorth(o) \in Nat /\ o.advanced \in BOOLEAN
<1>1. /\ o.fee \in Nat /\ o.extra \in Nat /\ o.held \in Nat /\ o.shares \in Nat
      /\ o.paid \in Nat /\ o.owed \in Nat /\ o.late \in Nat /\ o.rawOut \in Nat
      /\ o.advanced \in BOOLEAN
  BY DEF HubOrder
<1>2. OrderShape(o)  BY DEF HubOrder, OrderShape
<1> QED  BY <1>1, <1>2 DEF HadOf, SellWorth

\* A record moves on: nothing is added to it.
SellMoves(p, o) ==
  /\ p.outcome = o.outcome /\ p.advanced = o.advanced /\ p.shares = o.shares /\ p.rawOut = o.rawOut
  /\ p.extra <= o.extra /\ SellWorth(p) <= SellWorth(o)
  /\ o.outcome = 0 => HadOf(p) = HadOf(o)
  /\ \/ p.status = o.status
     \/ o.outcome = 0 /\ p.status \in {"Pending", "Dispatched", "Escalated"}
     \/ o.outcome = 2 /\ ~o.advanced /\ p.status \in {"Filled", "Escalated"}

SellNat(o) == o.extra \in Nat /\ HadOf(o) \in Nat /\ SellWorth(o) \in Nat /\ o.rawOut \in Nat

\* A record that moves on keeps the invariant, also when escalateFunds told the vault of it.
LEMMA SellKept ==
  ASSUME NEW o, NEW p, SellNat(o), SellNat(p), SellMoves(p, o), NEW told \in BOOLEAN,
         NEW top \in Nat, NEW cred \in Nat, SellInv(o, told, top, cred)
  PROVE  /\ SellInv(p, told, top, cred)
         /\ o.outcome # 0 /\ ~o.advanced => SellInv(p, TRUE, top, cred)
<1>1. SellShape(o) /\ SellTold(o, told) /\ SellRoom(o, top, cred)  BY DEF SellInv
<1>2. SellShape(p)  BY <1>1 DEF SellShape, SellMoves
<1>3. SellRoom(p, top, cred)  BY <1>1 DEF SellRoom, SellMoves, SellNat
<1>4. SellTold(p, told) /\ (o.outcome # 0 /\ ~o.advanced => SellTold(p, TRUE))
  BY <1>1 DEF SellTold, SellMoves
<1> QED  BY <1>2, <1>3, <1>4 DEF SellInv

\* What a payment to the user does.
LEMMA SellPaid ==
  ASSUME NEW p, NEW b, OrderShape(b), b.paid \in Nat, b.owed \in Nat, NEW amount \in Nat,
         PaidTo(p, b, "user", amount)
  PROVE  /\ p.status = b.status /\ p.extra = b.extra /\ p.held = b.held /\ p.outcome = b.outcome
         /\ p.advanced = b.advanced /\ p.shares = b.shares /\ p.rawOut = b.rawOut
         /\ HadOf(p) = HadOf(b) + amount
<1>1. PICK owed, paid, late : owed = b.owed + amount /\ paid = b.paid + amount /\ late = b.late
  OBVIOUS
<1>2. \/ SameMoney(p, [b EXCEPT !.owed = owed, !.late = late])
      \/ SameMoney(p, [b EXCEPT !.paid = paid])
  BY <1>1 DEF PaidTo
<1>3. CASE SameMoney(p, [b EXCEPT !.owed = owed, !.late = late])
  <2>1. /\ p.status = b.status /\ p.extra = b.extra /\ p.held = b.held /\ p.outcome = b.outcome
        /\ p.advanced = b.advanced /\ p.shares = b.shares /\ p.rawOut = b.rawOut
        /\ p.paid = b.paid /\ p.owed = owed
    BY <1>3 DEF SameMoney, OrderShape
  <2> QED  BY <1>1, <2>1 DEF HadOf
<1>4. CASE SameMoney(p, [b EXCEPT !.paid = paid])
  <2>1. /\ p.status = b.status /\ p.extra = b.extra /\ p.held = b.held /\ p.outcome = b.outcome
        /\ p.advanced = b.advanced /\ p.shares = b.shares /\ p.rawOut = b.rawOut
        /\ p.paid = paid /\ p.owed = b.owed
    BY <1>4 DEF SameMoney, OrderShape
  <2> QED  BY <1>1, <2>1 DEF HadOf
<1> QED  BY <1>2, <1>3, <1>4

\* What users and keepers do to a sell.
LEMMA SellHandled ==
  ASSUME NEW i \in Sells, NEW o \in HubOrder, NEW p \in HubOrder, Handled(i, p, o),
         SellShape(o)
  PROVE  SellMoves(p, o)
<1>1. /\ OrderShape(o) /\ o.extra \in Nat /\ o.held \in Nat /\ o.paid \in Nat /\ o.owed \in Nat
      /\ HadOf(o) \in Nat /\ SellWorth(o) \in Nat
  BY SellNumbers
<1>2. i \notin Buys /\ i \notin PublicBuys /\ i \notin RewardBuys /\ Lane(i) = 0  BY SellLane
<1>3. CASE SameMoney(p, o)
  <2>1. HadOf(p) = HadOf(o) /\ SellWorth(p) = SellWorth(o)
    BY <1>3 DEF SameMoney, HadOf, SellWorth
  <2> QED  BY <1>1, <1>3, <2>1 DEF SameMoney, SellMoves
<1>4. ASSUME NEW st \in {"Pending", "Dispatched", "Escalated"}, o.outcome = 0, Onward(p, o, st)
      PROVE  SellMoves(p, o)
  <2>1. PICK x \in Nat : x <= o.extra /\ SameMoney(p, [o EXCEPT !.status = st, !.extra = x])
    BY <1>4, Zenon DEF Onward
  <2>2. /\ p.status = st /\ p.extra = x /\ p.held = o.held /\ p.paid = o.paid /\ p.owed = o.owed
        /\ p.outcome = o.outcome /\ p.advanced = o.advanced /\ p.shares = o.shares
        /\ p.rawOut = o.rawOut
    BY <1>1, <2>1 DEF SameMoney, OrderShape
  <2>3. HadOf(p) = HadOf(o) /\ SellWorth(p) <= SellWorth(o)
    BY <1>1, <2>1, <2>2 DEF HadOf, SellWorth
  <2> QED  BY <1>1, <1>4, <2>1, <2>2, <2>3 DEF SellMoves
<1>5. CASE Opened(i, p, o)
  <2>1. PICK st \in {"Pending", "Escalated"} : o = NoOrder /\ SameMoney(p, [o EXCEPT !.status = st])
    BY <1>2, <1>5 DEF Opened
  <2>2. SameMoney(p, [o EXCEPT !.status = st, !.extra = o.extra]) /\ o.extra <= o.extra
    BY <1>1, <2>1 DEF SameMoney, OrderShape
  <2>3. o.outcome = 0  BY <2>1 DEF NoOrder
  <2>4. Onward(p, o, st)  BY Zenon, <1>1, <2>2 DEF Onward
  <2> QED  BY <1>4, <2>1, <2>3, <2>4
<1>6. CASE Claimed(i, p, o)
  <2>1. PICK paid : paid = o.paid + o.owed  OBVIOUS
  <2>2. SameMoney(p, [o EXCEPT !.owed = 0, !.paid = paid])  BY <1>2, <1>6, <2>1 DEF Claimed
  <2>3. /\ p.status = o.status /\ p.extra = o.extra /\ p.held = o.held /\ p.paid = paid
        /\ p.owed = 0 /\ p.outcome = o.outcome /\ p.advanced = o.advanced
        /\ p.shares = o.shares /\ p.rawOut = o.rawOut
    BY <1>1, <2>2 DEF SameMoney, OrderShape
  <2>4. HadOf(p) = HadOf(o) /\ SellWorth(p) = SellWorth(o)
    BY <1>1, <2>1, <2>3 DEF HadOf, SellWorth
  <2> QED  BY <1>1, <2>3, <2>4 DEF SellMoves
<1>7. CASE /\ o.status \in {"Pending", "Dispatched"}
           /\ Onward(p, o, "Dispatched") \/ Onward(p, o, "Escalated")
  BY <1>4, <1>7 DEF SellShape
<1> QED  BY <1>2, <1>3, <1>5, <1>6, <1>7 DEF Handled

\* A record with the numbers of an order.
SellRecord(q) ==
  /\ OrderShape(q) /\ q.fee \in Nat /\ q.extra \in Nat /\ q.held \in Nat /\ q.paid \in Nat
  /\ q.owed \in Nat /\ q.rawOut \in Nat

\* What the user is paid of what is held, when a closed or answered sell is settled: no more
\* than that.
LEMMA SellGivesHeld ==
  ASSUME NEW q, SellRecord(q), NEW p, NEW b, OrderShape(b), NEW amount \in Nat, amount <= q.held,
         PaidTo(p, b, "user", amount),
         b.held = 0, b.extra = q.extra, b.paid = q.paid, b.owed = q.owed,
         b.outcome = q.outcome, b.advanced = q.advanced, b.shares = q.shares,
         b.rawOut = q.rawOut, q.outcome # 0,
         \/ b.status = q.status
         \/ q.outcome = 2 /\ ~q.advanced /\ b.status \in {"Filled", "Escalated"}
  PROVE  SellMoves(p, q) /\ SellNat(p) /\ SellNat(q)
<1>1. /\ q.extra \in Nat /\ q.held \in Nat /\ q.paid \in Nat /\ q.owed \in Nat /\ q.rawOut \in Nat
      /\ b.paid \in Nat /\ b.owed \in Nat
  BY DEF SellRecord
<1>2. PICK x : x = amount  OBVIOUS
<1>3. x \in Nat /\ x <= q.held /\ PaidTo(p, b, "user", x)  BY <1>2
<1>4. /\ p.status = b.status /\ p.extra = b.extra /\ p.held = b.held /\ p.outcome = b.outcome
      /\ p.advanced = b.advanced /\ p.shares = b.shares /\ p.rawOut = b.rawOut
      /\ HadOf(p) = HadOf(b) + x
  BY <1>1, <1>3, SellPaid
<1>5. HadOf(b) = HadOf(q) /\ HadOf(q) \in Nat  BY <1>1 DEF HadOf
<1>6. SellWorth(p) <= SellWorth(q) /\ SellNat(p) /\ SellNat(q)
  BY <1>1, <1>3, <1>4, <1>5 DEF SellWorth, SellNat
<1> QED  BY <1>1, <1>4, <1>6 DEF SellMoves

\* _flushHeld.
LEMMA SellFlushed ==
  ASSUME NEW i \in Sells, NEW q, SellRecord(q), q.outcome # 0, NEW p, Flushed(i, p, q)
  PROVE  SellMoves(p, q) /\ SellNat(p) /\ SellNat(q)
<1>1. PICK b : b = [q EXCEPT !.held = 0]  OBVIOUS
<1>2. PICK amount : amount = q.held  OBVIOUS
<1>3. PaidTo(p, b, "user", amount)  BY <1>1, <1>2, SellLane DEF Flushed
<1>4. /\ OrderShape(b) /\ b.held = 0 /\ b.extra = q.extra /\ b.paid = q.paid /\ b.owed = q.owed
      /\ b.outcome = q.outcome /\ b.advanced = q.advanced /\ b.shares = q.shares
      /\ b.rawOut = q.rawOut /\ b.status = q.status
  BY <1>1 DEF SellRecord, OrderShape
<1>5. amount \in Nat /\ amount <= q.held  BY <1>2 DEF SellRecord
<1> QED  BY <1>3, <1>4, <1>5, SellGivesHeld

\* _payHeldProceeds.
LEMMA SellProceeds ==
  ASSUME NEW i \in Sells, NEW q, SellRecord(q), q.outcome = 2, ~q.advanced, NEW p,
         ProceedsPaid(i, p, q)
  PROVE  SellMoves(p, q) /\ SellNat(p) /\ SellNat(q)
<1>0. SellNat(q)
  <2>1. HadOf(q) \in Nat  BY DEF SellRecord, HadOf
  <2> QED  BY <2>1 DEF SellRecord, SellNat, SellWorth
<1>1. CASE p = q  BY <1>0, <1>1 DEF SellMoves, SellNat
<1>2. CASE p # q
  <2>1. PICK fee : fee = IF q.fee < q.held THEN q.fee ELSE q.held  OBVIOUS
  <2>2. PICK amount : amount = q.held - fee  OBVIOUS
  <2>3. PICK b : b = [q EXCEPT !.held = 0, !.fee = fee, !.amountOut = amount, !.status = "Filled"]
    OBVIOUS
  <2>4. PaidTo(p, b, "user", amount)  BY <1>2, <2>1, <2>2, <2>3 DEF ProceedsPaid
  <2>5. /\ OrderShape(b) /\ b.held = 0 /\ b.extra = q.extra /\ b.paid = q.paid /\ b.owed = q.owed
        /\ b.outcome = q.outcome /\ b.advanced = q.advanced /\ b.shares = q.shares
        /\ b.rawOut = q.rawOut /\ b.status = "Filled"
    BY <2>3 DEF SellRecord, OrderShape
  <2>6. amount \in Nat /\ amount <= q.held  BY <2>1, <2>2 DEF SellRecord
  <2> QED  BY <2>4, <2>5, <2>6, SellGivesHeld
<1> QED  BY <1>1, <1>2

\* escalateFunds of a sale that waits for its proceeds.
LEMMA SellTaken ==
  ASSUME NEW i \in Sells, NEW q, SellRecord(q), q.outcome = 2, ~q.advanced, NEW p, Taken(i, p, q)
  PROVE  SellMoves(p, q) /\ SellNat(p) /\ SellNat(q)
<1>1. PICK fee : fee = IF q.fee < q.held THEN q.fee ELSE q.held  OBVIOUS
<1>2. PICK amount : amount = q.held - fee  OBVIOUS
<1>3. PICK b : b = [q EXCEPT !.status = "Escalated", !.held = 0]  OBVIOUS
<1>4. PaidTo(p, b, "user", amount)  BY <1>1, <1>2, <1>3, SellLane DEF Taken
<1>5. /\ OrderShape(b) /\ b.held = 0 /\ b.extra = q.extra /\ b.paid = q.paid /\ b.owed = q.owed
      /\ b.outcome = q.outcome /\ b.advanced = q.advanced /\ b.shares = q.shares
      /\ b.rawOut = q.rawOut /\ b.status = "Escalated"
  BY <1>3 DEF SellRecord, OrderShape
<1>6. amount \in Nat /\ amount <= q.held  BY <1>1, <1>2 DEF SellRecord
<1>7. SellRecord(q) /\ q.outcome # 0 /\ q.outcome = 2 /\ ~q.advanced  OBVIOUS
<1> QED  BY ONLY <1>4, <1>5, <1>6, <1>7, SellGivesHeld, SMTT(40)

\* The vault's answer: nothing was paid before it.
LEMMA SellAnswered ==
  ASSUME NEW i \in Sells, NEW o \in HubOrder, NEW p \in HubOrder, NEW r,
         r.amountOut \in Nat, Answered(i, p, o, r), NEW told \in BOOLEAN, NEW top \in Nat,
         NEW cred \in Nat, SellInv(o, told, top, cred)
  PROVE  SellInv(p, told, top, cred)
<1>1. SellShape(o) /\ SellTold(o, told) /\ SellRoom(o, top, cred)  BY DEF SellInv
<1>2. /\ OrderShape(o) /\ o.fee \in Nat /\ o.extra \in Nat /\ o.held \in Nat /\ o.shares \in Nat
      /\ o.paid \in Nat /\ o.owed \in Nat /\ HadOf(o) \in Nat /\ SellWorth(o) \in Nat
      /\ SellNat(p) /\ i \notin Buys /\ SharesIn \in Nat
  BY SellNumbers, SellLane DEF SellNat
<1>3. /\ o.outcome = 0 /\ ~told /\ ~o.advanced /\ HadOf(o) = 0 /\ o.extra <= top
      /\ SellWorth(o) <= top + cred /\ o.shares = 0
  BY <1>1, <1>2 DEF Answered, SellShape, SellTold, SellRoom
<1>4. PICK raw \in Nat : raw = r.amountOut  OBVIOUS
<1>5. PICK fee : fee = (raw * FeeBps) \div BPS  OBVIOUS
<1>6. PICK net : net = raw - fee  OBVIOUS
<1>7. fee \in Nat /\ net \in Nat /\ net <= raw  BY <1>5, <1>6, FeeOfSale
<1>8. PICK b : b = [o EXCEPT !.fee = fee, !.rawOut = raw, !.outcome = 2]  OBVIOUS
<1>9. /\ OrderShape(b) /\ b.fee = fee /\ b.rawOut = raw /\ b.outcome = 2 /\ b.extra = o.extra
      /\ b.held = o.held /\ b.paid = o.paid /\ b.owed = o.owed /\ ~b.advanced /\ b.shares = o.shares
      /\ b.advanced = o.advanced
  BY <1>2, <1>3, <1>8 DEF OrderShape
<1>10. ASSUME NEW q, SellRecord(q), q.outcome \in {2, 3}, q.advanced = o.advanced,
              q.extra = o.extra, q.held = o.held, q.paid = o.paid, q.owed = o.owed,
              q.outcome = 2 => q.shares = o.shares /\ q.status \in {"Filled", "Proceeds"},
              q.outcome = 3 => q.status = "Cancelled", SellMoves(p, q), SellNat(q)
       PROVE  SellInv(p, told, top, cred)
  <2>1. SellWorth(q) = SellWorth(o)  BY <1>10 DEF SellWorth, HadOf
  <2>2. SellShape(q)  BY <1>3, <1>10 DEF SellShape
  <2>3. SellRoom(q, top, cred)  BY <1>3, <1>10, <2>1 DEF SellRoom
  <2>4. SellInv(q, told, top, cred)  BY <1>3, <2>2, <2>3 DEF SellInv, SellTold
  <2> QED  BY <1>2, <1>10, <2>4, SellKept
<1>11. CASE r.outcome = "Sold" /\ SoldFor(i, p, o, raw)
  <2>1. CASE raw = 0 /\ \E q : OrderShape(q) /\ SameMoney(q, [b EXCEPT !.status = "Filled"])
                               /\ Flushed(i, p, q)
    <3>1. PICK q : OrderShape(q) /\ SameMoney(q, [b EXCEPT !.status = "Filled"]) /\ Flushed(i, p, q)
      BY <2>1
    <3>2. /\ q.status = "Filled" /\ q.fee = fee /\ q.rawOut = raw /\ q.outcome = 2
          /\ q.extra = o.extra /\ q.held = o.held /\ q.paid = o.paid /\ q.owed = o.owed
          /\ q.advanced = o.advanced /\ q.shares = o.shares
      BY <1>9, <3>1 DEF SameMoney, OrderShape
    <3>3. SellRecord(q)  BY <1>2, <1>7, <3>1, <3>2 DEF SellRecord
    <3>4. SellMoves(p, q) /\ SellNat(q)  BY <3>1, <3>2, <3>3, SellFlushed
    <3> QED  BY <1>10, <3>2, <3>3, <3>4
  <2>2. CASE raw # 0 /\ \E q : /\ OrderShape(q)
                               /\ SameMoney(q, [b EXCEPT !.amountOut = net, !.status = "Proceeds"])
                               /\ ProceedsPaid(i, p, q)
    <3>1. PICK q : /\ OrderShape(q) /\ ProceedsPaid(i, p, q)
                   /\ SameMoney(q, [b EXCEPT !.amountOut = net, !.status = "Proceeds"])
      BY <2>2
    <3>2. /\ q.status = "Proceeds" /\ q.fee = fee /\ q.rawOut = raw /\ q.outcome = 2
          /\ q.extra = o.extra /\ q.held = o.held /\ q.paid = o.paid /\ q.owed = o.owed
          /\ q.advanced = o.advanced /\ q.shares = o.shares
      BY <1>9, <3>1 DEF SameMoney, OrderShape
    <3>3. SellRecord(q) /\ ~q.advanced  BY <1>2, <1>3, <1>7, <3>1, <3>2 DEF SellRecord
    <3>4. SellMoves(p, q) /\ SellNat(q)  BY <3>1, <3>2, <3>3, SellProceeds
    <3> QED  BY <1>10, <3>2, <3>3, <3>4
  <2>3. CASE raw # 0 /\ \E q : /\ OrderShape(q)
                               /\ SameMoney(q, [b EXCEPT !.amountOut = net, !.status = "Filled",
                                                         !.held = 0, !.advanced = TRUE])
                               /\ PaidTo(p, q, "user", net)
    <3>1. PICK q : /\ OrderShape(q) /\ PaidTo(p, q, "user", net)
                   /\ SameMoney(q, [b EXCEPT !.amountOut = net, !.status = "Filled",
                                             !.held = 0, !.advanced = TRUE])
      BY <2>3
    <3>2. /\ q.status = "Filled" /\ q.rawOut = raw /\ q.outcome = 2
          /\ q.extra = o.extra /\ q.held = 0 /\ q.paid = o.paid /\ q.owed = o.owed
          /\ q.advanced = TRUE /\ q.shares = o.shares
      BY <1>9, <3>1 DEF SameMoney, OrderShape
    <3>3. /\ p.status = "Filled" /\ p.extra = o.extra /\ p.held = 0 /\ p.outcome = 2
          /\ p.advanced = TRUE /\ p.shares = o.shares /\ p.rawOut = raw
          /\ HadOf(p) = HadOf(q) + net
      <4>1. q.paid \in Nat /\ q.owed \in Nat  BY <1>2, <3>2
      <4> QED  BY <1>7, <3>1, <3>2, <4>1, SellPaid
    <3>4. HadOf(q) = 0  BY <1>3, <3>2 DEF HadOf
    <3>5. SellWorth(p) <= top + raw  BY <1>2, <1>3, <1>7, <3>3, <3>4 DEF SellWorth
    <3>6. SellShape(p) /\ SellRoom(p, top, cred) /\ SellTold(p, told)
      BY <1>2, <1>3, <2>3, <3>3, <3>5 DEF SellShape, SellRoom, SellTold
    <3> QED  BY <3>6 DEF SellInv
  <2> QED  BY <1>5, <1>6, <1>8, <1>11, <2>1, <2>2, <2>3 DEF SoldFor
<1>12. CASE r.outcome = "Failed" /\ FailedSell(i, p, o)
  <2>1. PICK shares : shares = o.shares + SharesIn  OBVIOUS
  <2>2. PICK q : /\ OrderShape(q) /\ Flushed(i, p, q)
                 /\ SameMoney(q, [o EXCEPT !.outcome = 3, !.rawOut = 0, !.status = "Cancelled",
                                           !.shares = shares])
    BY <1>12, <2>1 DEF FailedSell
  <2>3. /\ q.status = "Cancelled" /\ q.fee = o.fee /\ q.rawOut = 0 /\ q.outcome = 3
        /\ q.extra = o.extra /\ q.held = o.held /\ q.paid = o.paid /\ q.owed = o.owed
        /\ q.advanced = o.advanced
    BY <1>2, <2>2 DEF SameMoney, OrderShape
  <2>4. SellRecord(q)  BY <1>2, <2>2, <2>3 DEF SellRecord
  <2>5. SellMoves(p, q) /\ SellNat(q)  BY <2>2, <2>3, <2>4, SellFlushed
  <2> QED  BY <1>10, <2>3, <2>4, <2>5
<1> QED  BY <1>2, <1>4, <1>11, <1>12 DEF Answered

\* More was given or returned.
LEMMA SellWaits ==
  ASSUME NEW o \in HubOrder, NEW told \in BOOLEAN, NEW top \in Nat, NEW cred \in Nat,
         SellInv(o, told, top, cred), NEW top1 \in Nat, NEW cred1 \in Nat,
         top <= top1, cred <= cred1
  PROVE  SellInv(o, told, top1, cred1)
<1>1. SellShape(o) /\ SellTold(o, told) /\ SellRoom(o, top, cred)  BY DEF SellInv
<1>2. o.extra \in Nat /\ SellWorth(o) \in Nat /\ o.rawOut \in Nat  BY SellNumbers
<1>3. SellRoom(o, top1, cred1)  BY <1>1, <1>2 DEF SellRoom
<1> QED  BY <1>1, <1>3 DEF SellInv

\* Money that was returned or given arrives.
LEMMA SellArrives ==
  ASSUME NEW i \in Sells, NEW o \in HubOrder, NEW p \in HubOrder, NEW amount \in Nat,
         Arrives(i, p, o, amount), NEW told \in BOOLEAN, NEW top \in Nat, NEW cred \in Nat,
         SellInv(o, told, top, cred), NEW top1 \in Nat, NEW cred1 \in Nat,
         top <= top1, cred <= cred1, top + cred + amount <= top1 + cred1
  PROVE  SellInv(p, told, top1, cred1)
<1>1. SellShape(o) /\ SellTold(o, told) /\ SellRoom(o, top, cred)  BY DEF SellInv
<1>2. /\ OrderShape(o) /\ o.fee \in Nat /\ o.extra \in Nat /\ o.held \in Nat /\ o.shares \in Nat
      /\ o.paid \in Nat /\ o.owed \in Nat /\ HadOf(o) \in Nat /\ SellWorth(o) \in Nat
      /\ o.rawOut \in Nat /\ SellNat(p)
  BY SellNumbers DEF SellNat
<1>3. CASE o.advanced
  <2>1. p = o  BY <1>3 DEF Arrives
  <2> QED  BY <2>1, SellWaits
<1>4. ASSUME ~o.advanced  PROVE SellInv(p, told, top1, cred1)
  <2>1. PICK k : k = [o EXCEPT !.held = @ + amount]  OBVIOUS
  <2>2. /\ OrderShape(k) /\ k.status = o.status /\ k.fee = o.fee /\ k.extra = o.extra
        /\ k.held = o.held + amount /\ k.paid = o.paid /\ k.owed = o.owed
        /\ k.outcome = o.outcome /\ k.advanced = o.advanced /\ k.shares = o.shares
        /\ k.rawOut = o.rawOut
    BY <1>2, <2>1 DEF OrderShape
  <2>3. HadOf(k) = HadOf(o) /\ SellWorth(k) = SellWorth(o) + amount /\ SellNat(k) /\ SellRecord(k)
    BY <1>2, <2>2 DEF HadOf, SellWorth, SellNat, SellRecord
  <2>4. SellInv(k, told, top1, cred1)
    <3>1. SellShape(k) /\ SellTold(k, told)
      BY <1>1, <1>4, <2>2, <2>3 DEF SellShape, SellTold
    <3>2. SellRoom(k, top1, cred1)
      BY <1>1, <1>2, <1>4, <2>2, <2>3 DEF SellRoom
    <3> QED  BY <3>1, <3>2 DEF SellInv
  <2>5. CASE p = k  BY <2>4, <2>5
  <2>6. CASE o.status = "Proceeds"
    <3>1. ProceedsPaid(i, p, k)  BY <1>4, <2>1, <2>6 DEF Arrives
    <3>2. k.outcome = 2 /\ ~k.advanced  BY <1>1, <1>4, <2>2, <2>6 DEF SellShape
    <3>3. SellMoves(p, k)  BY <2>3, <3>1, <3>2, SellProceeds
    <3> QED  BY <1>2, <2>3, <2>4, <3>3, SellKept
  <2>7. CASE o.outcome # 0 /\ PaidTo(p, o, "user", amount)
    <3>1. PICK b : b = o  OBVIOUS
    <3>2. PaidTo(p, b, "user", amount) /\ OrderShape(b) /\ b.paid \in Nat /\ b.owed \in Nat
      BY <1>2, <2>7, <3>1
    <3>3. /\ p.status = b.status /\ p.extra = b.extra /\ p.held = b.held /\ p.outcome = b.outcome
          /\ p.advanced = b.advanced /\ p.shares = b.shares /\ p.rawOut = b.rawOut
          /\ HadOf(p) = HadOf(b) + amount
      BY <3>2, SellPaid
    <3>4. SellWorth(p) = SellWorth(k)  BY <1>2, <2>2, <2>3, <3>1, <3>3 DEF SellWorth
    <3>5. SellMoves(p, k)  BY <1>2, <2>2, <2>3, <2>7, <3>1, <3>3, <3>4 DEF SellMoves
    <3> QED  BY <1>2, <2>3, <2>4, <3>5, SellKept
  <2>8. o.status # "Returning" /\ (o.status \in {"Filled", "Cancelled"} => o.outcome # 0)
    BY <1>1 DEF SellShape
  <2>9. LateFor(i, o, amount) = "user"  BY SellLane
  <2> QED  BY <1>4, <2>1, <2>5, <2>6, <2>7, <2>8, <2>9 DEF Arrives
<1> QED  BY <1>2, <1>3, <1>4

\* A subsidy of the order's reserve.
LEMMA SellToppedUp ==
  ASSUME NEW i \in Sells, NEW o \in HubOrder, NEW p \in HubOrder, NEW amount \in Nat,
         Topped(i, p, o, amount), NEW told \in BOOLEAN, NEW top \in Nat, NEW cred \in Nat,
         SellInv(o, told, top, cred)
  PROVE  SellInv(p, told, top + amount, cred)
<1>1. SellShape(o) /\ SellTold(o, told) /\ SellRoom(o, top, cred)  BY DEF SellInv
<1>2. /\ OrderShape(o) /\ o.extra \in Nat /\ o.held \in Nat /\ HadOf(o) \in Nat
      /\ SellWorth(o) \in Nat /\ o.rawOut \in Nat
  BY SellNumbers
<1>3. p = [o EXCEPT !.extra = @ + amount]  BY <1>1 DEF Topped, SellShape
<1>4. /\ p.status = o.status /\ p.extra = o.extra + amount /\ p.held = o.held /\ p.paid = o.paid
      /\ p.owed = o.owed /\ p.outcome = o.outcome /\ p.advanced = o.advanced
      /\ p.shares = o.shares /\ p.rawOut = o.rawOut
  BY <1>2, <1>3 DEF OrderShape
<1>5. HadOf(p) = HadOf(o) /\ SellWorth(p) = SellWorth(o) + amount
  BY <1>2, <1>4 DEF HadOf, SellWorth
<1>6. SellShape(p) /\ SellTold(p, told)  BY <1>1, <1>4, <1>5 DEF SellShape, SellTold
<1>7. SellRoom(p, top + amount, cred)  BY <1>1, <1>2, <1>4, <1>5 DEF SellRoom
<1> QED  BY <1>6, <1>7 DEF SellInv

-----------------------------------------------------------------------------
(* A sell's surroundings, in the state.                                    *)

SellOK(i) == SellInv(hub.order[i], Delivered(i), topUps[i], CredFor(i))

\* What is invariant of all orders that pay a user.
MoneyInv == PublicInv /\ \A i \in Sells : SellOK(i)

\* What was returned and given is counted.
CredsOK == \A i \in Ids : CredFor(i) \in Nat /\ topUps[i] \in Nat

\* What was credited and given are numbers.
LEMMA CredIs == AccountsInv => CredsOK
<1> SUFFICES ASSUME AccountsInv, NEW i \in Ids  PROVE CredFor(i) \in Nat /\ topUps[i] \in Nat
  BY DEF CredsOK
<1>1. CredFor(i) \in Nat  BY UsdAtMost
<1>2. topUps[i] \in Nat  BY DEF AccountsInv, RoutesOK
<1> QED  BY <1>1, <1>2

\* What came back from the vault is as it was, unless the hub was credited for the order.
LEMMA CredStays ==
  ASSUME RoutesOK, NEW i,
         \/ returnsSent \subseteq returnsSent' /\ credited' = credited
         \/ returnsSent' = returnsSent /\ ReturnsOf(i) \cap credited' = ReturnsOf(i) \cap credited
  PROVE  CredFor(i)' = CredFor(i)
<1>1. ReturnsOf(i)' \cap credited' = ReturnsOf(i) \cap credited
  BY DEF ReturnsOf, RoutesOK
<1> QED  BY <1>1, EnvNext DEF CredFor

\* A transfer more.
LEMMA CredGrows ==
  ASSUME AccountsInv, NEW i \in Ids, NEW t \in returnsSent, t.ref = i, t \notin credited,
         returnsSent' = returnsSent, credited' = credited \cup {t}
  PROVE  CredFor(i)' = CredFor(i) + t.amount /\ t.amount \in Nat
<1>1. i \in Refs  BY LayerAssumption
<1>2. AreTransfers(ReturnsOf(i)) /\ t \in ReturnsOf(i)  BY <1>1, UsdIsLeft DEF ReturnsOf
<1>3. t.amount \in Nat  BY <1>2 DEF AreTransfers
<1>4. PICK T : T = ReturnsOf(i) \cap credited  OBVIOUS
<1>5. ReturnsOf(i)' \cap credited' = T \cup {t} /\ t \notin T  BY <1>2, <1>4 DEF ReturnsOf
<1>6. AreTransfers(T)  BY <1>2, <1>4, FS_Subset DEF AreTransfers
<1>7. Transferred(T \cup {t}) = Transferred(T) + t.amount
  BY <1>3, <1>5, <1>6, TransferredMore
<1>8. CredFor(i) = Transferred(T)  BY <1>4 DEF CredFor
<1>9. CredFor(i)' = Transferred(T \cup {t})  BY <1>5, EnvNext
<1> QED  BY <1>3, <1>7, <1>8, <1>9

\* The next state, in values.
LEMMA SellNext ==
  ASSUME NEW i, NEW p, p = hub'.order[i], NEW told \in BOOLEAN, told <=> Delivered(i)',
         NEW top, top = topUps'[i], NEW cred, cred = CredFor(i)', SellInv(p, told, top, cred)
  PROVE  SellOK(i)'
BY DEF SellOK, SellInv, SellShape, SellTold, SellRoom, HadOf, SellWorth

\* A step that is not the sell's leaves it in order.
LEMMA SellLeft ==
  ASSUME AccountsInv, AccountsInv', NEW i \in Sells, SellOK(i), hub'.order[i] = hub.order[i],
         Delivered(i)' <=> Delivered(i), topUps[i] <= topUps'[i], CredFor(i) <= CredFor(i)'
  PROVE  SellOK(i)'
<1>1. i \in Ids  BY SellLane
<1>2. PICK o : o = hub.order[i]  OBVIOUS
<1>3. o \in HubOrder  BY <1>1, <1>2 DEF AccountsInv, SharesInv, LayerInv, BooksOK, IsHub
<1>4. PICK told \in BOOLEAN : told <=> Delivered(i)  OBVIOUS
<1>5. PICK top, cred, top1, cred1 :
        top = topUps[i] /\ cred = CredFor(i) /\ top1 = topUps'[i] /\ cred1 = CredFor(i)'
  OBVIOUS
<1>6. CredsOK /\ CredsOK'  BY CredIs, PTL
<1>7. top \in Nat /\ cred \in Nat /\ top1 \in Nat /\ cred1 \in Nat  BY <1>1, <1>5, <1>6 DEF CredsOK
<1>8. SellInv(o, told, top, cred)
  BY <1>2, <1>4, <1>5 DEF SellOK, SellInv, SellShape, SellTold, SellRoom
<1>9. SellInv(o, told, top1, cred1)  BY <1>3, <1>5, <1>7, <1>8, SellWaits
<1> QED  BY <1>2, <1>4, <1>5, <1>9, SellNext

\* Money that was returned or given arrives.
LEMMA SellGains ==
  ASSUME AccountsInv, AccountsInv', NEW i \in Sells, SellOK(i), hub'.order[i] \in HubOrder,
         Delivered(i)' <=> Delivered(i), topUps[i] <= topUps'[i], CredFor(i) <= CredFor(i)',
         NEW amount \in Nat, Arrives(i, hub'.order[i], hub.order[i], amount),
         topUps[i] + CredFor(i) + amount <= topUps'[i] + CredFor(i)'
  PROVE  SellOK(i)'
<1>1. i \in Ids  BY SellLane
<1>2. PICK o, p : o = hub.order[i] /\ p = hub'.order[i]  OBVIOUS
<1>3. o \in HubOrder /\ p \in HubOrder
  BY <1>1, <1>2 DEF AccountsInv, SharesInv, LayerInv, BooksOK, IsHub
<1>4. PICK told \in BOOLEAN : told <=> Delivered(i)  OBVIOUS
<1>5. PICK top, cred, top1, cred1 :
        top = topUps[i] /\ cred = CredFor(i) /\ top1 = topUps'[i] /\ cred1 = CredFor(i)'
  OBVIOUS
<1>6. CredsOK /\ CredsOK'  BY CredIs, PTL
<1>7. top \in Nat /\ cred \in Nat /\ top1 \in Nat /\ cred1 \in Nat  BY <1>1, <1>5, <1>6 DEF CredsOK
<1>8. SellInv(o, told, top, cred)
  BY <1>2, <1>4, <1>5 DEF SellOK, SellInv, SellShape, SellTold, SellRoom
<1>9. /\ top <= top1 /\ cred <= cred1 /\ top + cred + amount <= top1 + cred1
      /\ Arrives(i, p, o, amount) /\ amount \in Nat /\ i \in Sells /\ told \in BOOLEAN
  BY <1>2, <1>5
<1>10. SellInv(p, told, top1, cred1)
  BY ONLY <1>3, <1>7, <1>8, <1>9, SellArrives, SMTT(40)
<1> QED  BY <1>2, <1>4, <1>5, <1>10, SellNext

\* A step of the hub about the order.
LEMMA SellActs ==
  ASSUME AccountsInv, AccountsInv', NEW i \in Sells, SellOK(i), hub'.order[i] \in HubOrder,
         HubActs(i)
  PROVE  SellOK(i)'
<1>1. i \in Ids /\ i \notin Buys  BY SellLane
<1>2. PICK o, p : o = hub.order[i] /\ p = hub'.order[i]  OBVIOUS
<1>3. o \in HubOrder /\ p \in HubOrder
  BY <1>1, <1>2 DEF AccountsInv, SharesInv, LayerInv, BooksOK, IsHub
<1>4. PICK told \in BOOLEAN : told <=> Delivered(i)  OBVIOUS
<1>5. PICK top, cred : top = topUps[i] /\ cred = CredFor(i)  OBVIOUS
<1>6. top \in Nat /\ cred \in Nat  BY <1>1, <1>5, CredIs DEF CredsOK
<1>7. SellInv(o, told, top, cred)
  BY <1>2, <1>4, <1>5 DEF SellOK, SellInv, SellShape, SellTold, SellRoom
<1>8. topUps'[i] = top /\ CredFor(i)' = cred
  <2>1. RoutesOK /\ returnsSent' = returnsSent /\ credited' = credited
    BY DEF HubActs, routeVars, vaultVars, liabilityVars, logVars, historyVars, AccountsInv
  <2>2. CredFor(i)' = CredFor(i)  BY <2>1, CredStays
  <2> QED  BY <1>5, <2>2 DEF HubActs, giftVars
<1>9. ASSUME SellInv(p, told, top, cred), Delivered(i)' <=> Delivered(i)  PROVE SellOK(i)'
  BY <1>2, <1>4, <1>8, <1>9, SellNext
<1>10. SellNat(o) /\ SellNat(p)  BY <1>3, SellNumbers DEF SellNat
<1>11. SellShape(o)  BY <1>7 DEF SellInv
<1>12. told \in BOOLEAN /\ i \in Sells  OBVIOUS
<1>13. CASE Handled(i, p, o) /\ SameDelivered
  <2>1. SellMoves(p, o)  BY ONLY <1>3, <1>11, <1>12, <1>13, SellHandled, SMTT(40)
  <2>2. SellInv(p, told, top, cred)  BY <1>6, <1>7, <1>10, <2>1, SellKept
  <2> QED  BY <1>1, <1>9, <1>13, <2>2 DEF SameDelivered
<1>14. CASE EscalatedNow(i, p, o) /\ deliversSent' = deliversSent \cup {Delivery(i, 0, "Settlement")}
  <2>1. o.status \in {"Returning", "Proceeds"} /\ Taken(i, p, o)  BY <1>1, <1>14 DEF EscalatedNow
  <2>2. o.outcome = 2 /\ o.outcome # 0 /\ ~o.advanced  BY <1>11, <2>1 DEF SellShape
  <2>3. SellRecord(o)  BY <1>3, SellNumbers DEF SellRecord
  <2>4. SellMoves(p, o)  BY ONLY <1>12, <2>1, <2>2, <2>3, SellTaken, SMTT(40)
  <2>5. SellInv(p, TRUE, top, cred)
    <3>1. /\ SellInv(p, told, top, cred)
          /\ o.outcome # 0 /\ ~o.advanced => SellInv(p, TRUE, top, cred)
      BY <1>6, <1>7, <1>10, <2>4, SellKept
    <3> QED  BY Zenon, <2>2, <3>1
  <2>6. Delivered(i)'
    <3>1. Delivery(i, 0, "Settlement").ref = i /\ Delivery(i, 0, "Settlement").shares = 0
      BY DEF Delivery
    <3> QED  BY <1>14, <3>1 DEF Delivered
  <2> QED  BY <1>2, <1>8, <2>5, <2>6, SellNext
<1>15. ASSUME NEW n \in ResultOf(i), Answered(i, p, o, results[n]), NothingSent
       PROVE  SellOK(i)'
  <2>1. PICK r : r = results[n]  OBVIOUS
  <2>2. r.amountOut \in Nat
    BY <2>1 DEF AccountsInv, SharesInv, LayerInv, LogOK, WellFormed, ResultType, ResultOf
  <2>3. Answered(i, p, o, r)  BY <1>15, <2>1
  <2>4. SellInv(p, told, top, cred)
    BY ONLY <1>3, <1>6, <1>7, <1>12, <2>2, <2>3, SellAnswered, SMTT(40)
  <2>5. Delivered(i)' <=> Delivered(i)  BY <1>15 DEF NothingSent, Delivered
  <2> QED  BY <1>9, <2>4, <2>5
<1> QED  BY <1>1, <1>2, <1>13, <1>14, <1>15 DEF HubActs, Acted, LaunchedNow

\* Money that is given, to a sell or for its reserve.
LEMMA SellGift ==
  ASSUME AccountsInv, AccountsInv', NEW i \in Sells, SellOK(i), hub'.order[i] \in HubOrder,
         NEW amount \in Nat, GiftStep(i, amount)
  PROVE  SellOK(i)'
<1>1. i \in Ids  BY SellLane
<1>2. topUps'[i] = topUps[i] + amount /\ topUps[i] \in Nat
  BY <1>1 DEF GiftStep, AccountsInv, RoutesOK
<1>3. Delivered(i)' <=> Delivered(i)  BY DEF GiftStep, Given, NothingSent, Delivered
<1>4. CredFor(i)' = CredFor(i) /\ CredFor(i) \in Nat
  <2>1. RoutesOK /\ returnsSent' = returnsSent /\ credited' = credited
    BY DEF GiftStep, routeVars, vaultVars, liabilityVars, logVars, historyVars, AccountsInv
  <2> QED  BY <1>1, <2>1, CredStays, CredIs DEF CredsOK
<1>5. CASE Arrives(i, hub'.order[i], hub.order[i], amount)
  <2>1. /\ topUps[i] <= topUps'[i] /\ CredFor(i) <= CredFor(i)'
        /\ topUps[i] + CredFor(i) + amount <= topUps'[i] + CredFor(i)'
    BY <1>2, <1>4
  <2> QED  BY <1>3, <1>5, <2>1, SellGains
<1>6. CASE Topped(i, hub'.order[i], hub.order[i], amount)
  <2>1. PICK o, p : o = hub.order[i] /\ p = hub'.order[i]  OBVIOUS
  <2>2. o \in HubOrder /\ p \in HubOrder
    BY <1>1, <2>1 DEF AccountsInv, SharesInv, LayerInv, BooksOK, IsHub
  <2>3. PICK told \in BOOLEAN : told <=> Delivered(i)  OBVIOUS
  <2>4. PICK top, cred : top = topUps[i] /\ cred = CredFor(i)  OBVIOUS
  <2>5. SellInv(o, told, top, cred)
    BY <2>1, <2>3, <2>4 DEF SellOK, SellInv, SellShape, SellTold, SellRoom
  <2>6. /\ top \in Nat /\ cred \in Nat /\ told \in BOOLEAN /\ i \in Sells /\ amount \in Nat
        /\ Topped(i, p, o, amount)
    BY <1>2, <1>4, <1>6, <2>1, <2>4
  <2>7. SellInv(p, told, top + amount, cred)
    BY ONLY <2>2, <2>5, <2>6, SellToppedUp, SMTT(40)
  <2>8. top + amount = topUps'[i] /\ cred = CredFor(i)' /\ (told <=> Delivered(i)')
    BY <1>2, <1>3, <1>4, <2>3, <2>4
  <2> QED  BY <2>1, <2>7, <2>8, SellNext
<1> QED  BY <1>5, <1>6 DEF GiftStep, Given

\* What the vault returned comes in.
LEMMA SellCredit ==
  ASSUME AccountsInv, AccountsInv', NEW i \in Sells, SellOK(i), hub'.order[i] \in HubOrder,
         NEW cost \in Costs, NEW t \in returnsSent, CreditStep(t, cost), t.ref = i
  PROVE  SellOK(i)'
<1>1. i \in Ids /\ cost \in Nat  BY SellLane, LayerAssumption
<1>2. /\ t \notin credited /\ t.amount > cost /\ credited' = credited \cup {t}
      /\ returnsSent' = returnsSent /\ topUps' = topUps /\ NothingSent
      /\ Arrives(i, hub'.order[i], hub.order[i], t.amount - cost)
  BY DEF CreditStep, Arrived, giftVars, vaultVars, liabilityVars, logVars, historyVars
<1>3. CredFor(i)' = CredFor(i) + t.amount /\ t.amount \in Nat  BY <1>1, <1>2, CredGrows
<1>4. CredFor(i) \in Nat /\ topUps[i] \in Nat  BY <1>1, CredIs DEF CredsOK
<1>5. PICK amount : amount = t.amount - cost  OBVIOUS
<1>6. amount \in Nat /\ amount <= t.amount  BY <1>1, <1>2, <1>3, <1>5
<1>7. /\ topUps[i] <= topUps'[i] /\ CredFor(i) <= CredFor(i)'
      /\ topUps[i] + CredFor(i) + amount <= topUps'[i] + CredFor(i)'
  BY <1>2, <1>3, <1>4, <1>6
<1>8. Delivered(i)' <=> Delivered(i)  BY <1>2 DEF NothingSent, Delivered
<1>9. Arrives(i, hub'.order[i], hub.order[i], amount)  BY <1>2, <1>5
<1> QED  BY <1>6, <1>7, <1>8, <1>9, SellGains

-----------------------------------------------------------------------------
(* Every step of the layer, for the sells.                                 *)

\* Every step of the layer keeps what holds of the sells.
LEMMA SellStep ==
  ASSUME MoneyInv, LayerNext, AccountsInv'
  PROVE  \A i \in Sells : SellOK(i)'
<1>1. AccountsInv /\ LayerInv /\ VaultTypeOK /\ MessagesOK /\ RequestsOK /\ RoutesOK /\ MoneyStep
  BY LayerMoney DEF MoneyInv, PublicInv, AccountsInv, SharesInv, LayerInv
<1> SUFFICES ASSUME NEW i \in Sells  PROVE SellOK(i)'
  OBVIOUS
<1>2. i \in Ids /\ i \in Refs /\ i \notin Buys /\ SellOK(i)  BY SellLane DEF MoneyInv
<1>3. hub'.order[i] \in HubOrder
  BY <1>2 DEF AccountsInv, SharesInv, LayerInv, BooksOK, IsHub
<1>4. topUps[i] \in Nat /\ CredFor(i) \in Nat  BY <1>1, <1>2, CredIs DEF CredsOK
<1>5. ASSUME hub'.order[i] = hub.order[i], topUps'[i] = topUps[i], CredFor(i)' = CredFor(i),
             Delivered(i)' <=> Delivered(i)
      PROVE  SellOK(i)'
  BY <1>1, <1>2, <1>4, <1>5, SellLeft
<1>6. ASSUME UNCHANGED vaultVars, ReturnsOf(i) \cap credited' = ReturnsOf(i) \cap credited
      PROVE  CredFor(i)' = CredFor(i)
  BY <1>1, <1>6, CredStays DEF vaultVars, liabilityVars, logVars, historyVars
<1>7. ASSUME NothingSent  PROVE Delivered(i)' <=> Delivered(i)
  BY <1>7 DEF NothingSent, Delivered
<1>8. CASE IdleStep  BY <1>5, <1>6, <1>7, <1>8 DEF IdleStep, routeVars, giftVars
<1>9. ASSUME NEW j \in Ids, j # i, HubActs(j)  PROVE SellOK(i)'
  <2>1. Delivered(i)' <=> Delivered(i)
    <3>1. CASE NothingSent  BY <1>7, <3>1
    <3>2. CASE SameDelivered  BY <1>2, <3>2 DEF SameDelivered
    <3>3. CASE deliversSent' = deliversSent \cup {Delivery(j, 0, "Settlement")}
      <4>1. Delivery(j, 0, "Settlement").ref # i  BY <1>9 DEF Delivery
      <4> QED  BY <3>3, <4>1 DEF Delivered
    <3> QED  BY <1>9, <3>1, <3>2, <3>3 DEF HubActs, Acted
  <2>2. hub'.order[i] = hub.order[i]  BY <1>2, <1>9 DEF HubActs, OnlyOrder
  <2> QED  BY <1>5, <1>6, <1>9, <2>1, <2>2 DEF HubActs, routeVars, giftVars
<1>10. CASE HubActs(i)  BY <1>1, <1>2, <1>3, <1>10, SellActs
<1>11. ASSUME NEW j \in Ids, NEW cost \in Costs, BounceStep(j, cost)  PROVE SellOK(i)'
  <2>1. j # i  BY <1>1, <1>2, <1>11 DEF BounceStep, LayerInv, SentOK
  <2>2. hub'.order[i] = hub.order[i] /\ NothingSent
    BY <1>2, <1>11, <2>1 DEF BounceStep, Arrived, OnlyOrder
  <2> QED  BY <1>5, <1>6, <1>7, <1>11, <2>2 DEF BounceStep, giftVars
<1>12. ASSUME NEW t \in returnsSent, NEW cost \in Costs, CreditStep(t, cost)
       PROVE  SellOK(i)'
  <2>1. CASE t.ref = i  BY <1>1, <1>2, <1>3, <1>12, <2>1, SellCredit
  <2>2. CASE t.ref # i
    <3>1. hub'.order[i] = hub.order[i] /\ NothingSent
      BY <1>2, <1>12, <2>2 DEF CreditStep, Arrived, OnlyOrder
    <3>2. ReturnsOf(i) \cap credited' = ReturnsOf(i) \cap credited
      BY <1>12, <2>2 DEF CreditStep, ReturnsOf
    <3> QED  BY <1>5, <1>6, <1>7, <1>12, <3>1, <3>2 DEF CreditStep, giftVars
  <2> QED  BY <2>1, <2>2
<1>13. ASSUME NEW j \in Ids, NEW amount \in Nat, GiftStep(j, amount)  PROVE SellOK(i)'
  <2>1. CASE j = i  BY <1>1, <1>2, <1>3, <1>13, <2>1, SellGift
  <2>2. CASE j # i
    <3>1. hub'.order[i] = hub.order[i] /\ NothingSent
      BY <1>2, <1>13, <2>2 DEF GiftStep, Given, OnlyOrder
    <3>2. topUps'[i] = topUps[i]
      BY <1>1, <1>2, <1>13, <2>2 DEF GiftStep, RoutesOK
    <3> QED  BY <1>5, <1>6, <1>7, <1>13, <3>1, <3>2 DEF GiftStep, routeVars
  <2> QED  BY <2>1, <2>2
<1>14. CASE VaultSideStep
  <2>1. returnsSent \subseteq returnsSent' /\ credited' = credited /\ topUps' = topUps
    <3>1. CASE VaultStep /\ UNCHANGED <<routeVars, giftVars>>
      BY <1>1, <3>1, ReturnsStay DEF VaultMoves, routeVars, giftVars
    <3>2. ASSUME NEW s \in Buys, Fill(s)  PROVE returnsSent \subseteq returnsSent'
                                                 /\ credited' = credited /\ topUps' = topUps
      BY <3>2 DEF Fill, Fund, giftVars
    <3>3. ASSUME NEW s \in Refs, NEW amount \in FundAmounts, Donation(s, amount)
          PROVE  returnsSent \subseteq returnsSent' /\ credited' = credited /\ topUps' = topUps
      BY <3>3 DEF Donation, Fund, routeVars
    <3> QED  BY <1>14, <3>1, <3>2, <3>3 DEF VaultSideStep
  <2>2. CredFor(i)' = CredFor(i)  BY <1>1, <2>1, CredStays
  <2> QED  BY <1>5, <1>7, <1>14, <2>1, <2>2 DEF VaultSideStep
<1> QED  BY <1>1, <1>8, <1>9, <1>10, <1>11, <1>12, <1>13, <1>14 DEF MoneyStep

\* At the start nothing was given, paid or returned.
LEMMA SellStart == LayerInit => MoneyInv
<1> SUFFICES ASSUME LayerInit  PROVE MoneyInv  OBVIOUS
<1>1. PublicInv /\ AccountsInv  BY PublicStart, AccountsStart
<1>2. ASSUME NEW i \in Sells  PROVE SellOK(i)
  <2>1. i \in Ids  BY SellLane
  <2>2. hub.order[i] = NoOrder /\ deliversSent = {} /\ topUps[i] = 0
    BY <2>1 DEF LayerInit, HubInit
  <2>3. ~Delivered(i)  BY <2>2 DEF Delivered
  <2>4. CredFor(i) \in Nat  BY <1>1, <2>1, CredIs DEF CredsOK
  <2>5. /\ NoOrder.status = "None" /\ NoOrder.outcome = 0 /\ NoOrder.extra = 0
        /\ NoOrder.held = 0 /\ NoOrder.owed = 0 /\ NoOrder.paid = 0 /\ NoOrder.shares = 0
        /\ NoOrder.rawOut = 0 /\ NoOrder.advanced = FALSE
    BY DEF NoOrder
  <2> QED
    BY <2>2, <2>3, <2>4, <2>5
    DEF SellOK, SellInv, SellShape, SellTold, SellRoom, SellWorth, HadOf
<1> QED  BY <1>1, <1>2 DEF MoneyInv

\* In every behaviour of the layer, the accounts and every order that pays a user keep
\* their invariant.
THEOREM MoneyInvHolds == LayerSpec => []MoneyInv
<1>1. ASSUME MoneyInv, PublicInv', [LayerNext]_layerVars
      PROVE  MoneyInv'
  <2>1. AccountsInv /\ AccountsInv'  BY <1>1 DEF MoneyInv, PublicInv
  <2>2. CASE LayerNext  BY <1>1, <2>1, <2>2, SellStep DEF MoneyInv
  <2>3. CASE UNCHANGED layerVars
    <3>1. ASSUME NEW i \in Sells  PROVE SellOK(i)'
      <4>1. i \in Ids /\ SellOK(i)  BY <1>1, SellLane DEF MoneyInv
      <4>2. hub'.order[i] = hub.order[i] /\ topUps'[i] = topUps[i] /\ RoutesOK
            /\ returnsSent' = returnsSent /\ credited' = credited /\ (Delivered(i)' <=> Delivered(i))
        BY <2>1, <2>3
        DEF AccountsInv, Delivered, layerVars, hubVars, sentVars, routeVars, giftVars, vaultVars,
            liabilityVars, logVars, historyVars
      <4>3. CredFor(i)' = CredFor(i)  BY <4>2, CredStays
      <4>4. topUps[i] \in Nat /\ CredFor(i) \in Nat  BY <2>1, <4>1, CredIs DEF CredsOK
      <4> QED  BY <2>1, <4>1, <4>2, <4>3, <4>4, SellLeft
    <3> QED  BY <1>1, <3>1 DEF MoneyInv
  <2> QED  BY <1>1, <2>2, <2>3
<1> QED  BY <1>1, SellStart, PublicInvHolds, PTL DEF LayerSpec

-----------------------------------------------------------------------------
(* What the user of a sell has received, at most.                          *)

\* Neither side's float pays a seller twice, and one whose shares came back has no sale.
LEMMA SellersPaidOnce ==
  ASSUME MoneyInv, NEW i \in Sells
  PROVE  /\ Received(i) <= topUps[i] + paidIn[i]
         /\ Order(i).shares > 0 => Received(i) <= Gifts(i) /\ ~SoldOnVault(i)
<1>1. PICK o : o = hub.order[i]  OBVIOUS
<1>2. PICK a : a = Account(i)  OBVIOUS
<1>3. AccountsInv /\ i \in Ids /\ i \in Refs  BY SellLane DEF MoneyInv, PublicInv
<1>4. o \in HubOrder  BY <1>1, <1>3 DEF AccountsInv, SharesInv, LayerInv, BooksOK, IsHub
<1>5. /\ HadOf(o) \in Nat /\ SellWorth(o) \in Nat /\ o.rawOut \in Nat /\ o.shares \in Nat
      /\ o.extra \in Nat /\ o.held \in Nat
  BY <1>4, SellNumbers
<1>6. HadOf(o) <= SellWorth(o)  BY <1>5 DEF SellWorth
<1>7. Received(i) = HadOf(o) + UsdOf(a)  BY <1>1, <1>2, <1>3, ReceivedIs
<1>8. PICK cred, left, top, given :
        cred = CredFor(i) /\ left = UsdOf(a) /\ top = topUps[i] /\ given = donated[i]
  OBVIOUS
<1>9. /\ AccountOK(i, a) /\ CameIn(i, a) /\ a.in = paidIn[i] /\ a.log = LogOf(i)
      /\ SaleIn(a) <=> SoldOnVault(i)
  BY <1>2, <1>3, UsdIsLeft DEF Account
<1>10. a.adv = 0 /\ SpentOf(a) = 0  BY <1>9 DEF AccountOK, SideOf, SpentOf
<1>11. /\ a.in \in Nat /\ cred \in Nat /\ left \in Nat /\ left + cred <= a.in
  <2>1. /\ a.in \in Nat /\ cred \in Nat /\ left \in Nat
        /\ left + cred + SpentOf(a) <= a.in + a.adv
    BY <1>2, <1>3, <1>8, UsdAtMost
  <2> QED  BY <1>10, <2>1
<1>12. top \in Nat /\ given \in Nat /\ Gifts(i) = top + given
  BY <1>3, <1>8 DEF AccountsInv, RoutesOK, Gifts
<1>13. SellShape(o) /\ SellTold(o, Delivered(i)) /\ SellRoom(o, top, cred)
  BY <1>1, <1>8 DEF MoneyInv, SellOK, SellInv
<1>14. ~o.advanced => HadOf(o) + left <= top + a.in
  BY <1>5, <1>6, <1>11, <1>12, <1>13 DEF SellRoom
<1>15. ASSUME o.advanced  PROVE HadOf(o) + left <= top + a.in
  <2>1. o.outcome = 2 /\ o.rawOut # 0 /\ ~Delivered(i)  BY <1>13, <1>15 DEF SellShape, SellTold
  <2>2. PICK n \in ResultOf(i) : Matches(i, results[n])
    BY <1>1, <1>3, <2>1 DEF AccountsInv, SharesInv, LayerInv, HubAgreesWithVault, Order
  <2>3. PICK e : e = results[n]  OBVIOUS
  <2>4. e.outcome = "Sold" /\ e.amountOut = o.rawOut /\ e \in a.log
    <3>1. e.outcome \in {"Bought", "Sold", "Failed"}
      BY <1>3, <2>2, <2>3 DEF AccountsInv, SharesInv, LayerInv, LogOK, WellFormed, ResultType, ResultOf
    <3> QED  BY <1>1, <1>9, <2>1, <2>2, <2>3, <3>1 DEF Matches, Order, LogOf
  <2>5. \A f \in a.log : f = e  BY <1>9, <2>4 DEF AccountOK, SettledOnce
  <2>6. left = 0
    BY <1>8, <1>9, <2>1, <2>4, <2>5 DEF AccountOK, RecipientOf
  <2>7. a.in >= given + o.rawOut
    BY <1>8, <1>9, <2>4 DEF CameIn, SaleIn
  <2> QED  BY <1>5, <1>6, <1>11, <1>12, <1>13, <1>15, <2>6, <2>7 DEF SellRoom
<1>16. ASSUME o.shares > 0  PROVE HadOf(o) + left <= top + given /\ ~SoldOnVault(i)
  <2>1. o.outcome = 3 /\ ~o.advanced  BY <1>13, <1>16 DEF SellShape
  <2>2. ~SaleIn(a)  BY <1>1, <1>2, <1>3, <2>1, FailedIsNotBought
  <2>3. a.in = given  BY <1>8, <1>9, <2>2 DEF CameIn
  <2> QED  BY <1>9, <1>14, <2>1, <2>2, <2>3
<1> QED  BY <1>1, <1>7, <1>8, <1>9, <1>12, <1>14, <1>15, <1>16 DEF Order

\* PaidOnce (requestCancel, _settleBuy, _settleSell, _payHeldProceeds, escalateFunds and _pay
\* of the hub; _deliver, returnFunds and execute of the vault): whichever of the two floats
\* advanced an order and whichever lanes answered it, nobody is paid twice for it, and no
\* buyer has the stock and the principal.
THEOREM UsersArePaidOnce == LayerSpec => []PaidOnce
<1>1. MoneyInv => PaidOnce
  <2> SUFFICES ASSUME MoneyInv  PROVE PaidOnce  OBVIOUS
  <2>1. PublicInv  BY DEF MoneyInv
  <2> QED  BY <2>1, BuyersPaidOnce, SellersPaidOnce DEF PaidOnce
<1> QED  BY <1>1, MoneyInvHolds, PTL

=============================================================================
