--------------------------- MODULE CapacityProofs ---------------------------
(***************************************************************************)
(* What TLAPS proves of CapacityController for every set of keys, assets,  *)
(* amounts and limits: exposure only grows within the caps in force,       *)
(* redeeming strands no USD basis, and every counter is the sum of its     *)
(* tickets (the sums are those of SumLemmas).                              *)
(*                                                                         *)
(* And of the launch queues in front of that capacity (OrderScheduler),    *)
(* for every set of orders, scan bound and public run: no waiting order is *)
(* lost, a ready reward order is not passed beyond its turn, and public    *)
(* orders go in the order they came.                                       *)
(***************************************************************************)
EXTENDS OrderScheduler, SumLemmas

-----------------------------------------------------------------------------
(* The inductive invariant.                                                *)

Live == {"Reserved", "Issued", "Redeeming"}

\* A ticket that counts names its asset.
IsTicket(t) ==
  /\ t \in [state : TicketStates, lane : {0, 1}, sent : BOOLEAN, unreviewed : BOOLEAN,
            asset : {t.asset}, usd : Nat, raw : Nat]
  /\ t.state \in Live => t.asset \in Assets

\* The counters are integers; what is issued of an asset is not negative.
CountersOK ==
  /\ book.inflight \in Int /\ book.issued \in Int /\ book.redeeming \in Int
  /\ book.unreviewed \in Int /\ book.unreviewedReward \in Int
  /\ book.issuedRaw \in [Assets -> Nat] /\ book.issuedOf \in [Assets -> Nat]
  /\ book.inflightOf \in [Assets -> Int] /\ book.redeemingOf \in [Assets -> Int]

IsBook(b) ==
  b = [tickets |-> b.tickets, inflight |-> b.inflight, issued |-> b.issued,
       redeeming |-> b.redeeming, unreviewed |-> b.unreviewed,
       unreviewedReward |-> b.unreviewedReward, issuedRaw |-> b.issuedRaw,
       issuedOf |-> b.issuedOf, inflightOf |-> b.inflightOf, redeemingOf |-> b.redeemingOf]

BookOK ==
  /\ IsBook(book) /\ CountersOK
  /\ book.tickets = [k \in Keys |-> book.tickets[k]]
  /\ \A k \in Keys : IsTicket(book.tickets[k])

\* A redemption that takes no shares takes no dollars, of an asset without a shareless issue.
RedeemsBoth ==
  \A k \in Keys :
    LET t == book.tickets[k]
    IN t.state = "Redeeming" /\ t.raw = 0 => t.usd = 0 \/ t.asset \in SharelessAssets

BasisInv == NoStrandedBasis /\ RedeemsBoth

-----------------------------------------------------------------------------
(* The basis of shares.                                                    *)

\* Rounding a share of a basis up gives a natural number.
LEMMA ShareOfBasis ==
  ASSUME NEW basis \in Nat, NEW raw \in Nat, NEW total \in Nat, raw < total
  PROVE  (basis * raw + total - 1) \div total \in Nat
<1> DEFINE n == basis * raw
<1>1. n \in Nat  OBVIOUS
<1> HIDE DEF n
<1>2. n + total - 1 \in Nat /\ total \in Nat \ {0}  BY <1>1
<1>3. \A m \in Nat, d \in Nat \ {0} : m \div d \in Nat  OBVIOUS
<1>4. (n + total - 1) \div total \in Nat  BY <1>2, <1>3
<1> QED  BY <1>4 DEF n

\* A redemption takes no more than there is, and all of it with the last shares.
LEMMA BasisBounds ==
  ASSUME BookOK, NEW a \in Assets, NEW raw \in Nat
  PROVE  /\ BasisOf(book, a, raw) \in Nat
         /\ BasisOf(book, a, raw) <= book.issuedOf[a]
         /\ raw >= book.issuedRaw[a] => BasisOf(book, a, raw) = book.issuedOf[a]
<1>1. book.issuedRaw[a] \in Nat /\ book.issuedOf[a] \in Nat
  BY DEF BookOK, CountersOK
<1>2. CASE raw >= book.issuedRaw[a]
  BY <1>1, <1>2 DEF BasisOf
<1>3. CASE ~(raw >= book.issuedRaw[a])
  <2> DEFINE usd == (book.issuedOf[a] * raw + book.issuedRaw[a] - 1) \div book.issuedRaw[a]
  <2>1. usd \in Nat  BY <1>1, <1>3, ShareOfBasis
  <2>2. BasisOf(book, a, raw) = IF usd > book.issuedOf[a] THEN book.issuedOf[a] ELSE usd
    BY <1>3 DEF BasisOf
  <2> HIDE DEF usd
  <2> QED  BY <1>1, <1>3, <2>1, <2>2
<1> QED  BY <1>2, <1>3

-----------------------------------------------------------------------------
(* The entry points.                                                       *)

\* The exposure of no asset, nor the total, has grown.
NoGrowth ==
  /\ Exposure(book') <= Exposure(book)
  /\ \A a \in Assets : AssetExposure(book', a) <= AssetExposure(book, a)

\* One ticket changes; the counters are looked at apart.
LEMMA TicketChanges ==
  ASSUME BookOK, NEW k \in Keys, NEW t, IsTicket(t), IsBook(book'), CountersOK',
         book'.tickets = [book.tickets EXCEPT ![k] = t]
  PROVE  /\ BookOK' /\ book'.tickets[k] = t
         /\ \A j \in Keys : j # k => book'.tickets[j] = book.tickets[j]
BY DEF BookOK

\* A reservation adds its amount, once.
LEMMA ReserveAdds ==
  ASSUME BookOK, NEW k \in Keys, NEW lane \in {0, 1}, NEW a \in Assets, NEW usd \in Nat,
         book' = Reserved(book, k, lane, a, usd)
  PROVE  /\ BookOK'
         /\ Exposure(book') = Exposure(book) + usd
         /\ \A x \in Assets :
              AssetExposure(book', x) = AssetExposure(book, x) + (IF x = a THEN usd ELSE 0)
         /\ book'.issuedRaw = book.issuedRaw /\ book'.issuedOf = book.issuedOf
         /\ \A j \in Keys : j # k => book'.tickets[j] = book.tickets[j]
         /\ book'.tickets[k].state = "Reserved"
<1> DEFINE t == [state |-> "Reserved", lane |-> lane, sent |-> FALSE, unreviewed |-> TRUE,
                 asset |-> a, usd |-> usd, raw |-> 0]
<1>1. CountersOK /\ IsBook(book)  BY DEF BookOK
<1>2. /\ book'.tickets = [book.tickets EXCEPT ![k] = t]
      /\ book'.inflight = book.inflight + usd
      /\ book'.issued = book.issued /\ book'.redeeming = book.redeeming
      /\ book'.unreviewed = book.unreviewed + usd
      /\ book'.unreviewedReward =
           IF lane = 1 THEN book.unreviewedReward + usd ELSE book.unreviewedReward
      /\ book'.issuedRaw = book.issuedRaw /\ book'.issuedOf = book.issuedOf
      /\ book'.inflightOf = [book.inflightOf EXCEPT ![a] = @ + usd]
      /\ book'.redeemingOf = book.redeemingOf
      /\ IsBook(book')
  BY <1>1 DEF IsBook, Reserved, AddUnreviewed
<1>3. CountersOK'  BY <1>1, <1>2 DEF CountersOK
<1>4. IsTicket(t)  BY DEF IsTicket, TicketStates
<1>5. /\ BookOK' /\ book'.tickets[k] = t
      /\ \A j \in Keys : j # k => book'.tickets[j] = book.tickets[j]
  BY <1>2, <1>3, <1>4, TicketChanges
<1>6. Exposure(book') = Exposure(book) + usd
  BY <1>1, <1>2 DEF CountersOK, Exposure
<1>7. \A x \in Assets :
        AssetExposure(book', x) = AssetExposure(book, x) + (IF x = a THEN usd ELSE 0)
  BY <1>1, <1>2 DEF CountersOK, AssetExposure
<1> QED  BY <1>2, <1>5, <1>6, <1>7

\* An entry point called on one key: the book stays a book, no exposure grows, and no
\* basis is stranded.
StepOK == BookOK' /\ NoGrowth /\ (BasisInv => BasisInv')

\* An issued ticket stays what it is.
KeepsIssue(k) ==
  book.tickets[k].state = "Issued" =>
    /\ book'.tickets[k].state = "Issued"
    /\ book'.tickets[k].asset = book.tickets[k].asset
    /\ book'.tickets[k].raw = book.tickets[k].raw

\* A shareless issue stays one.
LEMMA SharelessStays ==
  ASSUME NEW k \in Keys, \A j \in Keys : j # k => book'.tickets[j] = book.tickets[j],
         KeepsIssue(k)
  PROVE  SharelessAssets \subseteq SharelessAssets'
BY DEF SharelessAssets, InState, KeepsIssue

\* Where neither what is issued nor a redemption changes, no basis is stranded.
LEMMA BasisStays ==
  ASSUME NEW k \in Keys,
         book'.issuedRaw = book.issuedRaw, book'.issuedOf = book.issuedOf,
         \A j \in Keys : j # k => book'.tickets[j] = book.tickets[j],
         KeepsIssue(k),
         book'.tickets[k].state # "Redeeming" \/ book'.tickets[k] = book.tickets[k]
  PROVE  BasisInv => BasisInv'
<1> SUFFICES ASSUME BasisInv PROVE BasisInv'  OBVIOUS
<1>1. SharelessAssets \subseteq SharelessAssets'  BY SharelessStays
<1>2. NoStrandedBasis'  BY <1>1 DEF BasisInv, NoStrandedBasis
<1>3. ASSUME NEW j \in Keys, book'.tickets[j].state = "Redeeming", book'.tickets[j].raw = 0
      PROVE  book'.tickets[j].usd = 0 \/ book'.tickets[j].asset \in SharelessAssets'
  <2>1. book'.tickets[j] = book.tickets[j]  BY <1>3
  <2>2. book.tickets[j].usd = 0 \/ book.tickets[j].asset \in SharelessAssets
    BY <1>3, <2>1 DEF BasisInv, RedeemsBoth
  <2> QED  BY <1>1, <2>1, <2>2
<1> QED  BY <1>2, <1>3 DEF BasisInv, RedeemsBoth

\* Marking a reservation as sent moves no counter.
LEMMA SentSteps ==
  ASSUME BookOK, NEW k \in Keys, book.tickets[k].state = "Reserved", book' = SentMarked(book, k)
  PROVE  StepOK
<1> DEFINE t == [book.tickets[k] EXCEPT !.sent = TRUE]
<1>1. CountersOK /\ IsBook(book) /\ IsTicket(book.tickets[k])  BY DEF BookOK
<1>2. /\ book'.tickets = [book.tickets EXCEPT ![k] = t] /\ IsBook(book')
      /\ book' = [book EXCEPT !.tickets = book'.tickets]
  BY <1>1 DEF IsBook, SentMarked
<1>3. /\ book'.inflight = book.inflight /\ book'.issued = book.issued
      /\ book'.redeeming = book.redeeming /\ book'.unreviewed = book.unreviewed
      /\ book'.unreviewedReward = book.unreviewedReward /\ book'.issuedRaw = book.issuedRaw
      /\ book'.issuedOf = book.issuedOf /\ book'.inflightOf = book.inflightOf
      /\ book'.redeemingOf = book.redeemingOf
  BY <1>1 DEF IsBook, SentMarked
<1>4. IsTicket(t) /\ t.state = "Reserved"  BY <1>1 DEF IsTicket
<1>5. CountersOK'  BY <1>1, <1>3 DEF CountersOK
<1> HIDE DEF t
<1>6. /\ BookOK' /\ book'.tickets[k] = t
      /\ \A j \in Keys : j # k => book'.tickets[j] = book.tickets[j]
  BY <1>2, <1>4, <1>5, TicketChanges
<1>7. NoGrowth  BY <1>1, <1>3 DEF NoGrowth, Exposure, AssetExposure, CountersOK
<1>8. KeepsIssue(k)  BY DEF KeepsIssue
<1> QED  BY <1>3, <1>4, <1>6, <1>7, <1>8, BasisStays DEF StepOK

\* A reservation that is dropped takes its amount with it.
LEMMA DropSteps ==
  ASSUME BookOK, NEW k \in Keys, book.tickets[k].state = "Reserved", NEW unsent \in BOOLEAN,
         book' = Dropped(book, k, unsent)
  PROVE  StepOK
<1> DEFINE o == book.tickets[k]
           t == IF unsent THEN NoTicket ELSE [o EXCEPT !.state = "Closed", !.unreviewed = FALSE]
           reviewed == IF o.unreviewed THEN o.usd ELSE 0
<1>1. CountersOK /\ IsBook(book) /\ IsTicket(o) /\ o.asset \in Assets /\ o.usd \in Nat
  BY DEF BookOK, IsTicket, Live
<1>2. /\ book'.tickets = [book.tickets EXCEPT ![k] = t] /\ IsBook(book')
      /\ book'.inflight = book.inflight - o.usd
      /\ book'.issued = book.issued /\ book'.redeeming = book.redeeming
      /\ book'.issuedRaw = book.issuedRaw /\ book'.issuedOf = book.issuedOf
      /\ book'.inflightOf = [book.inflightOf EXCEPT ![o.asset] = @ - o.usd]
      /\ book'.redeemingOf = book.redeemingOf
  BY ZenonT(30), <1>1 DEF IsBook, Dropped, SubUnreviewed
<1>3. /\ book'.unreviewed \in {book.unreviewed, book.unreviewed - o.usd}
      /\ book'.unreviewedReward \in {book.unreviewedReward, book.unreviewedReward - o.usd}
  BY <1>1 DEF IsBook, Dropped, SubUnreviewed
<1>4. IsTicket(t) /\ t.state # "Redeeming"
  BY <1>1 DEF IsTicket, TicketStates, NoTicket, Live
<1>5. CountersOK'  BY <1>1, <1>2, <1>3 DEF CountersOK
<1> HIDE DEF t
<1>6. /\ BookOK' /\ book'.tickets[k] = t
      /\ \A j \in Keys : j # k => book'.tickets[j] = book.tickets[j]
  BY <1>2, <1>4, <1>5, TicketChanges
<1>7. NoGrowth  BY <1>1, <1>2 DEF NoGrowth, Exposure, AssetExposure, CountersOK
<1>8. KeepsIssue(k)  BY DEF KeepsIssue
<1> QED  BY <1>2, <1>4, <1>6, <1>7, <1>8, BasisStays DEF StepOK

\* A step that leaves the book alone keeps all of it.
LEMMA NothingSteps ==
  ASSUME BookOK, book' = book
  PROVE  StepOK
BY DEF StepOK, BookOK, CountersOK, NoGrowth, Exposure, AssetExposure, BasisInv, NoStrandedBasis,
       RedeemsBoth, SharelessAssets, InState

\* An issue moves the reservation's amount to the same asset, with its shares.
LEMMA BuySteps ==
  ASSUME BookOK, NEW k \in Keys, NEW a \in Assets, NEW raw \in Raws,
         book.tickets[k].state = "Reserved" => book.tickets[k].asset = a,
         book' = BuyFinalized(book, k, a, raw)
  PROVE  StepOK
<1> DEFINE o == book.tickets[k]
           t == [o EXCEPT !.state = "Issued", !.asset = a, !.raw = raw]
<1>1. CountersOK /\ IsBook(book) /\ IsTicket(o) /\ o.usd \in Nat
  BY DEF BookOK, IsTicket
<1>2. book'.issuedRaw = [book.issuedRaw EXCEPT ![a] = @ + raw] /\ IsBook(book')
  BY <1>1 DEF IsBook, BuyFinalized
<1>0. raw \in Nat  BY CapacityAssumption
<1>3. \A x \in Assets :
        book'.issuedRaw[x] = 0 => book.issuedRaw[x] = 0 /\ (x = a => raw = 0)
  BY <1>0, <1>1, <1>2 DEF CountersOK
<1>4. CASE o.state # "Reserved"
  <2>1. /\ book'.tickets = book.tickets
        /\ book'.inflight = book.inflight /\ book'.issued = book.issued
        /\ book'.redeeming = book.redeeming /\ book'.unreviewed = book.unreviewed
        /\ book'.unreviewedReward = book.unreviewedReward /\ book'.issuedOf = book.issuedOf
        /\ book'.inflightOf = book.inflightOf /\ book'.redeemingOf = book.redeemingOf
    BY <1>1, <1>4 DEF IsBook, BuyFinalized
  <2>2. CountersOK'  BY <1>0, <1>1, <1>2, <2>1 DEF CountersOK
  <2>3. BookOK'  BY <1>2, <2>1, <2>2 DEF BookOK
  <2>4. NoGrowth  BY <1>1, <2>1 DEF NoGrowth, Exposure, AssetExposure, CountersOK
  <2>5. BasisInv => BasisInv'
    BY <1>3, <2>1 DEF BasisInv, NoStrandedBasis, RedeemsBoth, SharelessAssets, InState
  <2> QED  BY <2>3, <2>4, <2>5 DEF StepOK
<1>5. CASE o.state = "Reserved"
  <2>1. /\ book'.tickets = [book.tickets EXCEPT ![k] = t]
        /\ book'.inflight = book.inflight - o.usd /\ book'.issued = book.issued + o.usd
        /\ book'.redeeming = book.redeeming /\ book'.unreviewed = book.unreviewed
        /\ book'.unreviewedReward = book.unreviewedReward
        /\ book'.issuedOf = [book.issuedOf EXCEPT ![a] = @ + o.usd]
        /\ book'.inflightOf = [book.inflightOf EXCEPT ![a] = @ - o.usd]
        /\ book'.redeemingOf = book.redeemingOf
    BY <1>1, <1>5 DEF IsBook, BuyFinalized
  <2>2. CountersOK'  BY <1>0, <1>1, <1>2, <2>1 DEF CountersOK
  <2>3. IsTicket(t) /\ t.state = "Issued" /\ t.asset = a /\ t.raw = raw
    BY <1>0, <1>1 DEF IsTicket, TicketStates, Live
  <2> HIDE DEF t
  <2>4. /\ BookOK' /\ book'.tickets[k] = t
        /\ \A j \in Keys : j # k => book'.tickets[j] = book.tickets[j]
    BY <1>2, <2>1, <2>2, <2>3, TicketChanges
  <2>5. NoGrowth  BY <1>1, <2>1 DEF NoGrowth, Exposure, AssetExposure, CountersOK
  <2>6. \A x \in Assets : x # a => book'.issuedOf[x] = book.issuedOf[x]
    BY <1>1, <2>1 DEF CountersOK
  <2>7. ASSUME BasisInv PROVE BasisInv'
    <3>1. SharelessAssets \subseteq SharelessAssets'
      BY <1>5, <2>4, SharelessStays DEF KeepsIssue
    <3>2. raw = 0 => a \in SharelessAssets'  BY <2>3, <2>4 DEF SharelessAssets, InState
    <3>3. NoStrandedBasis'
      BY <1>3, <2>6, <2>7, <3>1, <3>2 DEF BasisInv, NoStrandedBasis
    <3>4. ASSUME NEW j \in Keys, book'.tickets[j].state = "Redeeming", book'.tickets[j].raw = 0
          PROVE  book'.tickets[j].usd = 0 \/ book'.tickets[j].asset \in SharelessAssets'
      <4>1. book'.tickets[j] = book.tickets[j]  BY <2>3, <2>4, <3>4
      <4>2. book.tickets[j].usd = 0 \/ book.tickets[j].asset \in SharelessAssets
        BY <2>7, <3>4, <4>1 DEF BasisInv, RedeemsBoth
      <4> QED  BY <3>1, <4>1, <4>2
    <3> QED  BY <3>3, <3>4 DEF BasisInv, RedeemsBoth
  <2> QED  BY <2>4, <2>5, <2>7 DEF StepOK
<1> QED  BY <1>4, <1>5

\* A redemption moves the shares' part of the basis, and all of it with the last share.
LEMMA BeginSteps ==
  ASSUME BookOK, NEW k \in Keys, NEW a \in Assets, NEW raw \in Raws \ {0},
         book.tickets[k].state = "None", book' = RedeemBegun(book, k, a, raw)
  PROVE  StepOK
<1> DEFINE usd == BasisOf(book, a, raw)
           cut == IF raw >= book.issuedRaw[a] THEN book.issuedRaw[a] ELSE raw
           t == [state |-> "Redeeming", lane |-> 0, sent |-> TRUE, unreviewed |-> FALSE,
                 asset |-> a, usd |-> usd, raw |-> cut]
<1>0. raw \in Nat /\ raw # 0  BY CapacityAssumption
<1>1. CountersOK /\ IsBook(book)  BY DEF BookOK
<1>2. /\ book'.tickets = [book.tickets EXCEPT ![k] = t] /\ IsBook(book')
      /\ book'.inflight = book.inflight /\ book'.issued = book.issued - usd
      /\ book'.redeeming = book.redeeming + usd /\ book'.unreviewed = book.unreviewed
      /\ book'.unreviewedReward = book.unreviewedReward
      /\ book'.issuedRaw = [book.issuedRaw EXCEPT ![a] = @ - cut]
      /\ book'.issuedOf = [book.issuedOf EXCEPT ![a] = @ - usd]
      /\ book'.inflightOf = book.inflightOf
      /\ book'.redeemingOf = [book.redeemingOf EXCEPT ![a] = @ + usd]
  BY <1>1 DEF IsBook, RedeemBegun
<1>3. /\ usd \in Nat /\ usd <= book.issuedOf[a]
      /\ raw >= book.issuedRaw[a] => usd = book.issuedOf[a]
  BY <1>0, BasisBounds
<1>4. /\ book.issuedRaw[a] \in Nat /\ book.issuedOf[a] \in Nat
      /\ cut \in Nat /\ cut <= book.issuedRaw[a]
      /\ cut = book.issuedRaw[a] => raw >= book.issuedRaw[a]
  BY <1>0, <1>1 DEF CountersOK
<1> HIDE DEF usd, cut
<1>5. CountersOK'  BY <1>1, <1>2, <1>3, <1>4 DEF CountersOK
<1>6. IsTicket(t) /\ t.raw = cut /\ t.usd = usd /\ t.asset = a
  BY <1>3, <1>4 DEF IsTicket, TicketStates
<1> HIDE DEF t
<1>7. /\ BookOK' /\ book'.tickets[k] = t
      /\ \A j \in Keys : j # k => book'.tickets[j] = book.tickets[j]
  BY <1>2, <1>5, <1>6, TicketChanges
<1>8. NoGrowth  BY <1>1, <1>2, <1>3 DEF NoGrowth, Exposure, AssetExposure, CountersOK
<1>9. ASSUME BasisInv PROVE BasisInv'
  <2>1. SharelessAssets \subseteq SharelessAssets'  BY <1>7, SharelessStays DEF KeepsIssue
  <2>2. ASSUME NEW x \in Assets, book'.issuedRaw[x] = 0
        PROVE  book'.issuedOf[x] = 0 \/ x \in SharelessAssets'
    <3>1. CASE x = a
      <4>1. book'.issuedRaw[a] = book.issuedRaw[a] - cut /\ book'.issuedOf[a] = book.issuedOf[a] - usd
        BY <1>1, <1>2 DEF CountersOK
      <4>2. cut = book.issuedRaw[a]  BY <1>4, <2>2, <3>1, <4>1
      <4> QED  BY <1>3, <1>4, <3>1, <4>1, <4>2
    <3>2. CASE x # a
      <4>1. book'.issuedRaw[x] = book.issuedRaw[x] /\ book'.issuedOf[x] = book.issuedOf[x]
        BY <1>1, <1>2, <3>2 DEF CountersOK
      <4>2. book.issuedOf[x] = 0 \/ x \in SharelessAssets
        BY <1>9, <2>2, <4>1 DEF BasisInv, NoStrandedBasis
      <4> QED  BY <2>1, <4>1, <4>2
    <3> QED  BY <3>1, <3>2
  <2>3. cut = 0 => usd = 0 \/ a \in SharelessAssets
    <3>1. cut = 0 => book.issuedRaw[a] = 0  BY <1>0, <1>4 DEF cut
    <3>2. book.issuedRaw[a] = 0 => book.issuedOf[a] = 0 \/ a \in SharelessAssets
      BY <1>9 DEF BasisInv, NoStrandedBasis
    <3> QED  BY <1>3, <1>4, <3>1, <3>2
  <2>4. ASSUME NEW j \in Keys, book'.tickets[j].state = "Redeeming", book'.tickets[j].raw = 0
        PROVE  book'.tickets[j].usd = 0 \/ book'.tickets[j].asset \in SharelessAssets'
    <3>1. CASE j = k  BY <1>6, <1>7, <2>1, <2>3, <2>4, <3>1
    <3>2. CASE j # k
      <4>1. book'.tickets[j] = book.tickets[j]  BY <1>7, <3>2
      <4>2. book.tickets[j].usd = 0 \/ book.tickets[j].asset \in SharelessAssets
        BY <1>9, <2>4, <4>1 DEF BasisInv, RedeemsBoth
      <4> QED  BY <2>1, <4>1, <4>2
    <3> QED  BY <3>1, <3>2
  <2> QED  BY <2>2, <2>4 DEF BasisInv, NoStrandedBasis, RedeemsBoth
<1> QED  BY <1>7, <1>8, <1>9 DEF StepOK

\* A redemption that is over: its amount is gone, or, failed, issued again.
LEMMA EndSteps ==
  ASSUME BookOK, NEW k \in Keys,
         \/ \E reviewed \in BOOLEAN : book' = RedeemFinalized(book, k, reviewed)
         \/ book' = RedeemReverted(book, k)
  PROVE  StepOK
<1> DEFINE o == book.tickets[k]
<1>1. CountersOK /\ IsBook(book) /\ IsTicket(o) /\ o.usd \in Nat /\ o.raw \in Nat
  BY DEF BookOK, IsTicket
<1>2. CASE o.state # "Redeeming"
  BY <1>2, NothingSteps DEF RedeemFinalized, RedeemReverted
<1>3. ASSUME o.state = "Redeeming", NEW reviewed \in BOOLEAN,
             book' = RedeemFinalized(book, k, reviewed)
      PROVE  StepOK
  <2> DEFINE t == [o EXCEPT !.state = "Closed", !.unreviewed = ~reviewed]
  <2>1. o.asset \in Assets  BY <1>1, <1>3 DEF IsTicket, Live
  <2>2. /\ book'.tickets = [book.tickets EXCEPT ![k] = t] /\ IsBook(book')
        /\ book'.inflight = book.inflight /\ book'.issued = book.issued
        /\ book'.redeeming = book.redeeming - o.usd
        /\ book'.issuedRaw = book.issuedRaw /\ book'.issuedOf = book.issuedOf
        /\ book'.inflightOf = book.inflightOf
        /\ book'.redeemingOf = [book.redeemingOf EXCEPT ![o.asset] = @ - o.usd]
        /\ book'.unreviewed \in {book.unreviewed, book.unreviewed + o.usd}
        /\ book'.unreviewedReward \in {book.unreviewedReward, book.unreviewedReward + o.usd}
    <3> DEFINE c == [book EXCEPT !.redeeming = @ - o.usd, !.redeemingOf[o.asset] = @ - o.usd,
                                 !.tickets[k].state = "Closed",
                                 !.tickets[k].unreviewed = ~reviewed]
    <3>1. book' = IF reviewed THEN c ELSE AddUnreviewed(c, o.lane, o.usd)
      BY <1>3, Zenon DEF RedeemFinalized
    <3>2. c.tickets = [book.tickets EXCEPT ![k] = t]
      BY <1>1 DEF IsBook
    <3>3. c = [book EXCEPT !.redeeming = @ - o.usd, !.redeemingOf[o.asset] = @ - o.usd,
                           !.tickets[k].state = "Closed",
                           !.tickets[k].unreviewed = ~reviewed]
      OBVIOUS
    <3> HIDE DEF c
    <3>4. /\ IsBook(c) /\ c.inflight = book.inflight /\ c.issued = book.issued
          /\ c.redeeming = book.redeeming - o.usd
          /\ c.issuedRaw = book.issuedRaw /\ c.issuedOf = book.issuedOf
          /\ c.inflightOf = book.inflightOf
          /\ c.redeemingOf = [book.redeemingOf EXCEPT ![o.asset] = @ - o.usd]
          /\ c.unreviewed = book.unreviewed /\ c.unreviewedReward = book.unreviewedReward
      BY <1>1, <3>2, <3>3 DEF IsBook
    <3>5. CASE reviewed
      <4>1. book' = c  BY <3>1, <3>5
      <4> QED  BY <3>2, <3>4, <4>1
    <3>6. CASE ~reviewed
      <4>1. book' = AddUnreviewed(c, o.lane, o.usd)  BY <3>1, <3>6
      <4> QED  BY <3>2, <3>4, <4>1 DEF IsBook, AddUnreviewed
    <3> QED  BY SMTT(30), <3>5, <3>6
  <2>3. CountersOK'  BY <1>1, <2>1, <2>2 DEF CountersOK
  <2>4. IsTicket(t) /\ t.state = "Closed"  BY <1>1 DEF IsTicket, TicketStates, Live
  <2> HIDE DEF t
  <2>5. /\ BookOK' /\ book'.tickets[k] = t
        /\ \A j \in Keys : j # k => book'.tickets[j] = book.tickets[j]
    BY <2>2, <2>3, <2>4, TicketChanges
  <2>6. NoGrowth  BY <1>1, <2>1, <2>2 DEF NoGrowth, Exposure, AssetExposure, CountersOK
  <2>7. KeepsIssue(k)  BY <1>3 DEF KeepsIssue
  <2> QED  BY <2>2, <2>4, <2>5, <2>6, <2>7, BasisStays DEF StepOK
<1>4. CASE o.state = "Redeeming" /\ book' = RedeemReverted(book, k)
  <2> DEFINE t == [o EXCEPT !.state = "Closed"]
  <2>1. o.asset \in Assets  BY <1>1, <1>4, SMTT(60) DEF IsTicket, Live
  <2>2. /\ book'.tickets = [book.tickets EXCEPT ![k] = t] /\ IsBook(book')
        /\ book'.inflight = book.inflight /\ book'.issued = book.issued + o.usd
        /\ book'.redeeming = book.redeeming - o.usd
        /\ book'.unreviewed = book.unreviewed
        /\ book'.unreviewedReward = book.unreviewedReward
        /\ book'.issuedRaw = [book.issuedRaw EXCEPT ![o.asset] = @ + o.raw]
        /\ book'.issuedOf = [book.issuedOf EXCEPT ![o.asset] = @ + o.usd]
        /\ book'.inflightOf = book.inflightOf
        /\ book'.redeemingOf = [book.redeemingOf EXCEPT ![o.asset] = @ - o.usd]
    BY <1>1, <1>4 DEF IsBook, RedeemReverted
  <2>3. CountersOK'  BY <1>1, <2>1, <2>2 DEF CountersOK
  <2>4. IsTicket(t) /\ t.state = "Closed"  BY <1>1 DEF IsTicket, TicketStates, Live
  <2> HIDE DEF t
  <2>5. /\ BookOK' /\ book'.tickets[k] = t
        /\ \A j \in Keys : j # k => book'.tickets[j] = book.tickets[j]
    BY <2>2, <2>3, <2>4, TicketChanges, SMTT(60)
  <2>6. NoGrowth  BY <1>1, <2>1, <2>2 DEF NoGrowth, Exposure, AssetExposure, CountersOK
  <2>7. ASSUME BasisInv PROVE BasisInv'
    <3>1. SharelessAssets \subseteq SharelessAssets'
      BY <1>4, <2>5, SharelessStays DEF KeepsIssue
    <3>2. ASSUME NEW x \in Assets, book'.issuedRaw[x] = 0
          PROVE  book'.issuedOf[x] = 0 \/ x \in SharelessAssets'
      <4>1. book.issuedRaw[x] \in Nat /\ book.issuedOf[x] \in Nat
        BY <1>1 DEF CountersOK
      <4>2. book.issuedRaw[x] = 0 /\ (x = o.asset => o.raw = 0)
        BY <1>1, <2>1, <2>2, <3>2, <4>1, SMTT(60) DEF CountersOK
      <4>3. x = o.asset => o.usd = 0 \/ x \in SharelessAssets
        BY <1>4, <2>7, <4>2 DEF BasisInv, RedeemsBoth
      <4>4. book.issuedOf[x] = 0 \/ x \in SharelessAssets
        BY <2>7, <4>2 DEF BasisInv, NoStrandedBasis
      <4> QED  BY <1>1, <2>1, <2>2, <3>1, <4>1, <4>3, <4>4 DEF CountersOK
    <3>3. ASSUME NEW j \in Keys, book'.tickets[j].state = "Redeeming", book'.tickets[j].raw = 0
          PROVE  book'.tickets[j].usd = 0 \/ book'.tickets[j].asset \in SharelessAssets'
      <4>1. book'.tickets[j] = book.tickets[j]  BY <2>4, <2>5, <3>3
      <4>2. book.tickets[j].usd = 0 \/ book.tickets[j].asset \in SharelessAssets
        BY <2>7, <3>3, <4>1 DEF BasisInv, RedeemsBoth
      <4> QED  BY <3>1, <4>1, <4>2
    <3> QED  BY <3>2, <3>3 DEF BasisInv, NoStrandedBasis, RedeemsBoth
  <2> QED  BY <2>5, <2>6, <2>7 DEF StepOK
<1> QED  BY <1>2, <1>3, <1>4

\* A review takes from the unreviewed amounts only.
LEMMA ReviewSteps ==
  ASSUME BookOK, NEW k \in Keys, book' = Reviewed(book, k)
  PROVE  StepOK
<1> DEFINE o == book.tickets[k]
           t == [o EXCEPT !.unreviewed = FALSE]
<1>1. CountersOK /\ IsBook(book) /\ IsTicket(o) /\ o.usd \in Nat
  BY DEF BookOK, IsTicket
<1>2. CASE ~o.unreviewed
  BY <1>2, NothingSteps DEF Reviewed
<1>3. CASE o.unreviewed
  <2>1. /\ book'.tickets = [book.tickets EXCEPT ![k] = t] /\ IsBook(book')
        /\ book'.inflight = book.inflight /\ book'.issued = book.issued
        /\ book'.redeeming = book.redeeming
        /\ book'.issuedRaw = book.issuedRaw /\ book'.issuedOf = book.issuedOf
        /\ book'.inflightOf = book.inflightOf /\ book'.redeemingOf = book.redeemingOf
        /\ book'.unreviewed = book.unreviewed - o.usd
        /\ book'.unreviewedReward \in {book.unreviewedReward, book.unreviewedReward - o.usd}
    BY <1>1, <1>3 DEF IsBook, Reviewed, SubUnreviewed
  <2>2. CountersOK'  BY <1>1, <2>1 DEF CountersOK
  <2>3. IsTicket(t) /\ t.state = o.state /\ t.usd = o.usd /\ t.raw = o.raw /\ t.asset = o.asset
    BY <1>1 DEF IsTicket
  <2> HIDE DEF t
  <2>4. /\ BookOK' /\ book'.tickets[k] = t
        /\ \A j \in Keys : j # k => book'.tickets[j] = book.tickets[j]
    BY <2>1, <2>2, <2>3, TicketChanges
  <2>5. NoGrowth  BY <1>1, <2>1 DEF NoGrowth, Exposure, AssetExposure, CountersOK
  <2>6. ASSUME BasisInv PROVE BasisInv'
    <3>1. SharelessAssets \subseteq SharelessAssets'
      BY <2>3, <2>4, SharelessStays DEF KeepsIssue
    <3>2. NoStrandedBasis'  BY <2>1, <2>6, <3>1 DEF BasisInv, NoStrandedBasis
    <3>3. ASSUME NEW j \in Keys, book'.tickets[j].state = "Redeeming", book'.tickets[j].raw = 0
          PROVE  book'.tickets[j].usd = 0 \/ book'.tickets[j].asset \in SharelessAssets'
      <4>1. LET v == book.tickets[j]
            IN /\ v.state = "Redeeming" /\ v.raw = 0 /\ v.usd = book'.tickets[j].usd
               /\ v.asset = book'.tickets[j].asset
        BY <2>3, <2>4, <3>3
      <4>2. book.tickets[j].usd = 0 \/ book.tickets[j].asset \in SharelessAssets
        BY <2>6, <4>1 DEF BasisInv, RedeemsBoth
      <4> QED  BY <3>1, <4>1, <4>2
    <3> QED  BY <3>2, <3>3 DEF BasisInv, RedeemsBoth
  <2> QED  BY <2>4, <2>5, <2>6 DEF StepOK
<1> QED  BY <1>2, <1>3

-----------------------------------------------------------------------------
(* The specification.                                                      *)

\* The empty book is in order.
LEMMA CapBegins == CapInit => BookOK /\ BasisInv
<1> SUFFICES ASSUME CapInit PROVE BookOK /\ BasisInv  OBVIOUS
<1>1. /\ book.tickets = [k \in Keys |-> NoTicket] /\ IsBook(book)
      /\ book.inflight = 0 /\ book.issued = 0 /\ book.redeeming = 0
      /\ book.unreviewed = 0 /\ book.unreviewedReward = 0
      /\ book.issuedRaw = [a \in Assets |-> 0] /\ book.issuedOf = [a \in Assets |-> 0]
      /\ book.inflightOf = [a \in Assets |-> 0] /\ book.redeemingOf = [a \in Assets |-> 0]
  BY DEF CapInit, EmptyBook, IsBook
<1>2. IsTicket(NoTicket) /\ NoTicket.state = "None"
  BY DEF IsTicket, NoTicket, TicketStates, Live
<1> HIDE DEF CapInit
<1>3. CountersOK  BY <1>1 DEF CountersOK
<1>4. BookOK  BY <1>1, <1>2, <1>3 DEF BookOK
<1>5. BasisInv  BY <1>1, <1>2 DEF BasisInv, NoStrandedBasis, RedeemsBoth
<1> QED  BY <1>4, <1>5

\* What a step may do to the book: a reservation that fits the caps, or no growth at all.
WithinCaps ==
  /\ Exposure(book') > Exposure(book) => Exposure(book') <= limits.totalCap
  /\ \A a \in Assets :
       AssetExposure(book', a) > AssetExposure(book, a) =>
         assetCap[a] = NoCap \/ AssetExposure(book', a) <= assetCap[a]

CapStepOK == BookOK' /\ WithinCaps /\ (BasisInv => BasisInv')

\* The two exposures are sums of integers.
LEMMA ExposuresAreInts ==
  ASSUME BookOK
  PROVE  Exposure(book) \in Int /\ \A a \in Assets : AssetExposure(book, a) \in Int
BY DEF BookOK, CountersOK, Exposure, AssetExposure

\* A step that does not grow an exposure needs no cap.
LEMMA NoGrowthIsWithin ==
  ASSUME BookOK, StepOK
  PROVE  CapStepOK
<1>1. /\ Exposure(book) \in Int /\ Exposure(book') \in Int
      /\ \A a \in Assets : AssetExposure(book, a) \in Int /\ AssetExposure(book', a) \in Int
  BY DEF StepOK, BookOK, CountersOK, Exposure, AssetExposure
<1>2. WithinCaps  BY <1>1 DEF StepOK, NoGrowth, WithinCaps
<1> QED  BY <1>2 DEF StepOK, CapStepOK

\* A reservation fits below the caps in force.
LEMMA ReserveSteps ==
  ASSUME BookOK, NEW k \in Keys, NEW lane \in {0, 1}, NEW a \in Assets, NEW usd \in Usds,
         ReserveFor(k, lane, a, usd)
  PROVE  CapStepOK
<1>1. usd \in Nat  BY CapacityAssumption
<1>2. /\ book' = Reserved(book, k, lane, a, usd)
      /\ Exposure(book) + usd <= limits.totalCap
      /\ assetCap[a] # NoCap => AssetExposure(book, a) + usd <= assetCap[a]
  BY DEF ReserveFor, CanReserveFor, CanReserve
<1>3. /\ BookOK'
      /\ Exposure(book') = Exposure(book) + usd
      /\ \A x \in Assets :
           AssetExposure(book', x) = AssetExposure(book, x) + (IF x = a THEN usd ELSE 0)
      /\ book'.issuedRaw = book.issuedRaw /\ book'.issuedOf = book.issuedOf
      /\ \A j \in Keys : j # k => book'.tickets[j] = book.tickets[j]
      /\ book'.tickets[k].state = "Reserved"
  BY <1>1, <1>2, ReserveAdds
<1>4. KeepsIssue(k)  BY DEF KeepsIssue, ReserveFor, Reservable
<1>5. BasisInv => BasisInv'  BY <1>3, <1>4, BasisStays
<1>6. \A x \in Assets :
        AssetExposure(book', x) > AssetExposure(book, x) =>
          assetCap[x] = NoCap \/ AssetExposure(book', x) <= assetCap[x]
  <2> TAKE x \in Assets
  <2>1. AssetExposure(book, x) \in Int  BY ExposuresAreInts
  <2>2. CASE x = a  BY <1>2, <1>3, <2>2
  <2>3. CASE x # a  BY <1>3, <2>1, <2>3
  <2> QED  BY <2>2, <2>3
<1> QED  BY <1>2, <1>3, <1>5, <1>6 DEF CapStepOK, WithinCaps

\* Every step of a ticket; one case per operation.
LEMMA TicketSteps ==
  ASSUME BookOK, NEW k \in Keys, TicketStep(k)
  PROVE  CapStepOK
<1>1. CASE \E lane \in {0, 1}, a \in Assets, usd \in Usds : ReserveFor(k, lane, a, usd)
  BY <1>1, ReserveSteps
<1>2. CASE MarkSent(k)
  BY <1>2, SentSteps, NoGrowthIsWithin DEF MarkSent
<1>3. CASE ReleaseUnsent(k)
  BY <1>3, DropSteps, NoGrowthIsWithin DEF ReleaseUnsent
<1>4. CASE Release(k)
  BY <1>4, DropSteps, NothingSteps, NoGrowthIsWithin DEF Release, Released
<1>5. CASE \E a \in Assets, raw \in Raws :
             /\ book.tickets[k].state = "Reserved" => book.tickets[k].asset = a
             /\ book.issuedRaw[a] + raw <= RawBound
             /\ FinalizeBuy(k, a, raw)
  BY <1>5, BuySteps, NoGrowthIsWithin DEF FinalizeBuy
<1>6. CASE \E a \in Assets, raw \in Raws \ {0} : BeginRedeem(k, a, raw)
  BY <1>6, BeginSteps, NoGrowthIsWithin DEF BeginRedeem
<1>7. CASE \E reviewed \in BOOLEAN : FinalizeRedeem(k, reviewed)
  BY <1>7, EndSteps, NoGrowthIsWithin DEF FinalizeRedeem
<1>8. CASE RevertRedeem(k)
  BY <1>8, EndSteps, NoGrowthIsWithin DEF RevertRedeem
<1>9. CASE MarkReviewed(k)
  BY <1>9, ReviewSteps, NoGrowthIsWithin DEF MarkReviewed
<1> QED
  BY <1>1, <1>2, <1>3, <1>4, <1>5, <1>6, <1>7, <1>8, <1>9 DEF TicketStep

\* Every step of the controller.
LEMMA CapSteps ==
  ASSUME BookOK, [CapNext]_capVars
  PROVE  CapStepOK
<1>1. CASE \E k \in Keys : TicketStep(k)  BY <1>1, TicketSteps
<1>2. CASE GovernanceStep
  <2>1. book' = book
    BY <1>2 DEF GovernanceStep, LowerLimits, ProposeLimits, ExecuteLimits, SetAssetCap,
                LowerAssetCap, ProposeAssetCap, ExecuteAssetCap, Tick
  <2> QED  BY <2>1, NothingSteps, NoGrowthIsWithin
<1>3. CASE UNCHANGED capVars
  BY <1>3, NothingSteps, NoGrowthIsWithin DEF capVars
<1> QED  BY <1>1, <1>2, <1>3 DEF CapNext

\* The counters stay the ones the entry points are written for, so that each step is one of
\* the lemmas above.
THEOREM BookStays == CapSpec => []BookOK
<1>1. CapInit => BookOK  BY CapBegins
<1>2. BookOK /\ [CapNext]_capVars => BookOK'  BY CapSteps DEF CapStepOK
<1> QED  BY <1>1, <1>2, PTL DEF CapSpec

\* Exposure, in total and per asset, only grows within the caps in force, whatever order the
\* tickets are reserved, issued, redeemed, reverted and reviewed in, and whenever the caps
\* are lowered (A03).
THEOREM GrowthIsWithinCaps == CapSpec => ExposureGrowsWithinCaps
<1>1. BookOK /\ [CapNext]_capVars => [WithinCaps]_capVars
  BY CapSteps DEF CapStepOK
<1>2. CapSpec => [][WithinCaps]_capVars
  BY <1>1, BookStays, PTL DEF CapSpec
<1> QED  BY <1>2, PTL DEF ExposureGrowsWithinCaps, WithinCaps

\* Rounding redemptions up leaves no dollars of exposure on an asset without shares
\* (beginRedeem), in any order of issues, redemptions and reverts; a buy whose result brought
\* no shares, which finalizeBuy takes as well, is the only thing that does.
THEOREM NoBasisStranded == CapSpec => []NoStrandedBasis
<1>1. CapInit => BasisInv  BY CapBegins
<1>2. BookOK /\ BasisInv /\ [CapNext]_capVars => BasisInv'
  BY CapSteps DEF CapStepOK
<1>3. BasisInv => NoStrandedBasis  BY DEF BasisInv
<1> QED  BY <1>1, <1>2, <1>3, BookStays, PTL DEF CapSpec

-----------------------------------------------------------------------------
(* The counters.  Each is a sum over the tickets of one kind; a step       *)
(* changes one ticket, and moves every counter by what that ticket stops   *)
(* and starts to stand for.                                                *)

Unreviewed(b) == {k \in Keys : b.tickets[k].unreviewed}
UnreviewedRewards(b) == {k \in Unreviewed(b) : b.tickets[k].lane = 1}

TotalsAreTickets ==
  /\ book.inflight = UsdOver(book, InState(book, "Reserved"))
  /\ book.redeeming = UsdOver(book, InState(book, "Redeeming"))
  /\ book.unreviewed = UsdOver(book, Unreviewed(book))
  /\ book.unreviewedReward = UsdOver(book, UnreviewedRewards(book))
  /\ book.issued = SumFunction(book.issuedOf)
  /\ \A a \in Assets :
       /\ book.inflightOf[a] = UsdOver(book, InState(book, "Reserved") \cap OfAsset(book, a))
       /\ book.redeemingOf[a] = UsdOver(book, InState(book, "Redeeming") \cap OfAsset(book, a))

\* A ticket names an asset; it waits for no review before it is first reserved, after a
\* reservation that never left, or while it redeems; a redemption counts as sent.
Rule(t) ==
  /\ t.asset \in Assets
  /\ t.state \in {"None", "Redeeming"} \/ (t.state = "Closed" /\ ~t.sent) => ~t.unreviewed
  /\ t.state = "Redeeming" => t.sent

TicketRules == \A k \in Keys : Rule(book.tickets[k])

CountersInv == BookOK /\ TicketRules /\ TotalsAreTickets

\* What one ticket stands for in each counter.
Holds(t, st) == IF t.state = st THEN t.usd ELSE 0
HoldsOf(t, st, a) == IF t.state = st /\ t.asset = a THEN t.usd ELSE 0
Counts(t) == IF t.unreviewed THEN t.usd ELSE 0
CountsReward(t) == IF t.unreviewed /\ t.lane = 1 THEN t.usd ELSE 0

OthersStay(k) == \A j \in Keys : j # k => book'.tickets[j] = book.tickets[j]

\* What was issued moves on one asset, and its total with it.
IssuedMoves ==
  \E a \in Assets :
    /\ \A x \in Assets \ {a} : book'.issuedOf[x] = book.issuedOf[x]
    /\ book'.issued = book.issued - book.issuedOf[a] + book'.issuedOf[a]

\* The counters move with the ticket of key k, from o to t.
CountersMove(k) ==
  LET o == book.tickets[k]
      t == book'.tickets[k]
  IN /\ OthersStay(k)
     /\ book'.inflight = book.inflight - Holds(o, "Reserved") + Holds(t, "Reserved")
     /\ book'.redeeming = book.redeeming - Holds(o, "Redeeming") + Holds(t, "Redeeming")
     /\ book'.unreviewed = book.unreviewed - Counts(o) + Counts(t)
     /\ book'.unreviewedReward = book.unreviewedReward - CountsReward(o) + CountsReward(t)
     /\ IssuedMoves
     /\ \A a \in Assets :
          /\ book'.inflightOf[a] =
               book.inflightOf[a] - HoldsOf(o, "Reserved", a) + HoldsOf(t, "Reserved", a)
          /\ book'.redeemingOf[a] =
               book.redeemingOf[a] - HoldsOf(o, "Redeeming", a) + HoldsOf(t, "Redeeming", a)

\* The dollars of a set of tickets are a natural number.
LEMMA UsdIsNat ==
  ASSUME BookOK, NEW S \in SUBSET Keys
  PROVE  UsdOver(book, S) \in Nat
<1> DEFINE f == [k \in Keys |-> book.tickets[k].usd]
<1>1. IsFiniteSet(S)  BY CapacityAssumption, FS_Subset
<1>2. \A k \in S : f[k] \in Nat  BY DEF BookOK, IsTicket
<1> HIDE DEF f
<1>3. Sum(f, S) \in Nat  BY <1>1, <1>2, SumNat
<1> QED  BY <1>3 DEF Sum, UsdOver, f

\* When one ticket changes, the dollars of a set of tickets change with it, and with
\* whether the set has it.
LEMMA UsdMoves ==
  ASSUME BookOK, BookOK', NEW k \in Keys, OthersStay(k),
         NEW S \in SUBSET Keys, NEW T \in SUBSET Keys, S \ {k} = T \ {k}
  PROVE  UsdOver(book', T) = UsdOver(book, S)
           - (IF k \in S THEN book.tickets[k].usd ELSE 0)
           + (IF k \in T THEN book'.tickets[k].usd ELSE 0)
<1> DEFINE f == [j \in Keys |-> book.tickets[j].usd]
           g == [j \in Keys |-> book'.tickets[j].usd]
           W == S \ {k}
<1>1. IsFiniteSet(S) /\ IsFiniteSet(T) /\ IsFiniteSet(W)  BY CapacityAssumption, FS_Subset
<1>2. \A j \in Keys : f[j] \in Nat /\ g[j] \in Nat  BY DEF BookOK, IsTicket
<1>3. \A j \in W : f[j] = g[j]  BY DEF OthersStay
<1>4. f[k] = book.tickets[k].usd /\ g[k] = book'.tickets[k].usd  OBVIOUS
<1>5. T \ {k} = W  OBVIOUS
<1>6. W \subseteq Keys /\ (k \notin S => W = S) /\ (k \notin T => W = T)  OBVIOUS
<1> HIDE DEF f, g
<1>7. Sum(f, W) = Sum(g, W) /\ Sum(f, W) \in Int
  <2> HIDE DEF W
  <2> QED  BY <1>1, <1>2, <1>3, <1>6, SumSame, SumType
<1>8. k \in S => Sum(f, S) = f[k] + Sum(f, W)
  <2>1. \A j \in S : f[j] \in Int  BY <1>2
  <2> QED  BY <1>1, <2>1, SumTake
<1>9. k \in T => Sum(g, T) = g[k] + Sum(g, W)
  <2>1. \A j \in T : g[j] \in Int  BY <1>2
  <2>2. k \in T => Sum(g, T) = g[k] + Sum(g, T \ {k})  BY <1>1, <2>1, SumTake
  <2> QED  BY <1>5, <2>2
<1> HIDE DEF W
<1>10. Sum(g, T) = Sum(f, S) - (IF k \in S THEN f[k] ELSE 0) + (IF k \in T THEN g[k] ELSE 0)
  <2>1. f[k] \in Int /\ g[k] \in Int  BY <1>2
  <2> QED  BY <1>6, <1>7, <1>8, <1>9, <2>1
<1> QED  BY <1>4, <1>10 DEF Sum, UsdOver, f, g

\* The counters that move with the ticket stay the sums.
LEMMA TotalsStay ==
  ASSUME BookOK, BookOK', TotalsAreTickets, NEW k \in Keys, CountersMove(k)
  PROVE  TotalsAreTickets'
<1> DEFINE o == book.tickets[k]
           t == book'.tickets[k]
<1>0. OthersStay(k)  BY DEF CountersMove
<1>1. ASSUME NEW st
      PROVE  UsdOver(book', InState(book', st)) =
               UsdOver(book, InState(book, st)) - Holds(o, st) + Holds(t, st)
  <2> DEFINE S == InState(book, st)
             T == InState(book', st)
  <2>1. S \in SUBSET Keys /\ T \in SUBSET Keys /\ S \ {k} = T \ {k}
    BY <1>0 DEF InState, OthersStay
  <2>2. (k \in S <=> o.state = st) /\ (k \in T <=> t.state = st)  BY DEF InState
  <2> HIDE DEF S, T
  <2>3. UsdOver(book', T) = UsdOver(book, S) - (IF k \in S THEN o.usd ELSE 0)
                              + (IF k \in T THEN t.usd ELSE 0)
    BY <1>0, <2>1, UsdMoves
  <2>4. UsdOver(book', T) = UsdOver(book, S) - Holds(o, st) + Holds(t, st)
    BY <2>2, <2>3 DEF Holds
  <2> QED  BY <2>4 DEF S, T
<1>2. ASSUME NEW st, NEW a
      PROVE  UsdOver(book', InState(book', st) \cap OfAsset(book', a)) =
               UsdOver(book, InState(book, st) \cap OfAsset(book, a))
                 - HoldsOf(o, st, a) + HoldsOf(t, st, a)
  <2> DEFINE S == InState(book, st) \cap OfAsset(book, a)
             T == InState(book', st) \cap OfAsset(book', a)
  <2>1. S \in SUBSET Keys /\ T \in SUBSET Keys /\ S \ {k} = T \ {k}
    BY <1>0 DEF InState, OfAsset, OthersStay
  <2>2. /\ k \in S <=> o.state = st /\ o.asset = a
        /\ k \in T <=> t.state = st /\ t.asset = a
    BY DEF InState, OfAsset
  <2> HIDE DEF S, T
  <2>3. UsdOver(book', T) = UsdOver(book, S) - (IF k \in S THEN o.usd ELSE 0)
                              + (IF k \in T THEN t.usd ELSE 0)
    BY <1>0, <2>1, UsdMoves
  <2>4. UsdOver(book', T) = UsdOver(book, S) - HoldsOf(o, st, a) + HoldsOf(t, st, a)
    BY <2>2, <2>3 DEF HoldsOf
  <2> QED  BY <2>4 DEF S, T
<1>3. UsdOver(book', Unreviewed(book')) = UsdOver(book, Unreviewed(book)) - Counts(o) + Counts(t)
  <2> DEFINE S == Unreviewed(book)
             T == Unreviewed(book')
  <2>1. S \in SUBSET Keys /\ T \in SUBSET Keys /\ S \ {k} = T \ {k}
    BY <1>0 DEF Unreviewed, OthersStay
  <2>2. (k \in S <=> o.unreviewed) /\ (k \in T <=> t.unreviewed)
    BY Zenon DEF Unreviewed
  <2> HIDE DEF S, T
  <2>3. UsdOver(book', T) = UsdOver(book, S) - (IF k \in S THEN o.usd ELSE 0)
                              + (IF k \in T THEN t.usd ELSE 0)
    BY <1>0, <2>1, UsdMoves
  <2>4. UsdOver(book', T) = UsdOver(book, S) - Counts(o) + Counts(t)
    BY <2>2, <2>3 DEF Counts
  <2> QED  BY <2>4 DEF S, T
<1>4. UsdOver(book', UnreviewedRewards(book')) =
        UsdOver(book, UnreviewedRewards(book)) - CountsReward(o) + CountsReward(t)
  <2> DEFINE S == UnreviewedRewards(book)
             T == UnreviewedRewards(book')
  <2>1. S \in SUBSET Keys /\ T \in SUBSET Keys /\ S \ {k} = T \ {k}
    BY <1>0 DEF Unreviewed, UnreviewedRewards, OthersStay
  <2>2. (k \in S <=> o.unreviewed /\ o.lane = 1) /\ (k \in T <=> t.unreviewed /\ t.lane = 1)
    BY Zenon DEF Unreviewed, UnreviewedRewards
  <2> HIDE DEF S, T
  <2>3. UsdOver(book', T) = UsdOver(book, S) - (IF k \in S THEN o.usd ELSE 0)
                              + (IF k \in T THEN t.usd ELSE 0)
    BY <1>0, <2>1, UsdMoves
  <2>4. UsdOver(book', T) = UsdOver(book, S) - CountsReward(o) + CountsReward(t)
    BY <2>2, <2>3 DEF CountsReward
  <2> QED  BY <2>4 DEF S, T
<1>5. book'.issued = SumFunction(book'.issuedOf)
  <2> DEFINE f == book.issuedOf
             g == book'.issuedOf
  <2>1. PICK a \in Assets : /\ \A x \in Assets \ {a} : g[x] = f[x]
                            /\ book'.issued = book.issued - f[a] + g[a]
    BY DEF CountersMove, IssuedMoves
  <2>2. f \in [Assets -> Nat] /\ g \in [Assets -> Nat] /\ book.issued = SumFunction(f)
    BY DEF BookOK, CountersOK, TotalsAreTickets
  <2> HIDE DEF f, g
  <2>3. DOMAIN f = Assets /\ DOMAIN g = Assets /\ \A x \in Assets : f[x] \in Int /\ g[x] \in Int
    BY <2>2
  <2>4. Sum(g, Assets) = Sum(f, Assets) - f[a] + g[a]
    BY <2>1, <2>3, CapacityAssumption, SumChange
  <2>5. book'.issued = SumFunction(g)  BY <2>1, <2>2, <2>3, <2>4 DEF SumFunction, Sum
  <2> QED  BY <2>5 DEF g
<1> HIDE DEF o, t
<1>6. /\ book'.inflight = book.inflight - Holds(o, "Reserved") + Holds(t, "Reserved")
      /\ book'.redeeming = book.redeeming - Holds(o, "Redeeming") + Holds(t, "Redeeming")
      /\ book'.unreviewed = book.unreviewed - Counts(o) + Counts(t)
      /\ book'.unreviewedReward = book.unreviewedReward - CountsReward(o) + CountsReward(t)
      /\ \A a \in Assets :
           /\ book'.inflightOf[a] =
                book.inflightOf[a] - HoldsOf(o, "Reserved", a) + HoldsOf(t, "Reserved", a)
           /\ book'.redeemingOf[a] =
                book.redeemingOf[a] - HoldsOf(o, "Redeeming", a) + HoldsOf(t, "Redeeming", a)
  BY DEF CountersMove, o, t
<1>7. /\ book'.inflight = UsdOver(book', InState(book', "Reserved"))
      /\ book'.redeeming = UsdOver(book', InState(book', "Redeeming"))
      /\ book'.unreviewed = UsdOver(book', Unreviewed(book'))
      /\ book'.unreviewedReward = UsdOver(book', UnreviewedRewards(book'))
  BY <1>1, <1>3, <1>4, <1>6 DEF TotalsAreTickets
<1>8. \A a \in Assets :
        /\ book'.inflightOf[a] = UsdOver(book', InState(book', "Reserved") \cap OfAsset(book', a))
        /\ book'.redeemingOf[a] = UsdOver(book', InState(book', "Redeeming") \cap OfAsset(book', a))
  BY ZenonT(30), <1>2, <1>6 DEF TotalsAreTickets
<1> QED  BY <1>5, <1>7, <1>8 DEF TotalsAreTickets

\* One ticket changes and keeps the rules.
LEMMA RulesStay ==
  ASSUME BookOK, TicketRules, NEW k \in Keys, NEW t, Rule(t),
         book'.tickets = [book.tickets EXCEPT ![k] = t]
  PROVE  TicketRules' /\ OthersStay(k) /\ book'.tickets[k] = t
BY DEF BookOK, TicketRules, OthersStay

\* Where what is issued does not change, its total may stay.
LEMMA IssuedStays ==
  ASSUME BookOK, book'.issuedOf = book.issuedOf, book'.issued = book.issued
  PROVE  IssuedMoves
BY CapacityAssumption DEF BookOK, CountersOK, IssuedMoves

\* What each entry point does to the counters is what its ticket says.
Moves(k) == CountersMove(k) /\ TicketRules'

\* A reservation adds its amount to the amounts in flight and unreviewed.
LEMMA ReserveMoves ==
  ASSUME BookOK, TicketRules, NEW k \in Keys, NEW lane \in {0, 1}, NEW a \in Assets,
         NEW usd \in Nat, Reservable(book, k), book' = Reserved(book, k, lane, a, usd)
  PROVE  Moves(k)
<1> DEFINE o == book.tickets[k]
           t == [state |-> "Reserved", lane |-> lane, sent |-> FALSE, unreviewed |-> TRUE,
                 asset |-> a, usd |-> usd, raw |-> 0]
<1>1. /\ CountersOK /\ IsBook(book) /\ o.state \in {"None", "Closed"} /\ ~o.unreviewed
  BY DEF BookOK, Reservable, TicketRules, Rule
<1>2. /\ book'.tickets = [book.tickets EXCEPT ![k] = t]
      /\ book'.inflight = book.inflight + usd
      /\ book'.issued = book.issued /\ book'.redeeming = book.redeeming
      /\ book'.unreviewed = book.unreviewed + usd
      /\ book'.unreviewedReward =
           IF lane = 1 THEN book.unreviewedReward + usd ELSE book.unreviewedReward
      /\ book'.issuedOf = book.issuedOf
      /\ book'.inflightOf = [book.inflightOf EXCEPT ![a] = @ + usd]
      /\ book'.redeemingOf = book.redeemingOf
  BY <1>1 DEF IsBook, Reserved, AddUnreviewed
<1>3. TicketRules' /\ OthersStay(k) /\ book'.tickets[k] = t
  BY <1>2, RulesStay DEF Rule
<1>4. /\ \A st : Holds(o, st) = IF o.state = st THEN o.usd ELSE 0
      /\ Holds(o, "Reserved") = 0 /\ Holds(o, "Redeeming") = 0
      /\ Counts(o) = 0 /\ CountsReward(o) = 0
      /\ \A x : HoldsOf(o, "Reserved", x) = 0 /\ HoldsOf(o, "Redeeming", x) = 0
  BY <1>1 DEF Holds, HoldsOf, Counts, CountsReward
<1>5. /\ Holds(t, "Reserved") = usd /\ Holds(t, "Redeeming") = 0
      /\ Counts(t) = usd /\ CountsReward(t) = IF lane = 1 THEN usd ELSE 0
      /\ \A x : HoldsOf(t, "Reserved", x) = (IF x = a THEN usd ELSE 0)
                /\ HoldsOf(t, "Redeeming", x) = 0
  BY DEF Holds, HoldsOf, Counts, CountsReward
<1>6. IssuedMoves  BY <1>2, IssuedStays
<1> HIDE DEF o, t
<1>7. CountersMove(k)
  BY <1>1, <1>2, <1>3, <1>4, <1>5, <1>6 DEF CountersMove, CountersOK, o
<1> QED  BY <1>3, <1>7 DEF Moves

\* Marking a reservation as sent changes none of its summands.
LEMMA SentMoves ==
  ASSUME BookOK, TicketRules, NEW k \in Keys, book.tickets[k].state = "Reserved",
         book' = SentMarked(book, k)
  PROVE  Moves(k)
<1> DEFINE o == book.tickets[k]
           t == [o EXCEPT !.sent = TRUE]
<1>1. CountersOK /\ IsBook(book) /\ IsTicket(o) /\ Rule(o)  BY DEF BookOK, TicketRules
<1>2. /\ book'.tickets = [book.tickets EXCEPT ![k] = t]
      /\ book'.inflight = book.inflight /\ book'.issued = book.issued
      /\ book'.redeeming = book.redeeming /\ book'.unreviewed = book.unreviewed
      /\ book'.unreviewedReward = book.unreviewedReward /\ book'.issuedOf = book.issuedOf
      /\ book'.inflightOf = book.inflightOf /\ book'.redeemingOf = book.redeemingOf
  BY <1>1 DEF IsBook, SentMarked
<1>3. /\ t.state = o.state /\ t.usd = o.usd /\ t.asset = o.asset /\ t.lane = o.lane
      /\ t.unreviewed = o.unreviewed /\ t.sent = TRUE
  BY <1>1 DEF IsTicket
<1> HIDE DEF t
<1>4. TicketRules' /\ OthersStay(k) /\ book'.tickets[k] = t
  BY <1>1, <1>2, <1>3, RulesStay DEF Rule
<1>5. IssuedMoves  BY <1>2, IssuedStays
<1>6. o.usd \in Int  BY <1>1 DEF IsTicket
<1>7. CountersMove(k)
  BY <1>1, <1>2, <1>3, <1>4, <1>5, <1>6
  DEF CountersMove, CountersOK, Holds, HoldsOf, Counts, CountsReward
<1> QED  BY <1>4, <1>7 DEF Moves

\* A dropped reservation takes its own amount back.
LEMMA DropMoves ==
  ASSUME BookOK, TicketRules, NEW k \in Keys, book.tickets[k].state = "Reserved",
         NEW unsent \in BOOLEAN, book' = Dropped(book, k, unsent)
  PROVE  Moves(k)
<1> DEFINE o == book.tickets[k]
           t == IF unsent THEN NoTicket ELSE [o EXCEPT !.state = "Closed", !.unreviewed = FALSE]
<1>1. CountersOK /\ IsBook(book) /\ IsTicket(o) /\ Rule(o) /\ o.asset \in Assets /\ o.usd \in Nat
  BY DEF BookOK, TicketRules, IsTicket, Live
<1>2. /\ book'.tickets = [book.tickets EXCEPT ![k] = t]
      /\ book'.inflight = book.inflight - o.usd
      /\ book'.issued = book.issued /\ book'.redeeming = book.redeeming
      /\ book'.issuedOf = book.issuedOf
      /\ book'.inflightOf = [book.inflightOf EXCEPT ![o.asset] = @ - o.usd]
      /\ book'.redeemingOf = book.redeemingOf
  BY ZenonT(30), <1>1 DEF IsBook, Dropped, SubUnreviewed
<1>3. /\ book'.unreviewed = book.unreviewed - Counts(o)
      /\ book'.unreviewedReward = book.unreviewedReward - CountsReward(o)
  BY <1>1 DEF IsBook, CountersOK, Dropped, SubUnreviewed, Counts, CountsReward
<1>4. /\ t.state \in {"None", "Closed"} /\ t.unreviewed = FALSE /\ t.asset \in Assets
  BY <1>1, CapacityAssumption DEF IsTicket, NoTicket
<1> HIDE DEF t
<1>5. TicketRules' /\ OthersStay(k) /\ book'.tickets[k] = t
  BY <1>2, <1>4, RulesStay DEF Rule
<1>6. IssuedMoves  BY <1>2, IssuedStays
<1>7. /\ Holds(o, "Reserved") = o.usd /\ Holds(o, "Redeeming") = 0
      /\ Holds(t, "Reserved") = 0 /\ Holds(t, "Redeeming") = 0
      /\ Counts(t) = 0 /\ CountsReward(t) = 0
      /\ \A x : /\ HoldsOf(o, "Reserved", x) = (IF x = o.asset THEN o.usd ELSE 0)
                /\ HoldsOf(o, "Redeeming", x) = 0
                /\ HoldsOf(t, "Reserved", x) = 0 /\ HoldsOf(t, "Redeeming", x) = 0
  BY <1>4 DEF Holds, HoldsOf, Counts, CountsReward
<1>8. Counts(o) \in Int /\ CountsReward(o) \in Int  BY <1>1 DEF Counts, CountsReward
<1>9. CountersMove(k)
  BY <1>1, <1>2, <1>3, <1>5, <1>6, <1>7, <1>8 DEF CountersMove, CountersOK
<1> QED  BY <1>5, <1>9 DEF Moves

\* A finalized buy carries its amount from in flight to issued.
LEMMA BuyMoves ==
  ASSUME BookOK, TicketRules, NEW k \in Keys, NEW a \in Assets, NEW raw \in Raws,
         book.tickets[k].state = "Reserved", book.tickets[k].asset = a,
         book' = BuyFinalized(book, k, a, raw)
  PROVE  Moves(k)
<1> DEFINE o == book.tickets[k]
           t == [o EXCEPT !.state = "Issued", !.asset = a, !.raw = raw]
<1>1. CountersOK /\ IsBook(book) /\ IsTicket(o) /\ Rule(o) /\ o.usd \in Nat
  BY DEF BookOK, TicketRules, IsTicket
<1>2. /\ book'.tickets = [book.tickets EXCEPT ![k] = t]
      /\ book'.inflight = book.inflight - o.usd /\ book'.issued = book.issued + o.usd
      /\ book'.redeeming = book.redeeming /\ book'.unreviewed = book.unreviewed
      /\ book'.unreviewedReward = book.unreviewedReward
      /\ book'.issuedOf = [book.issuedOf EXCEPT ![a] = @ + o.usd]
      /\ book'.inflightOf = [book.inflightOf EXCEPT ![a] = @ - o.usd]
      /\ book'.redeemingOf = book.redeemingOf
  BY <1>1 DEF IsBook, BuyFinalized
<1>3. /\ t.state = "Issued" /\ t.usd = o.usd /\ t.asset = a /\ t.lane = o.lane
      /\ t.unreviewed = o.unreviewed
  BY <1>1 DEF IsTicket
<1> HIDE DEF t
<1>4. TicketRules' /\ OthersStay(k) /\ book'.tickets[k] = t
  BY <1>2, <1>3, RulesStay DEF Rule
<1>5. IssuedMoves
  <2>1. \A x \in Assets \ {a} : book'.issuedOf[x] = book.issuedOf[x]  BY <1>1, <1>2 DEF CountersOK
  <2>2. book'.issued = book.issued - book.issuedOf[a] + book'.issuedOf[a]
    BY <1>1, <1>2 DEF CountersOK
  <2> QED  BY <2>1, <2>2 DEF IssuedMoves
<1>6. /\ Holds(o, "Reserved") = o.usd /\ Holds(o, "Redeeming") = 0
      /\ Holds(t, "Reserved") = 0 /\ Holds(t, "Redeeming") = 0
      /\ Counts(t) = Counts(o) /\ CountsReward(t) = CountsReward(o)
      /\ \A x : /\ HoldsOf(o, "Reserved", x) = (IF x = a THEN o.usd ELSE 0)
                /\ HoldsOf(o, "Redeeming", x) = 0
                /\ HoldsOf(t, "Reserved", x) = 0 /\ HoldsOf(t, "Redeeming", x) = 0
  BY <1>3 DEF Holds, HoldsOf, Counts, CountsReward
<1>7. Counts(o) \in Int /\ CountsReward(o) \in Int  BY <1>1 DEF Counts, CountsReward
<1>8. CountersMove(k)
  BY <1>1, <1>2, <1>4, <1>5, <1>6, <1>7 DEF CountersMove, CountersOK
<1> QED  BY <1>4, <1>8 DEF Moves

\* A redemption takes its share of the issued basis.
LEMMA BeginMoves ==
  ASSUME BookOK, TicketRules, NEW k \in Keys, NEW a \in Assets, NEW raw \in Raws,
         book.tickets[k].state = "None", book' = RedeemBegun(book, k, a, raw)
  PROVE  Moves(k)
<1> DEFINE o == book.tickets[k]
           usd == BasisOf(book, a, raw)
           cut == IF raw >= book.issuedRaw[a] THEN book.issuedRaw[a] ELSE raw
           t == [state |-> "Redeeming", lane |-> 0, sent |-> TRUE, unreviewed |-> FALSE,
                 asset |-> a, usd |-> usd, raw |-> cut]
<1>1. CountersOK /\ IsBook(book) /\ ~o.unreviewed  BY DEF BookOK, TicketRules, Rule
<1>2. /\ book'.tickets = [book.tickets EXCEPT ![k] = t]
      /\ book'.inflight = book.inflight /\ book'.issued = book.issued - usd
      /\ book'.redeeming = book.redeeming + usd /\ book'.unreviewed = book.unreviewed
      /\ book'.unreviewedReward = book.unreviewedReward
      /\ book'.issuedOf = [book.issuedOf EXCEPT ![a] = @ - usd]
      /\ book'.inflightOf = book.inflightOf
      /\ book'.redeemingOf = [book.redeemingOf EXCEPT ![a] = @ + usd]
  BY <1>1 DEF IsBook, RedeemBegun
<1>3. usd \in Nat  BY CapacityAssumption, BasisBounds
<1> HIDE DEF usd, cut
<1>4. TicketRules' /\ OthersStay(k) /\ book'.tickets[k] = t
  BY <1>2, RulesStay DEF Rule
<1>5. IssuedMoves
  <2>1. \A x \in Assets \ {a} : book'.issuedOf[x] = book.issuedOf[x]  BY <1>1, <1>2 DEF CountersOK
  <2>2. book'.issued = book.issued - book.issuedOf[a] + book'.issuedOf[a]
    BY <1>1, <1>2, <1>3 DEF CountersOK
  <2> QED  BY <2>1, <2>2 DEF IssuedMoves
<1>6. /\ Holds(o, "Reserved") = 0 /\ Holds(o, "Redeeming") = 0
      /\ Holds(t, "Reserved") = 0 /\ Holds(t, "Redeeming") = usd
      /\ Counts(o) = 0 /\ CountsReward(o) = 0 /\ Counts(t) = 0 /\ CountsReward(t) = 0
      /\ \A x : /\ HoldsOf(o, "Reserved", x) = 0 /\ HoldsOf(o, "Redeeming", x) = 0
                /\ HoldsOf(t, "Reserved", x) = 0
                /\ HoldsOf(t, "Redeeming", x) = (IF x = a THEN usd ELSE 0)
  BY <1>1 DEF Holds, HoldsOf, Counts, CountsReward
<1> HIDE DEF t
<1>7. CountersMove(k)
  BY <1>1, <1>2, <1>3, <1>4, <1>5, <1>6 DEF CountersMove, CountersOK
<1> QED  BY <1>4, <1>7 DEF Moves

\* A finalized redemption leaves nothing of its ticket in the counters but a review.
LEMMA FinalizeMoves ==
  ASSUME BookOK, TicketRules, NEW k \in Keys, book.tickets[k].state = "Redeeming",
         NEW reviewed \in BOOLEAN, book' = RedeemFinalized(book, k, reviewed)
  PROVE  Moves(k)
<1> DEFINE o == book.tickets[k]
           t == [o EXCEPT !.state = "Closed", !.unreviewed = ~reviewed]
           c == [book EXCEPT !.redeeming = @ - o.usd, !.redeemingOf[o.asset] = @ - o.usd,
                             !.tickets[k].state = "Closed", !.tickets[k].unreviewed = ~reviewed]
<1>1. /\ CountersOK /\ IsBook(book) /\ IsTicket(o) /\ Rule(o) /\ o.usd \in Nat
      /\ ~o.unreviewed /\ o.sent /\ o.asset \in Assets
  BY DEF BookOK, TicketRules, IsTicket, Rule
<1>2. book' = IF reviewed THEN c ELSE AddUnreviewed(c, o.lane, o.usd)
  BY DEF RedeemFinalized
<1>3. c.tickets = [book.tickets EXCEPT ![k] = t]  BY <1>1 DEF IsBook
<1>4. c = [book EXCEPT !.redeeming = @ - o.usd, !.redeemingOf[o.asset] = @ - o.usd,
                       !.tickets[k].state = "Closed", !.tickets[k].unreviewed = ~reviewed]
  OBVIOUS
<1> HIDE DEF c
<1>5. /\ IsBook(c) /\ c.inflight = book.inflight /\ c.issued = book.issued
      /\ c.redeeming = book.redeeming - o.usd
      /\ c.issuedOf = book.issuedOf /\ c.inflightOf = book.inflightOf
      /\ c.redeemingOf = [book.redeemingOf EXCEPT ![o.asset] = @ - o.usd]
      /\ c.unreviewed = book.unreviewed /\ c.unreviewedReward = book.unreviewedReward
  BY <1>1, <1>3, <1>4 DEF IsBook
<1>6. /\ t.state = "Closed" /\ t.usd = o.usd /\ t.asset = o.asset /\ t.lane = o.lane
      /\ t.unreviewed = ~reviewed /\ t.sent
  BY <1>1 DEF IsTicket
<1> HIDE DEF t
<1>7. /\ book'.tickets = c.tickets /\ book'.inflight = c.inflight /\ book'.issued = c.issued
      /\ book'.redeeming = c.redeeming /\ book'.issuedOf = c.issuedOf
      /\ book'.inflightOf = c.inflightOf /\ book'.redeemingOf = c.redeemingOf
      /\ book'.unreviewed = c.unreviewed + (IF reviewed THEN 0 ELSE o.usd)
      /\ book'.unreviewedReward =
           c.unreviewedReward + (IF ~reviewed /\ o.lane = 1 THEN o.usd ELSE 0)
  <2>0. c.unreviewed \in Int /\ c.unreviewedReward \in Int  BY <1>1, <1>5 DEF CountersOK
  <2>1. CASE reviewed
    <3>1. book' = c  BY <1>2, <2>1
    <3>2. /\ c.unreviewed = c.unreviewed + (IF reviewed THEN 0 ELSE o.usd)
          /\ c.unreviewedReward =
               c.unreviewedReward + (IF ~reviewed /\ o.lane = 1 THEN o.usd ELSE 0)
      BY <2>0, <2>1
    <3> QED  BY <3>1, <3>2
  <2>2. CASE ~reviewed
    <3>1. book' = AddUnreviewed(c, o.lane, o.usd)  BY <1>2, <2>2
    <3> QED  BY <1>1, <1>5, <2>2, <3>1 DEF IsBook, CountersOK, AddUnreviewed
  <2> QED  BY <2>1, <2>2
<1>8. TicketRules' /\ OthersStay(k) /\ book'.tickets[k] = t
  <2>1. Rule(t)  BY <1>1, <1>6 DEF Rule
  <2>2. book'.tickets = [book.tickets EXCEPT ![k] = t]  BY <1>3, <1>7
  <2> QED  BY <2>1, <2>2, RulesStay
<1>9. IssuedMoves  BY <1>5, <1>7, IssuedStays
<1>10. /\ Holds(o, "Reserved") = 0 /\ Holds(o, "Redeeming") = o.usd
       /\ Holds(t, "Reserved") = 0 /\ Holds(t, "Redeeming") = 0
       /\ Counts(o) = 0 /\ CountsReward(o) = 0
       /\ Counts(t) = (IF reviewed THEN 0 ELSE o.usd)
       /\ CountsReward(t) = (IF ~reviewed /\ o.lane = 1 THEN o.usd ELSE 0)
       /\ \A x : /\ HoldsOf(o, "Reserved", x) = 0
                 /\ HoldsOf(o, "Redeeming", x) = (IF x = o.asset THEN o.usd ELSE 0)
                 /\ HoldsOf(t, "Reserved", x) = 0 /\ HoldsOf(t, "Redeeming", x) = 0
  BY <1>1, <1>6 DEF Holds, HoldsOf, Counts, CountsReward
<1>11. CountersMove(k)
  BY <1>1, <1>5, <1>7, <1>8, <1>9, <1>10 DEF CountersMove, CountersOK
<1> QED  BY <1>8, <1>11 DEF Moves

\* A reverted redemption gives its share back to the issued basis.
LEMMA RevertMoves ==
  ASSUME BookOK, TicketRules, NEW k \in Keys, book.tickets[k].state = "Redeeming",
         book' = RedeemReverted(book, k)
  PROVE  Moves(k)
<1> DEFINE o == book.tickets[k]
           t == [o EXCEPT !.state = "Closed"]
<1>1. /\ CountersOK /\ IsBook(book) /\ IsTicket(o) /\ Rule(o) /\ o.usd \in Nat
      /\ ~o.unreviewed /\ o.asset \in Assets
  BY DEF BookOK, TicketRules, IsTicket, Rule
<1>2. /\ book'.tickets = [book.tickets EXCEPT ![k] = t]
      /\ book'.inflight = book.inflight /\ book'.issued = book.issued + o.usd
      /\ book'.redeeming = book.redeeming - o.usd
      /\ book'.unreviewed = book.unreviewed
      /\ book'.unreviewedReward = book.unreviewedReward
      /\ book'.issuedOf = [book.issuedOf EXCEPT ![o.asset] = @ + o.usd]
      /\ book'.inflightOf = book.inflightOf
      /\ book'.redeemingOf = [book.redeemingOf EXCEPT ![o.asset] = @ - o.usd]
  BY <1>1 DEF IsBook, RedeemReverted
<1>3. /\ t.state = "Closed" /\ t.asset = o.asset /\ ~t.unreviewed
  BY <1>1 DEF IsTicket
<1> HIDE DEF t
<1>4. TicketRules' /\ OthersStay(k) /\ book'.tickets[k] = t
  BY <1>1, <1>2, <1>3, RulesStay DEF Rule
<1>5. IssuedMoves
  <2>1. \A x \in Assets \ {o.asset} : book'.issuedOf[x] = book.issuedOf[x]
    BY <1>1, <1>2 DEF CountersOK
  <2>2. book'.issued = book.issued - book.issuedOf[o.asset] + book'.issuedOf[o.asset]
    BY <1>1, <1>2 DEF CountersOK
  <2> QED  BY <1>1, <2>1, <2>2 DEF IssuedMoves
<1>6. /\ Holds(o, "Reserved") = 0 /\ Holds(o, "Redeeming") = o.usd
      /\ Holds(t, "Reserved") = 0 /\ Holds(t, "Redeeming") = 0
      /\ Counts(o) = 0 /\ CountsReward(o) = 0 /\ Counts(t) = 0 /\ CountsReward(t) = 0
      /\ \A x : /\ HoldsOf(o, "Reserved", x) = 0
                /\ HoldsOf(o, "Redeeming", x) = (IF x = o.asset THEN o.usd ELSE 0)
                /\ HoldsOf(t, "Reserved", x) = 0 /\ HoldsOf(t, "Redeeming", x) = 0
  BY <1>1, <1>3 DEF Holds, HoldsOf, Counts, CountsReward
<1>7. CountersMove(k)
  BY <1>1, <1>2, <1>4, <1>5, <1>6 DEF CountersMove, CountersOK
<1> QED  BY <1>4, <1>7 DEF Moves

\* A review takes the amount of its ticket from the unreviewed ones.
LEMMA ReviewMoves ==
  ASSUME BookOK, TicketRules, NEW k \in Keys, book.tickets[k].unreviewed,
         book' = Reviewed(book, k)
  PROVE  Moves(k)
<1> DEFINE o == book.tickets[k]
           t == [o EXCEPT !.unreviewed = FALSE]
<1>1. CountersOK /\ IsBook(book) /\ IsTicket(o) /\ Rule(o) /\ o.usd \in Nat
  BY DEF BookOK, TicketRules, IsTicket
<1>2. /\ book'.tickets = [book.tickets EXCEPT ![k] = t]
      /\ book'.inflight = book.inflight /\ book'.issued = book.issued
      /\ book'.redeeming = book.redeeming /\ book'.issuedOf = book.issuedOf
      /\ book'.inflightOf = book.inflightOf /\ book'.redeemingOf = book.redeemingOf
      /\ book'.unreviewed = book.unreviewed - o.usd
      /\ book'.unreviewedReward = book.unreviewedReward - CountsReward(o)
  BY <1>1 DEF IsBook, CountersOK, Reviewed, SubUnreviewed, CountsReward
<1>3. /\ t.state = o.state /\ t.usd = o.usd /\ t.asset = o.asset /\ t.sent = o.sent
      /\ t.unreviewed = FALSE
  BY <1>1 DEF IsTicket
<1> HIDE DEF t
<1>4. TicketRules' /\ OthersStay(k) /\ book'.tickets[k] = t
  BY <1>1, <1>2, <1>3, RulesStay DEF Rule
<1>5. IssuedMoves  BY <1>2, IssuedStays
<1>6. /\ \A st : Holds(t, st) = Holds(o, st) /\ Holds(o, st) \in Int
      /\ \A st, x : HoldsOf(t, st, x) = HoldsOf(o, st, x) /\ HoldsOf(o, st, x) \in Int
      /\ Counts(o) = o.usd /\ Counts(t) = 0 /\ CountsReward(t) = 0 /\ CountsReward(o) \in Int
  BY <1>1, <1>3 DEF Holds, HoldsOf, Counts, CountsReward
<1>7. CountersMove(k)
  BY <1>1, <1>2, <1>4, <1>5, <1>6 DEF CountersMove, CountersOK
<1> QED  BY <1>4, <1>7 DEF Moves

\* A call that changes no ticket: nothing at all, or the shares of a result that found no
\* reservation.
LEMMA QuietMoves ==
  ASSUME CountersInv, BookOK', book'.tickets = book.tickets,
         book'.inflight = book.inflight, book'.issued = book.issued,
         book'.redeeming = book.redeeming, book'.unreviewed = book.unreviewed,
         book'.unreviewedReward = book.unreviewedReward, book'.issuedOf = book.issuedOf,
         book'.inflightOf = book.inflightOf, book'.redeemingOf = book.redeemingOf
  PROVE  CountersInv'
<1>1. TicketRules'  BY DEF CountersInv, TicketRules
<1>2. /\ \A S : UsdOver(book', S) = UsdOver(book, S)
      /\ \A st : InState(book', st) = InState(book, st)
      /\ \A a : OfAsset(book', a) = OfAsset(book, a)
      /\ Unreviewed(book') = Unreviewed(book)
      /\ UnreviewedRewards(book') = UnreviewedRewards(book)
  BY DEF UsdOver, InState, OfAsset, Unreviewed, UnreviewedRewards
<1>3. TotalsAreTickets'  BY <1>2 DEF CountersInv, TotalsAreTickets
<1> QED  BY <1>1, <1>3 DEF CountersInv

\* A call that moves the counters with its ticket.
LEMMA MovesKeep ==
  ASSUME CountersInv, BookOK', NEW k \in Keys, Moves(k)
  PROVE  CountersInv'
BY TotalsStay DEF CountersInv, Moves

\* Every operation on a ticket keeps the counters its sums; one step per operation.
LEMMA TicketsKeep ==
  ASSUME CountersInv, BookOK', NEW k \in Keys, TicketStep(k)
  PROVE  CountersInv'
<1> USE DEF CountersInv
<1>0. CASE book' = book  BY <1>0, QuietMoves
<1>1. ASSUME NEW lane \in {0, 1}, NEW a \in Assets, NEW usd \in Usds, ReserveFor(k, lane, a, usd)
      PROVE  CountersInv'
  <2>1. usd \in Nat  BY CapacityAssumption
  <2>2. Moves(k)  BY <1>1, <2>1, ReserveMoves DEF ReserveFor
  <2> QED  BY <2>2, MovesKeep
<1>2. CASE MarkSent(k)
  BY <1>2, SentMoves, MovesKeep DEF MarkSent
<1>3. CASE ReleaseUnsent(k)
  BY <1>3, DropMoves, MovesKeep DEF ReleaseUnsent
<1>4. CASE Release(k)
  BY <1>0, <1>4, DropMoves, MovesKeep DEF Release, Released
<1>5. ASSUME NEW a \in Assets, NEW raw \in Raws, FinalizeBuy(k, a, raw),
             book.tickets[k].state = "Reserved" => book.tickets[k].asset = a
      PROVE  CountersInv'
  <2>1. CASE book.tickets[k].state = "Reserved"
    BY <1>5, <2>1, BuyMoves, MovesKeep DEF FinalizeBuy
  <2>2. CASE book.tickets[k].state # "Reserved"
    <3>1. book' = [book EXCEPT !.issuedRaw[a] = @ + raw]
      BY <1>5, <2>2 DEF FinalizeBuy, BuyFinalized
    <3>2. IsBook(book)  BY DEF BookOK
    <3>3. /\ book'.tickets = book.tickets /\ book'.inflight = book.inflight
          /\ book'.issued = book.issued /\ book'.redeeming = book.redeeming
          /\ book'.unreviewed = book.unreviewed
          /\ book'.unreviewedReward = book.unreviewedReward
          /\ book'.issuedOf = book.issuedOf /\ book'.inflightOf = book.inflightOf
          /\ book'.redeemingOf = book.redeemingOf
      BY <3>1, <3>2 DEF IsBook
    <3> HIDE DEF CountersInv
    <3> QED  BY <3>3, QuietMoves
  <2> QED  BY <2>1, <2>2
<1>6. ASSUME NEW a \in Assets, NEW raw \in Raws, BeginRedeem(k, a, raw)
      PROVE  CountersInv'
  BY <1>6, BeginMoves, MovesKeep DEF BeginRedeem
<1>7. ASSUME NEW reviewed \in BOOLEAN, FinalizeRedeem(k, reviewed)
      PROVE  CountersInv'
  <2>1. CASE book.tickets[k].state = "Redeeming"
    BY <1>7, <2>1, FinalizeMoves, MovesKeep DEF FinalizeRedeem
  <2>2. CASE book.tickets[k].state # "Redeeming"
    BY <1>0, <1>7, <2>2 DEF FinalizeRedeem, RedeemFinalized
  <2> QED  BY <2>1, <2>2
<1>8. CASE RevertRedeem(k)
  <2>1. CASE book.tickets[k].state = "Redeeming"
    BY <1>8, <2>1, RevertMoves, MovesKeep DEF RevertRedeem
  <2>2. CASE book.tickets[k].state # "Redeeming"
    BY <1>0, <1>8, <2>2 DEF RevertRedeem, RedeemReverted
  <2> QED  BY <2>1, <2>2
<1>9. CASE MarkReviewed(k)
  <2>1. CASE book.tickets[k].unreviewed
    BY <1>9, <2>1, ReviewMoves, MovesKeep DEF MarkReviewed
  <2>2. CASE ~book.tickets[k].unreviewed
    BY <1>0, <1>9, <2>2 DEF MarkReviewed, Reviewed
  <2> QED  BY <2>1, <2>2
<1> QED
  BY <1>1, <1>2, <1>3, <1>4, <1>5, <1>6, <1>7, <1>8, <1>9 DEF TicketStep

\* With no ticket every counter is zero.
LEMMA TotalsBegin == CapInit => TicketRules /\ TotalsAreTickets
<1> SUFFICES ASSUME CapInit PROVE TicketRules /\ TotalsAreTickets  OBVIOUS
<1>1. /\ book.tickets = [k \in Keys |-> NoTicket]
      /\ book.inflight = 0 /\ book.issued = 0 /\ book.redeeming = 0
      /\ book.unreviewed = 0 /\ book.unreviewedReward = 0
      /\ book.issuedOf = [a \in Assets |-> 0]
      /\ book.inflightOf = [a \in Assets |-> 0] /\ book.redeemingOf = [a \in Assets |-> 0]
  BY DEF CapInit, EmptyBook
<1>2. NoTicket.usd = 0 /\ NoTicket.state = "None" /\ NoTicket.unreviewed = FALSE
      /\ NoTicket.asset \in Assets
  BY CapacityAssumption DEF NoTicket
<1> HIDE DEF CapInit
<1>3. ASSUME NEW S \in SUBSET Keys PROVE UsdOver(book, S) = 0
  <2> DEFINE f == [k \in Keys |-> book.tickets[k].usd]
  <2>1. IsFiniteSet(S) /\ \A k \in S : f[k] = 0  BY <1>1, <1>2, CapacityAssumption, FS_Subset
  <2> HIDE DEF f
  <2>2. Sum(f, S) = 0  BY <2>1, SumZero
  <2> QED  BY <2>2 DEF Sum, UsdOver, f
<1>4. SumFunction(book.issuedOf) = 0
  <2> DEFINE f == book.issuedOf
  <2>1. DOMAIN f = Assets /\ \A a \in Assets : f[a] = 0  BY <1>1
  <2> HIDE DEF f
  <2>2. Sum(f, Assets) = 0  BY <2>1, CapacityAssumption, SumZero
  <2> QED  BY <2>1, <2>2 DEF SumFunction, Sum, f
<1>5. /\ \A st : InState(book, st) \in SUBSET Keys
      /\ Unreviewed(book) \in SUBSET Keys /\ UnreviewedRewards(book) \in SUBSET Keys
  BY DEF InState, Unreviewed, UnreviewedRewards
<1>6. \A st, a : InState(book, st) \cap OfAsset(book, a) \in SUBSET Keys  BY <1>5
<1>7. TotalsAreTickets  BY <1>1, <1>3, <1>4, <1>5, <1>6 DEF TotalsAreTickets
<1>8. TicketRules  BY <1>1, <1>2 DEF TicketRules, Rule
<1> QED  BY <1>7, <1>8

\* The counters and the tickets are what the entry points are written for, in every state.
THEOREM CountersStay == CapSpec => []CountersInv
<1>1. CapInit => CountersInv  BY CapBegins, TotalsBegin DEF CountersInv
<1>2. ASSUME CountersInv, BookOK', [CapNext]_capVars PROVE CountersInv'
  <2>1. CASE \E k \in Keys : TicketStep(k)  BY <1>2, <2>1, TicketsKeep
  <2>2. CASE GovernanceStep \/ UNCHANGED capVars
    <3>1. book' = book
      BY <2>2 DEF GovernanceStep, LowerLimits, ProposeLimits, ExecuteLimits, SetAssetCap,
                  LowerAssetCap, ProposeAssetCap, ExecuteAssetCap, Tick, capVars
    <3> QED  BY <1>2, <3>1, QuietMoves
  <2> QED  BY <1>2, <2>1, <2>2 DEF CapNext
<1> QED  BY <1>1, <1>2, BookStays, PTL DEF CapSpec

\* A proposal that waits, and what it proposes.
Proposals(S) == {NoProposal} \cup [eta : 0..LimitDelay, to : S]

GovernanceOK ==
  /\ limits \in LimitsType
  /\ pendingLimits \in Proposals(LimitsType)
  /\ assetCap \in [Assets -> Nat \cup {NoCap}]
  /\ pendingAssetCap \in [Assets -> Proposals(CapChoices)]

\* Time takes one tick off a proposal that waits.
LEMMA ElapseTyped ==
  ASSUME NEW S, NEW p \in Proposals(S)
  PROVE  Elapse(p) \in Proposals(S)
<1>1. CASE p = NoProposal  BY <1>1 DEF Elapse, Proposals, NoProposal
<1>2. CASE p \in [eta : 0..LimitDelay, to : S]
  BY <1>2, CapacityAssumption DEF Elapse, Proposals
<1> QED  BY <1>1, <1>2 DEF Proposals

\* Every step keeps limits, caps and proposals typed.
LEMMA GovernanceSteps ==
  ASSUME GovernanceOK, [CapNext]_capVars
  PROVE  GovernanceOK'
<1>1. CASE \E k \in Keys : TicketStep(k)
  BY <1>1 DEF TicketStep, ReserveFor, MarkSent, ReleaseUnsent, Release, FinalizeBuy, BeginRedeem,
              FinalizeRedeem, RevertRedeem, MarkReviewed, governanceVars, GovernanceOK
<1>2. ASSUME NEW l \in LimitChoices, LowerLimits(l)  PROVE GovernanceOK'
  BY <1>2, CapacityAssumption DEF LowerLimits, GovernanceOK, Proposals
<1>3. ASSUME NEW l \in LimitChoices, ProposeLimits(l)  PROVE GovernanceOK'
  <2>1. pendingLimits' \in [eta : 0..LimitDelay, to : LimitsType]
    BY <1>3, CapacityAssumption DEF ProposeLimits
  <2> QED  BY <1>3, <2>1 DEF ProposeLimits, GovernanceOK, Proposals
<1>4. CASE ExecuteLimits
  <2>1. pendingLimits # NoProposal  BY <1>4 DEF ExecuteLimits, NoProposal
  <2>2. pendingLimits.to \in LimitsType  BY <2>1 DEF GovernanceOK, Proposals
  <2> QED  BY <1>4, <2>2 DEF ExecuteLimits, GovernanceOK, Proposals
<1>5. ASSUME NEW a \in Assets, NEW c \in CapChoices, SetAssetCap(a, c) \/ LowerAssetCap(a, c)
      PROVE GovernanceOK'
  BY <1>5, CapacityAssumption DEF SetAssetCap, LowerAssetCap, GovernanceOK
<1>6. ASSUME NEW a \in Assets, NEW c \in CapChoices, ProposeAssetCap(a, c)  PROVE GovernanceOK'
  <2> DEFINE p == [eta |-> LimitDelay, to |-> c]
  <2>1. p \in Proposals(CapChoices)  BY CapacityAssumption DEF Proposals
  <2> HIDE DEF p
  <2>2. pendingAssetCap' = [pendingAssetCap EXCEPT ![a] = p]  BY <1>6 DEF ProposeAssetCap, p
  <2> QED  BY <1>6, <2>1, <2>2 DEF ProposeAssetCap, GovernanceOK
<1>7. ASSUME NEW a \in Assets, ExecuteAssetCap(a)  PROVE GovernanceOK'
  <2> DEFINE p == pendingAssetCap[a]
  <2>1. p.eta = 0 /\ p \in Proposals(CapChoices)  BY <1>7 DEF ExecuteAssetCap, GovernanceOK
  <2>2. p # NoProposal  BY <2>1 DEF NoProposal
  <2>3. p.to \in Nat  BY <2>1, <2>2, CapacityAssumption DEF Proposals
  <2>4. NoProposal \in Proposals(CapChoices)  BY DEF Proposals
  <2> QED  BY <1>7, <2>3, <2>4 DEF ExecuteAssetCap, GovernanceOK
<1>8. CASE Tick
  BY <1>8, ElapseTyped DEF Tick, GovernanceOK
<1>9. CASE UNCHANGED capVars
  BY <1>9 DEF capVars, GovernanceOK
<1> QED
  BY <1>1, <1>2, <1>3, <1>4, <1>5, <1>6, <1>7, <1>8, <1>9 DEF CapNext, GovernanceStep

\* Limits, caps and their proposals keep their types, whoever proposes, lowers or executes
\* them (CapacityController.sol, governance).
THEOREM GovernanceTyped == CapSpec => []GovernanceOK
<1>1. CapInit => GovernanceOK
  BY CapacityAssumption DEF CapInit, GovernanceOK, Proposals
<1> QED  BY <1>1, GovernanceSteps, PTL DEF CapSpec

\* Every counter is exactly the sum of the tickets it stands for, and a natural number: no
\* finalize, release, review or revert ever subtracts more than is there (CapacityController.sol
\* :21), for any number of keys and assets and any order of calls.
THEOREM CountersExact == CapSpec => []CountersAreTickets
<1>1. CountersInv /\ GovernanceOK => CountersAreTickets
  <2> SUFFICES ASSUME CountersInv, GovernanceOK PROVE CountersAreTickets  OBVIOUS
  <2> USE DEF CountersInv
  <2>1. /\ \A st : InState(book, st) \in SUBSET Keys
        /\ \A st, a : InState(book, st) \cap OfAsset(book, a) \in SUBSET Keys
        /\ Unreviewed(book) \in SUBSET Keys /\ UnreviewedRewards(book) \in SUBSET Keys
    BY DEF InState, Unreviewed, UnreviewedRewards
  <2>2. /\ book.inflight \in Nat /\ book.redeeming \in Nat
        /\ book.unreviewed \in Nat /\ book.unreviewedReward \in Nat
        /\ \A a \in Assets : book.inflightOf[a] \in Nat /\ book.redeemingOf[a] \in Nat
    BY <2>1, UsdIsNat DEF TotalsAreTickets
  <2>3. book.issued \in Nat
    <3> DEFINE f == book.issuedOf
    <3>1. f \in [Assets -> Nat]  BY DEF BookOK, CountersOK
    <3> HIDE DEF f
    <3>2. DOMAIN f = Assets /\ \A a \in Assets : f[a] \in Nat  BY <3>1
    <3>3. Sum(f, Assets) \in Nat  BY <3>2, CapacityAssumption, SumNat
    <3>4. SumFunction(f) \in Nat  BY <3>2, <3>3 DEF SumFunction, Sum
    <3> QED  BY <3>4 DEF TotalsAreTickets, f
  <2>4. \A k \in Keys : book.tickets[k] \in TicketType
    BY DEF BookOK, IsTicket, TicketRules, Rule, TicketType
  <2>5. book.tickets \in [Keys -> TicketType]
    <3>1. book.tickets = [k \in Keys |-> book.tickets[k]]
      BY DEF BookOK
    <3> QED  BY <2>4, <3>1
  <2>6. book \in BookType
    <3>1. IsBook(book) /\ CountersOK  BY DEF BookOK
    <3>2. book.inflightOf \in [Assets -> Nat] /\ book.redeemingOf \in [Assets -> Nat]
      BY <2>2, <3>1 DEF CountersOK
    <3> QED  BY <2>2, <2>3, <2>5, <3>1, <3>2 DEF IsBook, CountersOK, BookType
  <2>7. /\ pendingLimits.eta \in -1..LimitDelay
        /\ \A a \in Assets : pendingAssetCap[a].eta \in -1..LimitDelay
    <3>1. \A S : \A p \in Proposals(S) : p.eta \in -1..LimitDelay
      BY CapacityAssumption DEF Proposals, NoProposal
    <3> QED  BY <3>1 DEF GovernanceOK
  <2>8. CapTypeOK  BY <2>6, <2>7 DEF CapTypeOK, GovernanceOK
  <2> QED  BY <2>8 DEF CountersAreTickets, TotalsAreTickets, Unreviewed, UnreviewedRewards
<1> QED  BY <1>1, CountersStay, GovernanceTyped, PTL

-----------------------------------------------------------------------------
(* The queues.  What the hub does to an order's status; an order that is   *)
(* placed is queued once, and leaves the queue only by being launched.     *)

\* The hub is a record, and so is every order.
RecordOf(o) ==
  o = [status |-> o.status, fee |-> o.fee, extra |-> o.extra, held |-> o.held, owed |-> o.owed,
       amountOut |-> o.amountOut, rawOut |-> o.rawOut, outcome |-> o.outcome,
       lzSettled |-> o.lzSettled, cancelRequested |-> o.cancelRequested,
       disputed |-> o.disputed, advanced |-> o.advanced, orphaned |-> o.orphaned,
       voided |-> o.voided, custodyRaw |-> o.custodyRaw, refundReady |-> o.refundReady,
       paid |-> o.paid, shares |-> o.shares, late |-> o.late]
HubRecord(h) ==
  /\ h = [order |-> h.order, native |-> h.native, escrowed |-> h.escrowed,
          accruedFees |-> h.accruedFees, claimableTotal |-> h.claimableTotal,
          supply |-> h.supply]
  /\ h.order = [j \in Ids |-> h.order[j]]
  /\ \A j \in Ids : RecordOf(h.order[j])

\* Of the orders only i has another status.
StatusMoves(h, g, i, st) ==
  /\ HubRecord(g) /\ g.order[i].status = st
  /\ \A j \in Ids \ {i} : g.order[j].status = h.order[j].status

\* One order put in its place.
LEMMA StatusPut ==
  ASSUME NEW h, HubRecord(h), NEW i \in Ids, NEW g, NEW o, RecordOf(o),
         NEW n, NEW e, NEW f, NEW c, NEW s,
         g = [order |-> [h.order EXCEPT ![i] = o], native |-> n, escrowed |-> e,
              accruedFees |-> f, claimableTotal |-> c, supply |-> s]
  PROVE  StatusMoves(h, g, i, o.status)
<1>1. g.order = [h.order EXCEPT ![i] = o]  OBVIOUS
<1>2. g.order[i] = o /\ \A j \in Ids \ {i} : g.order[j] = h.order[j]
  BY <1>1 DEF HubRecord
<1>3. g.order = [j \in Ids |-> g.order[j]]  BY <1>1 DEF HubRecord
<1>4. HubRecord(g)  BY <1>2, <1>3 DEF HubRecord
<1> QED  BY <1>2, <1>4 DEF StatusMoves

\* _pay moves no order on.
LEMMA StatusPaid ==
  ASSUME NEW h, HubRecord(h), NEW i \in Ids, NEW to, NEW amount, NEW g, g = Paid(h, i, to, amount)
  PROVE  StatusMoves(h, g, i, h.order[i].status)
<1>1. PICK o : o = h.order[i]  OBVIOUS
<1>2. RecordOf(o)  BY <1>1 DEF HubRecord
<1>3. PICK late, paid : /\ late = IF to = "treasury" THEN o.late + amount ELSE o.late
                        /\ paid = IF to = "user" THEN o.paid + amount ELSE o.paid
  OBVIOUS
<1>4. PICK a, b : a = [o EXCEPT !.owed = @ + amount, !.late = late] /\ b = [o EXCEPT !.paid = paid]
  OBVIOUS
<1>5. RecordOf(a) /\ RecordOf(b) /\ a.status = o.status /\ b.status = o.status
  BY <1>2, <1>4 DEF RecordOf
<1>6. CASE ~CanSend(h, amount) \/ (to = "user" /\ i \in Refusers)
  <2>1. g = [order |-> [h.order EXCEPT ![i] = a], native |-> h.native, escrowed |-> h.escrowed,
             accruedFees |-> h.accruedFees, claimableTotal |-> h.claimableTotal + amount,
             supply |-> h.supply]
    BY <1>1, <1>3, <1>4, <1>6, Zenon DEF Paid, HubRecord
  <2> QED  BY <1>1, <1>5, <2>1, StatusPut
<1>7. CASE ~(~CanSend(h, amount) \/ (to = "user" /\ i \in Refusers))
  <2>1. g = [order |-> [h.order EXCEPT ![i] = b], native |-> h.native - amount,
             escrowed |-> h.escrowed, accruedFees |-> h.accruedFees,
             claimableTotal |-> h.claimableTotal, supply |-> h.supply]
    BY <1>1, <1>3, <1>4, <1>7, Zenon DEF Paid, HubRecord
  <2> QED  BY <1>1, <1>5, <2>1, StatusPut
<1> QED  BY <1>6, <1>7

\* Two changes of one order.
LEMMA StatusThen ==
  ASSUME NEW h, NEW c, NEW g, NEW i, NEW st, NEW su, StatusMoves(h, c, i, st),
         StatusMoves(c, g, i, su)
  PROVE  StatusMoves(h, g, i, su)
BY DEF StatusMoves

\* refundBuy closes the order.
LEMMA StatusRefunded ==
  ASSUME NEW h, HubRecord(h), NEW i \in Ids, NEW g, g = BuyRefunded(h, i)
  PROVE  StatusMoves(h, g, i, "Cancelled")
<1>1. PICK o, amount : o = h.order[i] /\ amount = Principal + o.fee + o.extra + o.held  OBVIOUS
<1>2. RecordOf(o)  BY <1>1 DEF HubRecord
<1>3. PICK a : a = [o EXCEPT !.status = "Cancelled", !.extra = 0, !.held = 0]  BY SMTT(60)
<1>4. RecordOf(a) /\ a.status = "Cancelled"  BY <1>2, <1>3 DEF RecordOf
<1>5. PICK c : c = [h EXCEPT !.order[i].status = "Cancelled", !.order[i].extra = 0,
                             !.order[i].held = 0, !.escrowed = @ - amount]
  OBVIOUS
<1>6. c = [order |-> [h.order EXCEPT ![i] = a], native |-> h.native,
           escrowed |-> h.escrowed - amount, accruedFees |-> h.accruedFees,
           claimableTotal |-> h.claimableTotal, supply |-> h.supply]
  BY <1>1, <1>3, <1>5 DEF HubRecord
<1>7. StatusMoves(h, c, i, "Cancelled") /\ c.order[i] = a
  BY <1>4, <1>6, StatusPut DEF HubRecord
<1>8. CASE Lane(i) # 1
  <2>1. g = Paid(c, i, "user", amount)  BY <1>1, <1>5, <1>8, SMTT(60) DEF BuyRefunded
  <2>2. StatusMoves(c, g, i, "Cancelled")  BY <1>7, <2>1, StatusPaid DEF StatusMoves
  <2> QED  BY <1>7, <2>2, StatusThen
<1>9. CASE Lane(i) = 1
  <2>1. PICK d : d = [c EXCEPT !.order[i].refundReady = Principal, !.escrowed = @ + Principal]
    OBVIOUS
  <2>2. PICK b : b = [a EXCEPT !.refundReady = Principal]  OBVIOUS
  <2>3. RecordOf(b) /\ b.status = "Cancelled"  BY <1>4, <2>2 DEF RecordOf
  <2>4. d = [order |-> [c.order EXCEPT ![i] = b], native |-> c.native,
             escrowed |-> c.escrowed + Principal, accruedFees |-> c.accruedFees,
             claimableTotal |-> c.claimableTotal, supply |-> c.supply]
    BY <1>7, <2>1, <2>2 DEF StatusMoves, HubRecord
  <2>5. StatusMoves(c, d, i, "Cancelled")  BY <1>7, <2>3, <2>4, StatusPut DEF StatusMoves
  <2>6. g = Paid(d, i, "ops", amount - Principal)  BY <1>1, <1>5, <1>9, <2>1 DEF BuyRefunded
  <2>7. StatusMoves(d, g, i, "Cancelled")  BY <2>5, <2>6, StatusPaid DEF StatusMoves
  <2> QED  BY <1>7, <2>5, <2>7, StatusThen
<1> QED  BY <1>8, <1>9

\* _closeReturnedBuy closes it, or leaves it.
LEMMA StatusClosed ==
  ASSUME NEW h, HubRecord(h), NEW i \in Ids, NEW force, NEW g, g = ReturnedBuyClosed(h, i, force)
  PROVE  \E st \in {h.order[i].status, "Cancelled"} : StatusMoves(h, g, i, st)
<1>1. PICK o, pool : o = h.order[i] /\ pool = o.held + o.fee + o.extra  OBVIOUS
<1>2. RecordOf(o)  BY <1>1 DEF HubRecord
<1>3. PICK a : a = [o EXCEPT !.status = "Cancelled", !.held = 0, !.extra = 0, !.fee = 0]  OBVIOUS
<1>4. RecordOf(a) /\ a.status = "Cancelled"  BY <1>2, <1>3 DEF RecordOf
<1>5. PICK c : c = [h EXCEPT !.order[i] = a]  OBVIOUS
<1>6. ASSUME g = h  PROVE StatusMoves(h, g, i, h.order[i].status)
  <2>1. StatusMoves(h, h, i, h.order[i].status)  BY DEF StatusMoves
  <2> QED  BY <1>6, <2>1
<1>7. ASSUME NEW to, NEW amount, NEW e, NEW b, RecordOf(b), b.status = "Cancelled", NEW d,
             d = [order |-> [h.order EXCEPT ![i] = b], native |-> h.native, escrowed |-> e,
                  accruedFees |-> h.accruedFees, claimableTotal |-> h.claimableTotal,
                  supply |-> h.supply],
             g = Paid(d, i, to, amount)
      PROVE  StatusMoves(h, g, i, "Cancelled")
  <2>1. StatusMoves(h, d, i, "Cancelled")  BY <1>7, StatusPut
  <2>2. HubRecord(d) /\ d.order[i].status = "Cancelled"  BY <2>1 DEF StatusMoves
  <2>3. StatusMoves(d, g, i, d.order[i].status)  BY <1>7, <2>2, StatusPaid
  <2>4. StatusMoves(d, g, i, "Cancelled")  BY <2>2, <2>3
  <2> QED  BY <2>1, <2>4, StatusThen
<1>8. CASE Lane(i) = 0 /\ g # h
  <2>1. PICK d : d = [c EXCEPT !.escrowed = @ - pool]  OBVIOUS
  <2>2. d = [order |-> [h.order EXCEPT ![i] = a], native |-> h.native, escrowed |-> h.escrowed - pool,
             accruedFees |-> h.accruedFees, claimableTotal |-> h.claimableTotal,
             supply |-> h.supply]
    BY <1>5, <2>1 DEF HubRecord
  <2>3. g = Paid(d, i, "user", pool)  BY <1>1, <1>3, <1>5, <1>8, <2>1 DEF ReturnedBuyClosed
  <2> QED  BY <1>4, <1>7, <2>2, <2>3
<1>9. CASE Lane(i) # 0 /\ g # h
  <2>1. PICK d : d = [c EXCEPT !.order[i].refundReady = Principal,
                               !.escrowed = @ - (pool - Principal)]
    OBVIOUS
  <2>2. PICK b : b = [a EXCEPT !.refundReady = Principal]  OBVIOUS
  <2>3. RecordOf(b) /\ b.status = "Cancelled"  BY <1>4, <2>2 DEF RecordOf
  <2>4. d = [order |-> [h.order EXCEPT ![i] = b], native |-> h.native,
             escrowed |-> h.escrowed - (pool - Principal),
             accruedFees |-> h.accruedFees, claimableTotal |-> h.claimableTotal,
             supply |-> h.supply]
    BY <1>5, <2>1, <2>2 DEF HubRecord
  <2>5. g = Paid(d, i, "ops", pool - Principal)
    BY <1>1, <1>3, <1>5, <1>9, <2>1 DEF ReturnedBuyClosed
  <2> QED  BY <1>7, <2>3, <2>4, <2>5
<1> QED  BY <1>6, <1>8, <1>9

\* A failed buy waits for its principal or is closed; one the float refunded is closed.
LEMMA StatusFailed ==
  ASSUME HubRecord(hub), NEW i \in Ids, NEW g, g = BuyFailed(hub, i, FALSE)
  PROVE  \E st \in {"Returning", "Cancelled"} : StatusMoves(hub, g, i, st)
<1>1. PICK o, force : o = hub.order[i] /\ force = (o.status = "Escalated")  OBVIOUS
<1>2. RecordOf(o)  BY <1>1 DEF HubRecord
<1>3. PICK a : a = [o EXCEPT !.outcome = 3, !.rawOut = 0, !.lzSettled = TRUE]  OBVIOUS
<1>4. RecordOf(a) /\ a.status = o.status  BY <1>2, <1>3 DEF RecordOf
<1>5. PICK c : c = LzMarked([hub EXCEPT !.order[i].outcome = 3, !.order[i].rawOut = 0], i, FALSE)
  OBVIOUS
<1>6. c = [order |-> [hub.order EXCEPT ![i] = a], native |-> hub.native,
           escrowed |-> hub.escrowed, accruedFees |-> hub.accruedFees,
           claimableTotal |-> hub.claimableTotal, supply |-> hub.supply]
  BY <1>1, <1>3, <1>5 DEF HubRecord, LzMarked
<1>7. StatusMoves(hub, c, i, o.status) /\ c.order[i] = a
  BY <1>4, <1>6, StatusPut DEF HubRecord
<1>8. CASE FloatCancelled(i)
  <2>1. g = c  BY <1>5, <1>8 DEF BuyFailed
  <2>2. o.status = "Cancelled"  BY <1>1, <1>8 DEF FloatCancelled, Order
  <2> QED  BY <1>7, <2>1, <2>2
<1>9. CASE ~FloatCancelled(i)
  <2>1. PICK d : d = [c EXCEPT !.order[i].status = "Returning"]  OBVIOUS
  <2>2. PICK b : b = [a EXCEPT !.status = "Returning"]  OBVIOUS
  <2>3. RecordOf(b) /\ b.status = "Returning"  BY <1>4, <2>2 DEF RecordOf
  <2>4. d = [order |-> [c.order EXCEPT ![i] = b], native |-> c.native,
             escrowed |-> c.escrowed, accruedFees |-> c.accruedFees,
             claimableTotal |-> c.claimableTotal, supply |-> c.supply]
    BY <1>7, <2>1, <2>2 DEF StatusMoves, HubRecord
  <2>9. HubRecord(c)  BY <1>7 DEF StatusMoves
  <2>10. StatusMoves(c, d, i, b.status)  BY <2>3, <2>4, <2>9, StatusPut
  <2>5. StatusMoves(c, d, i, "Returning") /\ HubRecord(d) /\ d.order[i].status = "Returning"
    BY <2>3, <2>10, SMTT(60) DEF StatusMoves
  <2>6. g = ReturnedBuyClosed(d, i, force)  BY <1>1, <1>5, <1>9, <2>1 DEF BuyFailed
  <2>11. PICK st \in {d.order[i].status, "Cancelled"} : StatusMoves(d, g, i, st)
    BY <2>5, <2>6, StatusClosed
  <2>7. st \in {"Returning", "Cancelled"} /\ StatusMoves(d, g, i, st)  BY <2>5, <2>11
  <2> QED  BY <1>7, <2>5, <2>7, StatusThen
<1> QED  BY <1>8, <1>9

\* launch: what it does not leave pending it refunds, funds or dispatches.
LEMMA StatusLaunched ==
  ASSUME HubRecord(hub), NEW i \in Ids, NEW routeFee, Launch(i, routeFee)
  PROVE  /\ i \in Buys /\ hub.order[i].status = "Pending"
         /\ \E st \in {"Cancelled", "Funded", "Dispatched"} : StatusMoves(hub, hub', i, st)
<1>1. i \in Buys /\ hub.order[i].status = "Pending"  BY DEF Launch, Order
<1>2. PICK o, g : o = hub.order[i] /\ g = hub'  OBVIOUS
<1>3. RecordOf(o)  BY <1>2 DEF HubRecord
<1>4. PICK sent : sent = [hub EXCEPT !.order[i].extra = @ - routeFee, !.order[i].status = "Funded",
                                     !.escrowed = @ - (Principal + routeFee),
                                     !.native = @ - (Principal + routeFee)]
  OBVIOUS
<1>5. \/ g = BuyRefunded(hub, i)
      \/ g = sent
      \/ g = Dispatched(FeePaid(sent, i), i)
  BY <1>2, <1>4 DEF Launch
<1>6. PICK a : a = [o EXCEPT !.extra = @ - routeFee, !.status = "Funded"]  OBVIOUS
<1>7. RecordOf(a) /\ a.status = "Funded"  BY <1>3, <1>6 DEF RecordOf
<1>8. sent = [order |-> [hub.order EXCEPT ![i] = a], native |-> hub.native - (Principal + routeFee),
              escrowed |-> hub.escrowed - (Principal + routeFee), accruedFees |-> hub.accruedFees,
              claimableTotal |-> hub.claimableTotal, supply |-> hub.supply]
  BY <1>2, <1>4, <1>6 DEF HubRecord
<1>9. StatusMoves(hub, sent, i, "Funded") /\ sent.order[i] = a
  BY <1>7, <1>8, StatusPut DEF HubRecord
<1>10. CASE g = BuyRefunded(hub, i)
  <2>1. StatusMoves(hub, g, i, "Cancelled")  BY <1>10, StatusRefunded
  <2> QED  BY <1>1, <1>2, <2>1
<1>11. CASE g = sent  BY <1>1, <1>2, <1>9, <1>11
<1>12. CASE g = Dispatched(FeePaid(sent, i), i)
  <2>1. PICK b : b = [a EXCEPT !.extra = @ - LzFee, !.status = "Dispatched"]  OBVIOUS
  <2>2. RecordOf(b) /\ b.status = "Dispatched"  BY <1>7, <2>1 DEF RecordOf
  <2>3. g = [order |-> [sent.order EXCEPT ![i] = b], native |-> sent.native - LzFee,
             escrowed |-> sent.escrowed - LzFee, accruedFees |-> sent.accruedFees,
             claimableTotal |-> sent.claimableTotal, supply |-> sent.supply]
    BY <1>9, <1>12, <2>1 DEF StatusMoves, HubRecord, Dispatched, FeePaid
  <2>6. HubRecord(sent)  BY <1>9 DEF StatusMoves
  <2>7. StatusMoves(sent, g, i, b.status)  BY <2>2, <2>3, <2>6, StatusPut
  <2>4. StatusMoves(sent, g, i, "Dispatched")  BY <2>2, <2>7
  <2>5. StatusMoves(hub, g, i, "Dispatched")  BY <1>9, <2>4, StatusThen
  <2> QED  BY <1>1, <1>2, <2>5
<1> QED  BY <1>5, <1>10, <1>11, <1>12

\* requestBuy and beginFunding.
LEMMA StatusPlaced ==
  ASSUME HubRecord(hub), NEW i \in Buys, RequestBuy(i) \/ BeginFunding(i)
  PROVE  hub.order[i].status = "None" /\ StatusMoves(hub, hub', i, "Pending")
<1>1. hub.order[i].status = "None" /\ hub' = PlacedBuy(hub, i)
  BY DEF RequestBuy, BeginFunding, Order
<1>2. PICK a : a = [NoOrder EXCEPT !.status = "Pending", !.fee = BuyFee, !.extra = Extra]  OBVIOUS
<1>3. RecordOf(a) /\ a.status = "Pending"  BY <1>2 DEF RecordOf, NoOrder
<1>4. PICK more : more = Principal + BuyFee + Extra  OBVIOUS
<1>5. hub' = [order |-> [hub.order EXCEPT ![i] = a], native |-> hub.native + Principal + BuyFee + Extra,
              escrowed |-> hub.escrowed + Principal + BuyFee + Extra,
              accruedFees |-> hub.accruedFees, claimableTotal |-> hub.claimableTotal,
              supply |-> hub.supply]
  BY <1>1, <1>2 DEF PlacedBuy, HubRecord
<1> QED  BY <1>1, <1>3, <1>5, StatusPut DEF Ids

\* subsidize: a returning buy may close on what is added.
LEMMA StatusToppedUp ==
  ASSUME HubRecord(hub), NEW i \in Ids, NEW amount, Subsidize(i, amount)
  PROVE  /\ hub.order[i].status # "None"
         /\ \E st \in {hub.order[i].status, "Cancelled"} : StatusMoves(hub, hub', i, st)
<1>1. hub.order[i].status # "None"  BY DEF Subsidize, Order
<1>2. PICK o, g : o = hub.order[i] /\ g = hub'  OBVIOUS
<1>3. RecordOf(o)  BY <1>2 DEF HubRecord
<1>4. PICK a : a = [o EXCEPT !.extra = @ + amount]  OBVIOUS
<1>5. RecordOf(a) /\ a.status = o.status  BY <1>3, <1>4 DEF RecordOf
<1>6. PICK c : c = [hub EXCEPT !.order[i].extra = @ + amount, !.escrowed = @ + amount,
                               !.native = @ + amount]
  OBVIOUS
<1>7. c = [order |-> [hub.order EXCEPT ![i] = a], native |-> hub.native + amount,
           escrowed |-> hub.escrowed + amount, accruedFees |-> hub.accruedFees,
           claimableTotal |-> hub.claimableTotal, supply |-> hub.supply]
  BY <1>2, <1>4, <1>6 DEF HubRecord
<1>8. StatusMoves(hub, c, i, o.status)  BY <1>5, <1>7, StatusPut
<1>9. g = c \/ g = ReturnedBuyClosed(c, i, FALSE)  BY <1>2, <1>6 DEF Subsidize
<1>10. CASE g = c  BY <1>1, <1>2, <1>8, <1>10
<1>11. CASE g = ReturnedBuyClosed(c, i, FALSE)
  <2>3. HubRecord(c) /\ c.order[i].status = o.status  BY <1>8 DEF StatusMoves
  <2>1. PICK st \in {c.order[i].status, "Cancelled"} : StatusMoves(c, g, i, st)
    BY <1>11, <2>3, StatusClosed
  <2>2. StatusMoves(hub, g, i, st) /\ st \in {o.status, "Cancelled"}
    BY <1>8, <2>1, StatusThen DEF StatusMoves
  <2> QED  BY <1>1, <1>2, <2>2
<1> QED  BY <1>9, <1>10, <1>11

-----------------------------------------------------------------------------
(* The inductive invariant of the queues.                                  *)

\* Each queue holds placed buys of its lane, and its head is within it.
QueuesTyped ==
  /\ queue \in [Lanes -> Seq(Buys)] /\ head \in [Lanes -> Nat]
  /\ \A l \in Lanes : head[l] <= Len(queue[l])
  /\ \A l \in Lanes : \A n \in 1..Len(queue[l]) :
       Lane(queue[l][n]) = l /\ hub.order[queue[l][n]].status # "None"

\* A public buy is queued once and for all: only a reward buy is ever deferred.
PublicOnce ==
  \A m, n \in 1..Len(queue[0]) : queue[0][m] = queue[0][n] => m = n

\* A pending buy has one place ahead of the head.
WaitsOnce ==
  \A i \in Buys : hub.order[i].status = "Pending" =>
    \E n \in head[Lane(i)] + 1 .. Len(queue[Lane(i)]) :
      /\ queue[Lane(i)][n] = i
      /\ \A m \in head[Lane(i)] + 1 .. Len(queue[Lane(i)]) : queue[Lane(i)][m] = i => m = n

\* Launches past a ready reward order are among those since the last reward launch.
TurnsCounted ==
  /\ publicStreak \in Nat /\ passedOver \in Nat
  /\ passedOver <= publicStreak /\ passedOver <= PublicPerReward

QueueInv == HubRecord(hub) /\ QueuesTyped /\ PublicOnce /\ WaitsOnce

\* The lane of a buy, and what is added to a queue.
LEMMA LaneOfBuy == \A i : Lane(i) \in Lanes
BY DEF Lane, Lanes

\* What Append does to a queue: an entry more, the others where they were.
LEMMA AppendAt ==
  ASSUME NEW s \in Seq(Buys), NEW i \in Buys
  PROVE  /\ Append(s, i) \in Seq(Buys) /\ Len(Append(s, i)) = Len(s) + 1 /\ Len(s) \in Nat
         /\ \A n \in 1..Len(s) : Append(s, i)[n] = s[n]
         /\ Append(s, i)[Len(s) + 1] = i
OBVIOUS

\* An order moves on, and no order comes to wait.
LEMMA QueueWaits ==
  ASSUME QueueInv, UNCHANGED <<queue, head>>, NEW i \in Ids, NEW st, StatusMoves(hub, hub', i, st),
         st # "None", st = "Pending" => hub.order[i].status = "Pending"
  PROVE  QueueInv'
<1>1. /\ HubRecord(hub') /\ hub'.order[i].status = st
      /\ \A j \in Ids \ {i} : hub'.order[j].status = hub.order[j].status
  BY DEF StatusMoves
<1>2. \A j \in Ids : /\ hub'.order[j].status = "Pending" => hub.order[j].status = "Pending"
                     /\ hub.order[j].status # "None" => hub'.order[j].status # "None"
  BY <1>1
<1>3. \A j \in Buys : j \in Ids  BY DEF Ids
<1>4. \A l \in Lanes : \A n \in 1..Len(queue[l]) : queue[l][n] \in Buys  BY DEF QueueInv, QueuesTyped
<1>5. QueuesTyped'  BY <1>2, <1>3, <1>4 DEF QueueInv, QueuesTyped
<1>6. WaitsOnce'  BY <1>2, <1>3 DEF QueueInv, WaitsOnce
<1>7. PublicOnce'  BY DEF QueueInv, PublicOnce
<1> QED  BY <1>1, <1>5, <1>6, <1>7 DEF QueueInv

\* A step that leaves hub and queues alone.
LEMMA QueueStays ==
  ASSUME QueueInv, UNCHANGED <<hub, queue, head>>
  PROVE  QueueInv'
<1>1. hub' = hub /\ queue' = queue /\ head' = head  OBVIOUS
<1>2. HubRecord(hub')  BY <1>1 DEF QueueInv
<1>3. QueuesTyped'  BY <1>1 DEF QueueInv, QueuesTyped
<1>4. PublicOnce'  BY <1>1 DEF QueueInv, PublicOnce
<1>5. WaitsOnce'  BY <1>1 DEF QueueInv, WaitsOnce
<1> QED  BY <1>2, <1>3, <1>4, <1>5 DEF QueueInv

\* A head moves past what does not wait.
LEMMA QueueSkips ==
  ASSUME QueueInv, NEW l \in Lanes, SkipClosed(l)
  PROVE  QueueInv'
<1>1. PICK n \in head[l] + 1 .. Len(queue[l]) :
        /\ \A m \in head[l] + 1 .. n : ~Pending(queue[l][m])
        /\ head' = [head EXCEPT ![l] = n]
  BY DEF SkipClosed
<1>2. UNCHANGED <<hub, queue>>  BY DEF SkipClosed, hubVars
<1>3. head[l] \in Nat /\ Len(queue[l]) \in Nat /\ head \in [Lanes -> Nat] /\ queue \in [Lanes -> Seq(Buys)]
  BY DEF QueueInv, QueuesTyped
<1>4. head'[l] = n /\ n \in Nat /\ \A k \in Lanes \ {l} : head'[k] = head[k]  BY <1>1, <1>3
<1>5. QueuesTyped'
  <2>1. head' \in [Lanes -> Nat]  BY <1>1, <1>3
  <2>2. \A k \in Lanes : head'[k] <= Len(queue[k])  BY <1>1, <1>3, <1>4 DEF QueueInv, QueuesTyped
  <2> QED  BY <1>2, <2>1, <2>2 DEF QueueInv, QueuesTyped
<1>6. WaitsOnce'
  <2> SUFFICES ASSUME NEW i \in Buys, hub'.order[i].status = "Pending"
               PROVE  \E p \in head'[Lane(i)] + 1 .. Len(queue'[Lane(i)]) :
                        /\ queue'[Lane(i)][p] = i
                        /\ \A m \in head'[Lane(i)] + 1 .. Len(queue'[Lane(i)]) :
                             queue'[Lane(i)][m] = i => m = p
    BY DEF WaitsOnce
  <2>1. PICK p \in head[Lane(i)] + 1 .. Len(queue[Lane(i)]) :
          /\ queue[Lane(i)][p] = i
          /\ \A m \in head[Lane(i)] + 1 .. Len(queue[Lane(i)]) : queue[Lane(i)][m] = i => m = p
    BY <1>2 DEF QueueInv, WaitsOnce
  <2>2. CASE Lane(i) # l  BY <1>2, <1>4, <2>1, <2>2, LaneOfBuy
  <2>3. CASE Lane(i) = l
    <3>1. Pending(queue[l][p])  BY <1>2, <2>1, <2>3 DEF Pending, Order
    <3>2. p > n  BY <1>1, <1>3, <2>1, <2>3, <3>1
    <3> QED  BY <1>1, <1>2, <1>3, <1>4, <2>1, <2>3, <3>2
  <2> QED  BY <2>2, <2>3
<1> QED  BY <1>2, <1>5, <1>6 DEF QueueInv, HubRecord, RecordOf, PublicOnce

\* A placed buy is new to the queues.
LEMMA QueuePlaces ==
  ASSUME QueueInv, NEW i \in Buys, Place(i)
  PROVE  QueueInv'
<1> DEFINE l == Lane(i)
<1>1. hub.order[i].status = "None" /\ StatusMoves(hub, hub', i, "Pending")
  BY StatusPlaced DEF QueueInv, Place
<1>2. queue' = [queue EXCEPT ![l] = Append(queue[l], i)] /\ head' = head
  BY DEF Place, Enqueued
<1>3. /\ HubRecord(hub') /\ hub'.order[i].status = "Pending"
      /\ \A j \in Ids \ {i} : hub'.order[j].status = hub.order[j].status
  BY <1>1 DEF StatusMoves
<1>4. /\ head \in [Lanes -> Nat] /\ queue \in [Lanes -> Seq(Buys)] /\ l \in Lanes
      /\ \A k \in Lanes : head[k] <= Len(queue[k]) /\ Len(queue[k]) \in Nat
  BY LaneOfBuy DEF QueueInv, QueuesTyped
<1> HIDE DEF l
<1>5. /\ queue' \in [Lanes -> Seq(Buys)] /\ Len(queue'[l]) = Len(queue[l]) + 1
      /\ \A n \in 1..Len(queue[l]) : queue'[l][n] = queue[l][n]
      /\ queue'[l][Len(queue[l]) + 1] = i
      /\ \A k \in Lanes \ {l} : queue'[k] = queue[k]
  <2>1. queue[l] \in Seq(Buys)  BY <1>4
  <2>2. /\ Append(queue[l], i) \in Seq(Buys) /\ Len(Append(queue[l], i)) = Len(queue[l]) + 1
        /\ \A n \in 1..Len(queue[l]) : Append(queue[l], i)[n] = queue[l][n]
        /\ Append(queue[l], i)[Len(queue[l]) + 1] = i
    BY <2>1, AppendAt
  <2>3. queue'[l] = Append(queue[l], i)  BY <1>2, <1>4
  <2>4. queue' \in [Lanes -> Seq(Buys)]  BY <1>2, <1>4, <2>2
  <2>5. \A k \in Lanes \ {l} : queue'[k] = queue[k]  BY <1>2, <1>4
  <2> QED  BY <2>2, <2>3, <2>4, <2>5
<1>6. \A k \in Lanes : \A n \in 1..Len(queue[k]) :
        /\ queue[k][n] \in Buys /\ queue[k][n] # i
        /\ Lane(queue[k][n]) = k /\ hub.order[queue[k][n]].status # "None"
  BY <1>1, <1>4 DEF QueueInv, QueuesTyped
<1>7. \A j \in Buys : j \in Ids  BY DEF Ids
<1>8. QueuesTyped'
  <2>1. \A k \in Lanes : head'[k] <= Len(queue'[k])  BY <1>2, <1>4, <1>5
  <2>2. ASSUME NEW k \in Lanes, NEW n \in 1..Len(queue'[k])
        PROVE  Lane(queue'[k][n]) = k /\ hub'.order[queue'[k][n]].status # "None"
    <3>1. CASE k = l /\ n = Len(queue[l]) + 1
      <4>1. queue'[k][n] = i /\ hub'.order[queue'[k][n]].status = "Pending"  BY <1>3, <1>5, <3>1
      <4>2. Lane(queue'[k][n]) = k  BY <3>1, <4>1 DEF l
      <4> QED  BY <4>1, <4>2
    <3>2. CASE ~(k = l /\ n = Len(queue[l]) + 1)
      <4>1. n \in 1..Len(queue[k]) /\ queue'[k][n] = queue[k][n]
        <5>1. CASE k = l
          <6>1. n \in Nat /\ n # Len(queue[l]) + 1 /\ n <= Len(queue[l]) + 1 /\ n >= 1
            BY <1>4, <1>5, <3>2, <5>1
          <6>2. n \in 1..Len(queue[l])  BY <1>4, <6>1
          <6> QED  BY <1>5, <5>1, <6>2
        <5>2. CASE k # l  BY <1>5, <5>2
        <5> QED  BY <5>1, <5>2
      <4>2. queue[k][n] \in Ids \ {i} /\ Lane(queue[k][n]) = k /\ hub.order[queue[k][n]].status # "None"
        BY <1>6, <1>7, <4>1
      <4> QED  BY <1>3, <4>1, <4>2
    <3> QED  BY <3>1, <3>2
  <2> QED  BY <1>2, <1>4, <1>5, <2>1, <2>2 DEF QueuesTyped
<1>9. PublicOnce'
  <2> SUFFICES ASSUME NEW m \in 1..Len(queue'[0]), NEW n \in 1..Len(queue'[0]),
                      queue'[0][m] = queue'[0][n]
               PROVE  m = n
    BY DEF PublicOnce
  <2>0. 0 \in Lanes  BY DEF Lanes
  <2>1. CASE l # 0  BY <1>5, <2>0, <2>1 DEF QueueInv, PublicOnce
  <2>2. CASE l = 0
    <3>1. \A p \in 1..Len(queue'[0]) : p = Len(queue[0]) + 1 \/ p \in 1..Len(queue[0])
      BY <1>4, <1>5, <2>0, <2>2
    <3>2. \A p \in 1..Len(queue[0]) : queue'[0][p] = queue[0][p] /\ queue[0][p] # i
      BY <1>5, <1>6, <2>0, <2>2
    <3>3. queue'[0][Len(queue[0]) + 1] = i  BY <1>5, <2>2
    <3> QED  BY <3>1, <3>2, <3>3 DEF QueueInv, PublicOnce
  <2> QED  BY <2>1, <2>2
<1>10. WaitsOnce'
  <2> SUFFICES ASSUME NEW j \in Buys, hub'.order[j].status = "Pending"
               PROVE  \E p \in head'[Lane(j)] + 1 .. Len(queue'[Lane(j)]) :
                        /\ queue'[Lane(j)][p] = j
                        /\ \A m \in head'[Lane(j)] + 1 .. Len(queue'[Lane(j)]) :
                             queue'[Lane(j)][m] = j => m = p
    BY DEF WaitsOnce
  <2>1. CASE j = i
    <3>1. Lane(j) = l  BY <2>1 DEF l
    <3>2. Len(queue[l]) + 1 \in head'[l] + 1 .. Len(queue'[l])  BY <1>2, <1>4, <1>5
    <3>3. \A m \in head'[l] + 1 .. Len(queue'[l]) : queue'[l][m] = i => m = Len(queue[l]) + 1
      <4>1. \A m \in head'[l] + 1 .. Len(queue'[l]) : m = Len(queue[l]) + 1 \/ m \in 1..Len(queue[l])
        BY <1>2, <1>4, <1>5
      <4> QED  BY <1>4, <1>5, <1>6, <4>1, ZenonT(60)
    <3> QED  BY <1>5, <2>1, <3>1, <3>2, <3>3
  <2>2. CASE j # i
    <3>1. hub.order[j].status = "Pending"  BY <1>3, <1>7, <2>2
    <3>2. PICK p \in head[Lane(j)] + 1 .. Len(queue[Lane(j)]) :
            /\ queue[Lane(j)][p] = j
            /\ \A m \in head[Lane(j)] + 1 .. Len(queue[Lane(j)]) : queue[Lane(j)][m] = j => m = p
      BY <3>1 DEF QueueInv, WaitsOnce
    <3>3. CASE Lane(j) # l  BY <1>2, <1>5, <3>2, <3>3, LaneOfBuy
    <3>4. CASE Lane(j) = l
      <4>1. p \in head'[l] + 1 .. Len(queue'[l]) /\ queue'[l][p] = j
        BY <1>2, <1>4, <1>5, <3>2, <3>4
      <4>2. ASSUME NEW m \in head'[l] + 1 .. Len(queue'[l]), queue'[l][m] = j
            PROVE  m = p
        <5>1. m # Len(queue[l]) + 1  BY <1>5, <2>2, <4>2
        <5>2. m \in head[l] + 1 .. Len(queue[l]) /\ m \in 1..Len(queue[l])
          BY <1>2, <1>4, <1>5, <4>2, <5>1, SMTT(60)
        <5>3. queue[l][m] = j  BY <1>5, <4>2, <5>2
        <5> QED  BY <3>2, <3>4, <5>2, <5>3
      <4> QED  BY <3>4, <4>1, <4>2
    <3> QED  BY <3>3, <3>4
  <2> QED  BY <2>1, <2>2
<1> QED  BY <1>3, <1>8, <1>9, <1>10 DEF QueueInv

\* launchNext: what it launches is the first that waits; a deferred buy is queued again.
LEMMA QueueLaunches ==
  ASSUME QueueInv, NEW routeFee, LaunchNext(routeFee)
  PROVE  QueueInv'
<1>13. PICK next \in NextLaunch :
         /\ head' = [head EXCEPT ![next[1]] = next[2]]
         /\ \/ Launch(queue[next[1]][next[2]], routeFee) /\ UNCHANGED queue
            \/ /\ Deferred(queue[next[1]][next[2]], routeFee)
               /\ queue' = Enqueued(queue, 1, queue[next[1]][next[2]])
               /\ UNCHANGED hubVars
  BY DEF LaunchNext
<1>14. next[1] \in Lanes /\ next[2] \in Ready(next[1])
  BY <1>13 DEF NextLaunch, Lanes
<1>15. PICK l, n : l = next[1] /\ n = next[2]  OBVIOUS
<1>1. /\ l \in Lanes /\ n \in Ready(l) /\ head' = [head EXCEPT ![l] = n]
      /\ \/ Launch(queue[l][n], routeFee) /\ UNCHANGED queue
         \/ /\ Deferred(queue[l][n], routeFee)
            /\ queue' = Enqueued(queue, 1, queue[l][n])
            /\ UNCHANGED hubVars
  BY <1>13, <1>14, <1>15
<1> DEFINE i == queue[l][n]
<1>2. /\ head \in [Lanes -> Nat] /\ queue \in [Lanes -> Seq(Buys)]
      /\ \A k \in Lanes : head[k] <= Len(queue[k]) /\ Len(queue[k]) \in Nat
  BY DEF QueueInv, QueuesTyped
<1>3. /\ n \in head[l] + 1 .. Len(queue[l]) /\ n <= head[l] + ScanBound /\ Pending(i)
      /\ \A m \in head[l] + 1 .. n : m < n => ~Pending(queue[l][m])
  BY <1>1, <1>2, SchedulerAssumption DEF Ready, HeadsAt, Scanned
<1>4. n \in 1..Len(queue[l]) /\ n \in Nat /\ head'[l] = n /\ head' \in [Lanes -> Nat]
  BY <1>1, <1>2, <1>3
<1>5. \A k \in Lanes \ {l} : head'[k] = head[k]  BY <1>1, <1>2
<1>6. i \in Buys /\ i \in Ids /\ Lane(i) = l /\ hub.order[i].status = "Pending"
  BY <1>1, <1>2, <1>3, <1>4 DEF QueueInv, QueuesTyped, Pending, Order, Ids
<1>7. \A j \in Buys : j \in Ids  BY DEF Ids
<1> HIDE DEF i
<1>8. \A k \in Lanes : \A p \in 1..Len(queue[k]) :
        queue[k][p] \in Buys /\ Lane(queue[k][p]) = k /\ hub.order[queue[k][p]].status # "None"
  BY <1>2 DEF QueueInv, QueuesTyped
\* The entry taken is the only place of its order.
<1>9. \A m \in head[l] + 1 .. Len(queue[l]) : queue[l][m] = i => m = n
  BY <1>3, <1>6 DEF QueueInv, WaitsOnce, i
\* Another order that waits has its place behind the entry taken.
<1>10. ASSUME NEW j \in Buys \ {i}, hub.order[j].status = "Pending"
       PROVE  \E p \in head'[Lane(j)] + 1 .. Len(queue[Lane(j)]) :
                /\ queue[Lane(j)][p] = j
                /\ \A m \in head'[Lane(j)] + 1 .. Len(queue[Lane(j)]) :
                     queue[Lane(j)][m] = j => m = p
  <2>1. PICK p \in head[Lane(j)] + 1 .. Len(queue[Lane(j)]) :
          /\ queue[Lane(j)][p] = j
          /\ \A m \in head[Lane(j)] + 1 .. Len(queue[Lane(j)]) : queue[Lane(j)][m] = j => m = p
    BY <1>10 DEF QueueInv, WaitsOnce
  <2>2. CASE Lane(j) # l  BY <1>5, <2>1, <2>2, LaneOfBuy
  <2>3. CASE Lane(j) = l
    <3>1. Pending(queue[l][p])  BY <1>10, <2>1, <2>3 DEF Pending, Order
    <3>2. p # n  BY <2>1, <2>3, <1>10 DEF i
    <3>4. p \in head[l] + 1 .. Len(queue[l]) /\ Len(queue[l]) \in Nat /\ head[l] \in Nat
      BY <1>1, <1>2, <2>1, <2>3
    <3>3. p > n  BY <1>3, <1>4, <3>1, <3>2, <3>4
    <3>5. p \in head'[l] + 1 .. Len(queue[l])  BY <1>4, <3>3, <3>4
    <3>6. \A m \in head'[l] + 1 .. Len(queue[l]) : m \in head[l] + 1 .. Len(queue[l])
      BY <1>3, <1>4, <3>4
    <3> QED  BY <2>1, <2>3, <3>5, <3>6
  <2> QED  BY <2>2, <2>3
<1>11. CASE Launch(i, routeFee) /\ UNCHANGED queue
  <2>1. PICK st \in {"Cancelled", "Funded", "Dispatched"} : StatusMoves(hub, hub', i, st)
    BY <1>6, <1>11, StatusLaunched DEF QueueInv
  <2>2. /\ HubRecord(hub') /\ hub'.order[i].status \in {"Cancelled", "Funded", "Dispatched"}
        /\ \A j \in Ids \ {i} : hub'.order[j].status = hub.order[j].status
    BY <2>1 DEF StatusMoves
  <2>3. \A k \in Lanes : head'[k] <= Len(queue[k])  BY <1>1, <1>2, <1>3, <1>4, <1>5
  <2>4. \A k \in Lanes : \A p \in 1..Len(queue[k]) : hub'.order[queue[k][p]].status # "None"
    BY <1>7, <1>8, <2>2
  <2>5. QueuesTyped'  BY <1>2, <1>4, <1>8, <1>11, <2>3, <2>4 DEF QueuesTyped
  <2>6. WaitsOnce'
    <3> SUFFICES ASSUME NEW j \in Buys, hub'.order[j].status = "Pending"
                 PROVE  \E p \in head'[Lane(j)] + 1 .. Len(queue'[Lane(j)]) :
                          /\ queue'[Lane(j)][p] = j
                          /\ \A m \in head'[Lane(j)] + 1 .. Len(queue'[Lane(j)]) :
                               queue'[Lane(j)][m] = j => m = p
      BY DEF WaitsOnce
    <3>1. j \in Buys \ {i} /\ hub.order[j].status = "Pending"  BY <1>7, <2>2
    <3> QED  BY <1>10, <1>11, <3>1
  <2>7. PublicOnce'  BY <1>11 DEF QueueInv, PublicOnce
  <2> QED  BY <2>2, <2>5, <2>6, <2>7 DEF QueueInv
<1>12. CASE /\ Deferred(i, routeFee) /\ queue' = Enqueued(queue, 1, i) /\ UNCHANGED hubVars
  <2>1. l = 1 /\ hub' = hub /\ 0 \in Lanes /\ 1 \in Lanes
    BY <1>6, <1>12 DEF Deferred, hubVars, Lanes
  <2>2. queue[1] \in Seq(Buys)  BY <1>2, <2>1
  <2>3. /\ Append(queue[1], i) \in Seq(Buys) /\ Len(Append(queue[1], i)) = Len(queue[1]) + 1
        /\ \A p \in 1..Len(queue[1]) : Append(queue[1], i)[p] = queue[1][p]
        /\ Append(queue[1], i)[Len(queue[1]) + 1] = i
    BY <1>6, <2>2, AppendAt
  <2>4. queue' = [queue EXCEPT ![1] = Append(queue[1], i)]  BY <1>12 DEF Enqueued
  <2>5. /\ queue' \in [Lanes -> Seq(Buys)] /\ Len(queue'[1]) = Len(queue[1]) + 1
        /\ \A p \in 1..Len(queue[1]) : queue'[1][p] = queue[1][p]
        /\ queue'[1][Len(queue[1]) + 1] = i
        /\ \A k \in Lanes \ {1} : queue'[k] = queue[k]
    BY <1>2, <2>1, <2>3, <2>4
  <2>6. QueuesTyped'
    <3>3. \A k \in Lanes : head'[k] <= Len(queue[k])  BY <1>1, <1>2, <1>3, <1>4, <1>5
    <3>4. ASSUME NEW k \in Lanes  PROVE Len(queue[k]) <= Len(queue'[k])
      <4>1. CASE k = 1  BY <1>2, <2>1, <2>5, <4>1
      <4>2. CASE k # 1  BY <1>2, <2>5, <4>2
      <4> QED  BY <4>1, <4>2
    <3>5. \A k \in Lanes : head'[k] \in Nat /\ Len(queue[k]) \in Nat /\ Len(queue'[k]) \in Nat
      BY <1>2, <1>4, <2>5
    <3>1. \A k \in Lanes : head'[k] <= Len(queue'[k])  BY <3>3, <3>4, <3>5
    <3>2. ASSUME NEW k \in Lanes, NEW p \in 1..Len(queue'[k])
          PROVE  Lane(queue'[k][p]) = k /\ hub'.order[queue'[k][p]].status # "None"
      <4>1. CASE k = 1 /\ p = Len(queue[1]) + 1
        <5>1. queue'[k][p] = i  BY <2>5, <4>1
        <5> QED  BY <1>6, <2>1, <4>1, <5>1
      <4>2. CASE ~(k = 1 /\ p = Len(queue[1]) + 1)
        <5>1. p \in 1..Len(queue[k]) /\ queue'[k][p] = queue[k][p]  BY <1>2, <2>5, <4>2
        <5> QED  BY <1>8, <2>1, <5>1
      <4> QED  BY <4>1, <4>2
    <3> QED  BY <1>4, <2>5, <3>1, <3>2 DEF QueuesTyped
  <2>7. PublicOnce'  BY <2>1, <2>5 DEF QueueInv, PublicOnce
  <2>8. WaitsOnce'
    <3> SUFFICES ASSUME NEW j \in Buys, hub'.order[j].status = "Pending"
                 PROVE  \E p \in head'[Lane(j)] + 1 .. Len(queue'[Lane(j)]) :
                          /\ queue'[Lane(j)][p] = j
                          /\ \A m \in head'[Lane(j)] + 1 .. Len(queue'[Lane(j)]) :
                               queue'[Lane(j)][m] = j => m = p
      BY DEF WaitsOnce
    <3>1. CASE j = i
      <4>1. Lane(j) = 1  BY <1>6, <2>1, <3>1
      <4>2. Len(queue[1]) + 1 \in head'[1] + 1 .. Len(queue'[1])  BY <1>2, <1>3, <1>4, <2>1, <2>5
      <4>3. ASSUME NEW m \in head'[1] + 1 .. Len(queue'[1]), queue'[1][m] = i
            PROVE  m = Len(queue[1]) + 1
        <5>1. CASE m # Len(queue[1]) + 1
          <6>1. m \in head[1] + 1 .. Len(queue[1]) /\ m \in 1..Len(queue[1]) /\ m > n
            BY <1>2, <1>3, <1>4, <2>1, <2>5, <4>3, <5>1, SMTT(60)
          <6>2. queue[1][m] = i  BY <2>5, <4>3, <6>1
          <6> QED  BY <1>4, <1>9, <2>1, <6>1, <6>2
        <5> QED  BY <5>1
      <4> QED  BY <2>5, <3>1, <4>1, <4>2, <4>3
    <3>2. CASE j # i
      <4>1. PICK p \in head'[Lane(j)] + 1 .. Len(queue[Lane(j)]) :
              /\ queue[Lane(j)][p] = j
              /\ \A m \in head'[Lane(j)] + 1 .. Len(queue[Lane(j)]) :
                   queue[Lane(j)][m] = j => m = p
        BY <1>10, <2>1, <3>2
      <4>2. CASE Lane(j) # 1  BY <2>5, <4>1, <4>2, LaneOfBuy, ZenonT(60)
      <4>3. CASE Lane(j) = 1
        <5>1. p \in head'[1] + 1 .. Len(queue'[1]) /\ queue'[1][p] = j
          BY <1>2, <1>4, <2>1, <2>5, <4>1, <4>3, SMTT(60)
        <5>2. ASSUME NEW m \in head'[1] + 1 .. Len(queue'[1]), queue'[1][m] = j
              PROVE  m = p
          <6>1. m # Len(queue[1]) + 1  BY <2>5, <3>2, <5>2
          <6>2. m \in head'[1] + 1 .. Len(queue[1]) /\ m \in 1..Len(queue[1])
            BY <1>2, <1>4, <2>1, <2>5, <5>2, <6>1, SMTT(60)
          <6>3. queue[1][m] = j  BY <2>5, <5>2, <6>2
          <6> QED  BY <4>1, <4>3, <6>2, <6>3
        <5> QED  BY <4>3, <5>1, <5>2
      <4> QED  BY <4>2, <4>3
    <3> QED  BY <3>1, <3>2
  <2>9. HubRecord(hub')  BY <2>1 DEF QueueInv
  <2> QED  BY <2>6, <2>7, <2>8, <2>9 DEF QueueInv
<1> QED  BY <1>1, <1>11, <1>12 DEF i

\* The queues start empty.
LEMMA QueueBegins == SchedInit => QueueInv /\ TurnsCounted
<1> SUFFICES ASSUME SchedInit PROVE QueueInv /\ TurnsCounted  OBVIOUS
<1>1. hub = [order |-> [i \in Ids |-> NoOrder], native |-> HubFloat, escrowed |-> 0,
             accruedFees |-> 0, claimableTotal |-> 0, supply |-> InitialSupply]
  BY DEF SchedInit, HubInit
<1>2. RecordOf(NoOrder) /\ NoOrder.status = "None"  BY DEF RecordOf, NoOrder
<1>3. hub.order = [i \in Ids |-> NoOrder]  BY <1>1
<1>4. \A i \in Ids : hub.order[i] = NoOrder  BY <1>3
<1>5. HubRecord(hub)  BY <1>1, <1>2, <1>4 DEF HubRecord
<1>6. queue = [l \in Lanes |-> <<>>] /\ head = [l \in Lanes |-> 0]  BY DEF SchedInit
<1>7. <<>> \in Seq(Buys) /\ Len(<<>>) = 0  OBVIOUS
<1>8. \A l \in Lanes : queue[l] = <<>> /\ head[l] = 0  BY <1>6
<1>9. QueuesTyped  BY <1>6, <1>7, <1>8 DEF QueuesTyped
<1>10. PublicOnce
  <2>1. 0 \in Lanes  BY DEF Lanes
  <2> QED  BY <1>7, <1>8, <2>1 DEF PublicOnce
<1>11. WaitsOnce
  <2>1. \A i \in Buys : i \in Ids  BY DEF Ids
  <2>2. \A i \in Buys : hub.order[i].status = "None"  BY <1>2, <1>4, <2>1
  <2> QED  BY <2>2 DEF WaitsOnce
<1>12. TurnsCounted  BY SchedulerAssumption DEF SchedInit, TurnsCounted
<1> QED  BY <1>5, <1>9, <1>10, <1>11, <1>12 DEF QueueInv

\* The order a step of the hub is about.
LEMMA TakenBackWaitsNot ==
  ASSUME QueueInv, NEW i \in Buys, TakeBack(i)
  PROVE  QueueInv'
<1>1. hub' = BuyRefunded(hub, i) /\ UNCHANGED <<queue, head>>
  BY DEF TakeBack, CancelPending, CancelReward, queueVars
<1>2. i \in Ids  BY DEF Ids
<1>3. StatusMoves(hub, hub', i, "Cancelled")  BY <1>1, <1>2, StatusRefunded DEF QueueInv
<1> QED  BY <1>1, <1>2, <1>3, QueueWaits

\* A failed answer closes its order, or leaves it to wait for its principal.
LEMMA FailedWaitsNot ==
  ASSUME QueueInv, NEW i \in Buys, FailedAnswer(i)
  PROVE  QueueInv'
<1>1. hub' = BuyFailed(hub, i, FALSE) /\ UNCHANGED <<queue, head>>
  <2>1. PICK r : r = [ref |-> i, outcome |-> "Failed", amountIn |-> Principal, amountOut |-> 0]
    OBVIOUS
  <2>2. r.ref = i /\ r.outcome = "Failed"  BY <2>1
  <2>3. Settle(i, r, FALSE) /\ UNCHANGED queueVars
    BY <2>1, <2>2 DEF FailedAnswer, ReceiveResult
  <2>4. i \notin Sells  BY HubAssumption
  <2> QED  BY <2>2, <2>3, <2>4 DEF Settle, queueVars
<1>2. i \in Ids  BY DEF Ids
<1>3. PICK st \in {"Returning", "Cancelled"} : StatusMoves(hub, hub', i, st)
  BY <1>1, <1>2, StatusFailed DEF QueueInv
<1> QED  BY <1>1, <1>2, <1>3, QueueWaits

\* A subsidy changes the reserve of a buy, not its place.
LEMMA ToppedUpWaits ==
  ASSUME QueueInv, NEW i \in Buys, NEW amount, TopUp(i, amount)
  PROVE  QueueInv'
<1>1. Subsidize(i, amount) /\ UNCHANGED <<queue, head>>  BY DEF TopUp, queueVars
<1>2. i \in Ids  BY DEF Ids
<1>3. hub.order[i].status # "None"  BY <1>1 DEF Subsidize, Order
<1>4. PICK st \in {hub.order[i].status, "Cancelled"} : StatusMoves(hub, hub', i, st)
  BY <1>1, <1>2, StatusToppedUp DEF QueueInv
<1> QED  BY <1>1, <1>2, <1>3, <1>4, QueueWaits

\* Every step of the queues keeps their invariant.
LEMMA QueueSteps == QueueInv /\ [SchedNext]_schedVars => QueueInv'
<1> SUFFICES ASSUME QueueInv, [SchedNext]_schedVars PROVE QueueInv'  OBVIOUS
<1>1. ASSUME NEW routeFee \in RouteFees, LaunchNext(routeFee)  PROVE QueueInv'
  BY <1>1, QueueLaunches
<1>2. ASSUME NEW l \in Lanes, SkipClosed(l)  PROVE QueueInv'  BY <1>2, QueueSkips
<1>3. ASSUME NEW i \in Buys, Place(i)  PROVE QueueInv'  BY <1>3, QueuePlaces
<1>4. ASSUME NEW i \in Buys, TakeBack(i)  PROVE QueueInv'  BY <1>4, TakenBackWaitsNot
<1>5. ASSUME NEW i \in Buys, FailedAnswer(i)  PROVE QueueInv'  BY <1>5, FailedWaitsNot
<1>6. ASSUME NEW i \in RewardBuys, ReserveReward(i), UNCHANGED queueVars  PROVE QueueInv'
  BY <1>6, QueueStays DEF ReserveReward, queueVars
<1>7. ASSUME NEW i \in Buys, NEW amount \in Subsidies, TopUp(i, amount)  PROVE QueueInv'
  BY <1>7, ToppedUpWaits
<1>8. ASSUME NEW l \in LimitChoices, Guardian(l)  PROVE QueueInv'
  BY <1>8, QueueStays DEF Guardian, queueVars
<1>9. CASE UNCHANGED schedVars
  BY <1>9, QueueStays DEF schedVars, hubVars, queueVars
<1> QED  BY <1>1, <1>2, <1>3, <1>4, <1>5, <1>6, <1>7, <1>8, <1>9 DEF SchedNext

\* A public launch past a ready reward order is within the public run.
LEMMA TurnsStay == TurnsCounted /\ [SchedNext]_schedVars => TurnsCounted'
<1> SUFFICES ASSUME TurnsCounted, [SchedNext]_schedVars PROVE TurnsCounted'  OBVIOUS
<1>1. ASSUME NEW routeFee, LaunchNext(routeFee)  PROVE TurnsCounted'
  <2>1. PICK next \in NextLaunch :
          /\ publicStreak' = IF next[1] = 0 THEN publicStreak + 1 ELSE 0
          /\ passedOver' = IF next[1] = 0 /\ Ready(1) # {} THEN passedOver + 1 ELSE 0
    BY <1>1 DEF LaunchNext
  <2>2. CASE next[1] = 0 /\ Ready(1) # {}
    <3>1. ~RewardTurn  BY <2>1, <2>2 DEF NextLaunch
    <3> QED  BY <2>1, <2>2, <3>1, SchedulerAssumption DEF RewardTurn, TurnsCounted
  <2>3. CASE ~(next[1] = 0 /\ Ready(1) # {})
    BY <2>1, <2>3, SchedulerAssumption DEF TurnsCounted
  <2> QED  BY <2>2, <2>3
<1>2. CASE UNCHANGED <<publicStreak, passedOver>>  BY <1>2 DEF TurnsCounted
<1>3. (\E routeFee \in RouteFees : LaunchNext(routeFee)) \/ UNCHANGED <<publicStreak, passedOver>>
  BY DEF SchedNext, SkipClosed, Place, TakeBack, FailedAnswer, TopUp, Guardian, queueVars, schedVars
<1> QED  BY <1>1, <1>2, <1>3

\* The entry of a public order that waits is ahead of the head.
LEMMA PublicAhead ==
  ASSUME QueueInv, NEW n \in DOMAIN queue[0], Pending(queue[0][n])
  PROVE  n > head[0] /\ n \in Nat /\ n <= Len(queue[0])
<1>1. 0 \in Lanes /\ queue[0] \in Seq(Buys) /\ head[0] \in Nat /\ Len(queue[0]) \in Nat
  BY DEF QueueInv, QueuesTyped, Lanes
<1>2. n \in 1..Len(queue[0]) /\ queue[0][n] \in Buys /\ Lane(queue[0][n]) = 0
  BY <1>1 DEF QueueInv, QueuesTyped
<1>3. PICK p \in head[0] + 1 .. Len(queue[0]) : queue[0][p] = queue[0][n]
  BY <1>2 DEF QueueInv, WaitsOnce, Pending, Order
<1>4. p = n  BY <1>1, <1>2, <1>3 DEF QueueInv, PublicOnce
<1> QED  BY <1>1, <1>2, <1>3, <1>4

\* No step takes the public head to an order that waits behind another.
LEMMA ArrivalSteps ==
  QueueInv /\ [SchedNext]_schedVars =>
    \A m, n \in DOMAIN queue[0] :
      m < n /\ Pending(queue[0][m]) /\ Pending(queue[0][n]) /\ head'[0] # head[0] => head'[0] < n
<1> SUFFICES ASSUME QueueInv, [SchedNext]_schedVars,
                    NEW m \in DOMAIN queue[0], NEW n \in DOMAIN queue[0], m < n,
                    Pending(queue[0][m]), Pending(queue[0][n]), head'[0] # head[0]
             PROVE  head'[0] < n
  OBVIOUS
<1>1. /\ 0 \in Lanes /\ 1 \in Lanes /\ head \in [Lanes -> Nat]
      /\ head[0] \in Nat /\ Len(queue[0]) \in Nat
  BY DEF QueueInv, QueuesTyped, Lanes
<1>2. m \in head[0] + 1 .. Len(queue[0]) /\ n \in head[0] + 1 .. Len(queue[0])
  BY <1>1, PublicAhead
<1>3. CASE \E l \in Lanes : SkipClosed(l)
  <2>4. PICK l \in Lanes : SkipClosed(l)  BY <1>3
  <2>1. PICK p \in head[l] + 1 .. Len(queue[l]) :
          /\ head' = [head EXCEPT ![l] = p]
          /\ \A k \in head[l] + 1 .. p : ~Pending(queue[l][k])
    BY <2>4 DEF SkipClosed
  <2>2. l = 0 /\ head'[0] = p  BY <1>1, <2>1
  <2>3. ~(n <= p)  BY <1>1, <1>2, <2>1, <2>2
  <2> QED  BY <1>1, <1>2, <2>1, <2>2, <2>3
<1>4. CASE \E routeFee \in RouteFees : LaunchNext(routeFee)
  <2>1. PICK next \in NextLaunch : head' = [head EXCEPT ![next[1]] = next[2]]
    BY <1>4 DEF LaunchNext
  <2>2. PICK p : p = next[2]  OBVIOUS
  <2>3. next[1] = 0 /\ p \in Ready(0) /\ head'[0] = p
    <3>1. (next[1] = 0 /\ p \in Ready(0)) \/ next[1] = 1  BY <2>1, <2>2 DEF NextLaunch
    <3>2. next[1] # 1  BY <1>1, <2>1
    <3> QED  BY <1>1, <2>1, <2>2, <3>1, <3>2
  <2>4. /\ p \in head[0] + 1 .. Len(queue[0]) /\ p <= head[0] + ScanBound
        /\ \A k \in Scanned(0) : k < p => ~Pending(queue[0][k])
    BY <2>3 DEF Ready, HeadsAt, Scanned
  <2>5. ~(m < p)
    <3>1. m < p => m \in Scanned(0)  BY <1>1, <1>2, <2>4, SchedulerAssumption DEF Scanned
    <3> QED  BY <2>4, <3>1
  <2> QED  BY <1>1, <1>2, <2>3, <2>4, <2>5
<1>5. ASSUME UNCHANGED head  PROVE FALSE  BY <1>5
<1>6. \/ \E routeFee \in RouteFees : LaunchNext(routeFee)
      \/ \E l \in Lanes : SkipClosed(l)
      \/ UNCHANGED head
  BY DEF SchedNext, Place, TakeBack, FailedAnswer, TopUp, Guardian, queueVars, schedVars
<1> QED  BY <1>3, <1>4, <1>5, <1>6

\* No waiting order is lost: skipping, launching, taking back and deferring leave every
\* pending buy one place ahead of its queue's head.
THEOREM WaitingAreQueued == SchedSpec => []PendingIsQueuedOnce
<1>1. SchedInit => QueueInv  BY QueueBegins
<1>2. QueueInv => PendingIsQueuedOnce
  <2> SUFFICES ASSUME QueueInv, NEW i \in Buys, Pending(i)
               PROVE  \E n \in {k \in head[Lane(i)] + 1 .. Len(queue[Lane(i)]) : queue[Lane(i)][k] = i} :
                        {k \in head[Lane(i)] + 1 .. Len(queue[Lane(i)]) : queue[Lane(i)][k] = i} = {n}
    BY DEF PendingIsQueuedOnce
  <2>1. PICK n \in head[Lane(i)] + 1 .. Len(queue[Lane(i)]) :
          /\ queue[Lane(i)][n] = i
          /\ \A m \in head[Lane(i)] + 1 .. Len(queue[Lane(i)]) : queue[Lane(i)][m] = i => m = n
    BY DEF QueueInv, WaitsOnce, Pending, Order
  <2> QED  BY <2>1
<1> QED  BY <1>1, <1>2, QueueSteps, PTL DEF SchedSpec

\* A reward order whose turn has come is not passed again, wherever the lent slots fell.
THEOREM RewardsTakeTheirTurn == SchedSpec => []RewardTurnComes
<1>1. SchedInit => TurnsCounted  BY QueueBegins
<1>2. TurnsCounted => RewardTurnComes  BY DEF TurnsCounted, RewardTurnComes
<1> QED  BY <1>1, <1>2, TurnsStay, PTL DEF SchedSpec

\* Public orders go in the order they came: nextLaunch and skipClosed never move the
\* head past an order that waits behind another.
THEOREM PublicGoInOrder == SchedSpec => PublicOrderOfArrival
<1>1. SchedInit => QueueInv  BY QueueBegins
<1>2. QueueInv /\ [SchedNext]_schedVars =>
        [\A m, n \in DOMAIN queue[0] :
           m < n /\ Pending(queue[0][m]) /\ Pending(queue[0][n]) /\ head'[0] # head[0]
             => head'[0] < n]_schedVars
  BY ArrivalSteps
<1> QED  BY <1>1, <1>2, QueueSteps, PTL DEF SchedSpec, PublicOrderOfArrival

=============================================================================
