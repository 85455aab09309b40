------------------------- MODULE CapacityController -------------------------
(***************************************************************************)
(* The issuance caps of the stock layer (CapacityController.sol): one      *)
(* ticket per order key, the exposure counters the tickets add up to, the  *)
(* caps a new reservation is checked against, and the asymmetric           *)
(* governance of those caps (tighten at once, raise after a delay).        *)
(*                                                                         *)
(* The ticket book is one record, and each Solidity entry point is an      *)
(* operator from a book to the next book, so that a caller that makes two  *)
(* calls in one transaction (the hub reserves and marks sent) composes     *)
(* them.  The actions below apply them to the variable "book".             *)
(***************************************************************************)
EXTENDS Integers, FiniteSets, Functions

CONSTANTS
  Keys,            \* ticket keys (capKey / rewardOrderId)
  Assets,          \* underlyings on the reserve chain
  BPS,             \* basis-point denominator (10_000 in the code)
  RewardShareBps,  \* share of the caps kept for the reward lane (2_000)
  LimitDelay,      \* ticks a proposed raise waits (48 hours)
  InitialLimits,   \* [lRun, uRun, totalCap] at deployment
  MinOrderUsd,     \* smallest public principal
  Usds,            \* notional amounts an order may have
  Raws,            \* raw share amounts an order may issue or redeem
  LimitChoices,    \* limit records the guardian or the owner may set
  CapChoices,      \* per-asset caps the guardian or the owner may set
  RawBound         \* bound: raw shares issued per asset

LimitsType == [lRun : Nat, uRun : Nat, totalCap : Nat]

ASSUME CapacityAssumption ==
  /\ IsFiniteSet(Keys)               \* a key is a 32-byte hash
  /\ IsFiniteSet(Assets) /\ Assets # {}
  /\ BPS \in Nat \ {0}
  /\ RewardShareBps \in 0..BPS
  /\ LimitDelay \in Nat
  /\ InitialLimits \in LimitsType
  /\ MinOrderUsd \in Nat
  /\ Usds \subseteq Nat
  /\ Raws \subseteq Nat
  /\ LimitChoices \subseteq LimitsType
  /\ CapChoices \subseteq Nat
  /\ RawBound \in Nat

VARIABLES
  book,             \* tickets and exposure counters
  limits,           \* lRun, uRun, totalCap
  pendingLimits,    \* a proposed raise and the ticks it still waits
  assetCap,         \* per asset: a cap, or NoCap
  pendingAssetCap   \* per asset: a proposed cap and the ticks it still waits

capVars == <<book, limits, pendingLimits, assetCap, pendingAssetCap>>
governanceVars == <<limits, pendingLimits, assetCap, pendingAssetCap>>

NoCap == -1        \* AssetCap.set = false
NoProposal == [eta |-> -1]

TicketStates == {"None", "Reserved", "Issued", "Redeeming", "Closed"}
NoTicket ==
  [state |-> "None", lane |-> 0, sent |-> FALSE, unreviewed |-> FALSE,
   asset |-> CHOOSE a \in Assets : TRUE, usd |-> 0, raw |-> 0]

EmptyBook ==
  [tickets |-> [k \in Keys |-> NoTicket],
   inflight |-> 0, issued |-> 0, redeeming |-> 0,
   unreviewed |-> 0, unreviewedReward |-> 0,
   issuedRaw |-> [a \in Assets |-> 0], issuedOf |-> [a \in Assets |-> 0],
   inflightOf |-> [a \in Assets |-> 0], redeemingOf |-> [a \in Assets |-> 0]]

-----------------------------------------------------------------------------
(* Views of a book under given limits.                                     *)

Share(c) == (c \div BPS) * RewardShareBps + ((c % BPS) * RewardShareBps) \div BPS
RewardReserve(l) == Share(l.totalCap)
PublicCap(l) == l.totalCap - RewardReserve(l)
RewardUnreviewedShare(l) == Share(l.uRun)

Exposure(b) == b.inflight + b.issued + b.redeeming
AssetExposure(b, a) == b.inflightOf[a] + b.issuedOf[a] + b.redeemingOf[a]

\* checkRun: what the hub asks before it takes a public buy.
InRun(l, usd) == MinOrderUsd <= usd /\ usd <= l.lRun

UnreviewedFits(b, l, lane, usd) ==
  IF lane = 0
  THEN /\ b.unreviewed - b.unreviewedReward + usd <= l.uRun - RewardUnreviewedShare(l)
       /\ b.unreviewed + usd <= l.uRun
  ELSE \/ b.unreviewedReward + usd <= RewardUnreviewedShare(l)
       \/ b.unreviewed + usd <= l.uRun

\* Mutant: the reward lane is not held to the total cap.
CanReserveUncapped(b, l, lane, usd) ==
  /\ usd # 0 /\ usd <= l.lRun
  /\ UnreviewedFits(b, l, lane, usd)
  /\ lane = 0 => Exposure(b) + usd <= PublicCap(l)

CanReserve(b, l, lane, usd) ==
  /\ usd # 0
  /\ usd <= l.lRun
  /\ UnreviewedFits(b, l, lane, usd)
  /\ lane = 0 => Exposure(b) + usd <= PublicCap(l)
  /\ Exposure(b) + usd <= l.totalCap

CanReserveFor(b, l, caps, lane, a, usd) ==
  /\ CanReserve(b, l, lane, usd)
  /\ caps[a] # NoCap => AssetExposure(b, a) + usd <= caps[a]

-----------------------------------------------------------------------------
(* Entry points, from a book to the next book.                             *)

AddUnreviewed(b, lane, usd) ==
  [b EXCEPT !.unreviewed = @ + usd,
            !.unreviewedReward = IF lane = 1 THEN @ + usd ELSE @]

SubUnreviewed(b, lane, usd) ==
  [b EXCEPT !.unreviewed = @ - usd,
            !.unreviewedReward = IF lane = 1 THEN @ - usd ELSE @]

\* A key can be reserved when it was never used, or closed without its
\* principal having left the source chain.
Reservable(b, k) ==
  LET t == b.tickets[k] IN t.state = "None" \/ (t.state = "Closed" /\ ~t.sent)

Reserved(b, k, lane, a, usd) ==
  AddUnreviewed(
    [b EXCEPT !.tickets[k] = [state |-> "Reserved", lane |-> lane, sent |-> FALSE,
                              unreviewed |-> TRUE, asset |-> a, usd |-> usd, raw |-> 0],
              !.inflight = @ + usd,
              !.inflightOf[a] = @ + usd],
    lane, usd)

\* Mutant: the launch does not mark the ticket.
NotMarked(b, k) == b

SentMarked(b, k) == [b EXCEPT !.tickets[k].sent = TRUE]

\* Mutant: a released reservation stays counted as unreviewed.
DroppedStillCounted(b, k, unsent) ==
  LET t == b.tickets[k]
      c == [b EXCEPT !.inflight = @ - t.usd, !.inflightOf[t.asset] = @ - t.usd]
  IN IF unsent THEN [c EXCEPT !.tickets[k] = NoTicket]
               ELSE [c EXCEPT !.tickets[k].state = "Closed", !.tickets[k].unreviewed = FALSE]

\* _drop: the counters forget the reservation; an unsent ticket is deleted,
\* any other is closed.
Dropped(b, k, unsent) ==
  LET t == b.tickets[k]
      c == [b EXCEPT !.inflight = @ - t.usd, !.inflightOf[t.asset] = @ - t.usd]
      d == IF t.unreviewed THEN SubUnreviewed(c, t.lane, t.usd) ELSE c
  IN IF unsent
     THEN [d EXCEPT !.tickets[k] = NoTicket]
     ELSE [d EXCEPT !.tickets[k].state = "Closed", !.tickets[k].unreviewed = FALSE]

Released(b, k) == IF b.tickets[k].state = "Reserved" THEN Dropped(b, k, FALSE) ELSE b

BuyFinalized(b, k, a, raw) ==
  LET t == b.tickets[k]
      c == [b EXCEPT !.issuedRaw[a] = @ + raw]
  IN IF t.state # "Reserved" THEN c
     ELSE [c EXCEPT !.inflight = @ - t.usd, !.inflightOf[t.asset] = @ - t.usd,
                    !.issued = @ + t.usd,   !.issuedOf[a] = @ + t.usd,
                    !.tickets[k] = [t EXCEPT !.state = "Issued", !.asset = a, !.raw = raw]]

\* The part of an asset's USD basis that raw shares carry, rounded up.
BasisOf(b, a, raw) ==
  LET total == b.issuedRaw[a]
      basis == b.issuedOf[a]
  IN IF raw >= total THEN basis
     ELSE LET usd == (basis * raw + total - 1) \div total
          IN IF usd > basis THEN basis ELSE usd

RedeemBegun(b, k, a, raw) ==
  LET usd == BasisOf(b, a, raw)
      cut == IF raw >= b.issuedRaw[a] THEN b.issuedRaw[a] ELSE raw
  IN [b EXCEPT !.issuedRaw[a] = @ - cut, !.issuedOf[a] = @ - usd, !.issued = @ - usd,
               !.redeeming = @ + usd, !.redeemingOf[a] = @ + usd,
               !.tickets[k] = [state |-> "Redeeming", lane |-> 0, sent |-> TRUE,
                               unreviewed |-> FALSE, asset |-> a, usd |-> usd, raw |-> cut]]

RedeemFinalized(b, k, reviewed) ==
  LET t == b.tickets[k]
      c == [b EXCEPT !.redeeming = @ - t.usd, !.redeemingOf[t.asset] = @ - t.usd,
                     !.tickets[k].state = "Closed",
                     !.tickets[k].unreviewed = ~reviewed]
  IN IF t.state # "Redeeming" THEN b
     ELSE IF reviewed THEN c ELSE AddUnreviewed(c, t.lane, t.usd)

\* Mutant: the dollars come back without the shares.
RedeemRevertedUsdOnly(b, k) ==
  LET t == b.tickets[k]
  IN IF t.state # "Redeeming" THEN b
     ELSE [b EXCEPT !.redeeming = @ - t.usd, !.redeemingOf[t.asset] = @ - t.usd,
                    !.issued = @ + t.usd, !.issuedOf[t.asset] = @ + t.usd,
                    !.tickets[k].state = "Closed"]

RedeemReverted(b, k) ==
  LET t == b.tickets[k]
  IN IF t.state # "Redeeming" THEN b
     ELSE [b EXCEPT !.redeeming = @ - t.usd, !.redeemingOf[t.asset] = @ - t.usd,
                    !.issued = @ + t.usd,    !.issuedOf[t.asset] = @ + t.usd,
                    !.issuedRaw[t.asset] = @ + t.raw,
                    !.tickets[k].state = "Closed"]

Reviewed(b, k) ==
  LET t == b.tickets[k]
  IN IF ~t.unreviewed THEN b
     ELSE SubUnreviewed([b EXCEPT !.tickets[k].unreviewed = FALSE], t.lane, t.usd)

-----------------------------------------------------------------------------
(* Actions.  The hub and the RewardRoundManager are the only callers of    *)
(* the ticket entry points; here they call them in any order on any key.   *)
(* Two facts are kept of the callers: a buy is finalized on the underlying *)
(* it was reserved for (the order's, HubSettlement.sol:386 and :579), and  *)
(* a redemption is of some shares (SolonStockHub.sol:229, HubExits.sol:86).*)

ReserveFor(k, lane, a, usd) ==
  /\ Reservable(book, k)
  /\ CanReserveFor(book, limits, assetCap, lane, a, usd)
  /\ book' = Reserved(book, k, lane, a, usd)
  /\ UNCHANGED governanceVars

MarkSent(k) ==
  /\ book.tickets[k].state = "Reserved"
  /\ book' = SentMarked(book, k)
  /\ UNCHANGED governanceVars

ReleaseUnsent(k) ==
  /\ book.tickets[k].state = "Reserved"
  /\ ~book.tickets[k].sent
  /\ book' = Dropped(book, k, TRUE)
  /\ UNCHANGED governanceVars

Release(k) ==
  /\ book' = Released(book, k)
  /\ UNCHANGED governanceVars

FinalizeBuy(k, a, raw) ==
  /\ book' = BuyFinalized(book, k, a, raw)
  /\ UNCHANGED governanceVars

BeginRedeem(k, a, raw) ==
  /\ book.tickets[k].state = "None"
  /\ book' = RedeemBegun(book, k, a, raw)
  /\ UNCHANGED governanceVars

FinalizeRedeem(k, reviewed) ==
  /\ book' = RedeemFinalized(book, k, reviewed)
  /\ UNCHANGED governanceVars

RevertRedeem(k) ==
  /\ book' = RedeemReverted(book, k)
  /\ UNCHANGED governanceVars

MarkReviewed(k) ==
  /\ book' = Reviewed(book, k)
  /\ UNCHANGED governanceVars

Lowers(l, m) == l.lRun <= m.lRun /\ l.uRun <= m.uRun /\ l.totalCap <= m.totalCap
SaneLimits(l) ==
  l.lRun # 0 /\ MinOrderUsd <= l.lRun /\ l.lRun <= l.uRun /\ l.uRun <= l.totalCap

\* Guardian or owner.  Cancels any pending raise.
LowerLimits(l) ==
  /\ Lowers(l, limits)
  /\ pendingLimits' = NoProposal
  /\ limits' = l
  /\ UNCHANGED <<book, assetCap, pendingAssetCap>>

ProposeLimits(l) ==
  /\ SaneLimits(l)
  /\ pendingLimits' = [eta |-> LimitDelay, to |-> l]
  /\ UNCHANGED <<book, limits, assetCap, pendingAssetCap>>

ExecuteLimits ==
  /\ pendingLimits.eta = 0
  /\ SaneLimits(pendingLimits.to)
  /\ limits' = pendingLimits.to
  /\ pendingLimits' = NoProposal
  /\ UNCHANGED <<book, assetCap, pendingAssetCap>>

SetAssetCap(a, c) ==
  /\ assetCap[a] = NoCap
  /\ assetCap' = [assetCap EXCEPT ![a] = c]
  /\ UNCHANGED <<book, limits, pendingLimits, pendingAssetCap>>

LowerAssetCap(a, c) ==
  /\ assetCap[a] # NoCap
  /\ c <= assetCap[a]
  /\ assetCap' = [assetCap EXCEPT ![a] = c]
  /\ UNCHANGED <<book, limits, pendingLimits, pendingAssetCap>>

ProposeAssetCap(a, c) ==
  /\ assetCap[a] # NoCap
  /\ pendingAssetCap' = [pendingAssetCap EXCEPT ![a] = [eta |-> LimitDelay, to |-> c]]
  /\ UNCHANGED <<book, limits, pendingLimits, assetCap>>

ExecuteAssetCap(a) ==
  /\ pendingAssetCap[a].eta = 0
  /\ assetCap' = [assetCap EXCEPT ![a] = pendingAssetCap[a].to]
  /\ pendingAssetCap' = [pendingAssetCap EXCEPT ![a] = NoProposal]
  /\ UNCHANGED <<book, limits, pendingLimits>>

\* Time passes for every pending proposal.
Elapse(p) == IF p.eta > 0 THEN [p EXCEPT !.eta = @ - 1] ELSE p
Tick ==
  /\ pendingLimits' = Elapse(pendingLimits)
  /\ pendingAssetCap' = [a \in Assets |-> Elapse(pendingAssetCap[a])]
  /\ UNCHANGED <<book, limits, assetCap>>

CapInit ==
  /\ book = EmptyBook
  /\ limits = InitialLimits
  /\ pendingLimits = NoProposal
  /\ assetCap = [a \in Assets |-> NoCap]
  /\ pendingAssetCap = [a \in Assets |-> NoProposal]

TicketStep(k) ==
  \/ \E lane \in {0, 1}, a \in Assets, usd \in Usds : ReserveFor(k, lane, a, usd)
  \/ MarkSent(k)
  \/ ReleaseUnsent(k)
  \/ Release(k)
  \/ \E a \in Assets, raw \in Raws :
       /\ book.tickets[k].state = "Reserved" => book.tickets[k].asset = a
       /\ book.issuedRaw[a] + raw <= RawBound
       /\ FinalizeBuy(k, a, raw)
  \/ \E a \in Assets, raw \in Raws \ {0} : BeginRedeem(k, a, raw)
  \/ \E reviewed \in BOOLEAN : FinalizeRedeem(k, reviewed)
  \/ RevertRedeem(k)
  \/ MarkReviewed(k)

GovernanceStep ==
  \/ \E l \in LimitChoices : LowerLimits(l) \/ ProposeLimits(l)
  \/ ExecuteLimits
  \/ \E a \in Assets, c \in CapChoices :
       SetAssetCap(a, c) \/ LowerAssetCap(a, c) \/ ProposeAssetCap(a, c)
  \/ \E a \in Assets : ExecuteAssetCap(a)
  \/ Tick

CapNext == (\E k \in Keys : TicketStep(k)) \/ GovernanceStep

CapSpec == CapInit /\ [][CapNext]_capVars

-----------------------------------------------------------------------------
(* Properties.                                                             *)

TicketType ==
  [state : TicketStates, lane : {0, 1}, sent : BOOLEAN, unreviewed : BOOLEAN,
   asset : Assets, usd : Nat, raw : Nat]

BookType ==
  [tickets : [Keys -> TicketType],
   inflight : Nat, issued : Nat, redeeming : Nat, unreviewed : Nat, unreviewedReward : Nat,
   issuedRaw : [Assets -> Nat], issuedOf : [Assets -> Nat],
   inflightOf : [Assets -> Nat], redeemingOf : [Assets -> Nat]]

\* Types.
CapTypeOK ==
  /\ book \in BookType
  /\ limits \in LimitsType
  /\ pendingLimits.eta \in -1..LimitDelay
  /\ assetCap \in [Assets -> Nat \cup {NoCap}]
  /\ \A a \in Assets : pendingAssetCap[a].eta \in -1..LimitDelay

UsdOver(b, keys) == SumFunctionOnSet([k \in Keys |-> b.tickets[k].usd], keys)
InState(b, st) == {k \in Keys : b.tickets[k].state = st}
OfAsset(b, a) == {k \in Keys : b.tickets[k].asset = a}

\* Every counter is exactly the sum of the tickets it stands for, whatever the
\* order of reservations, results, reviews and reverts: nothing is released twice
\* and no exposure stays behind. A counter that left Nat is a checked subtraction
\* that reverted, which the finalize paths promise never to do (:21).
CountersAreTickets ==
  LET unreviewed == {k \in Keys : book.tickets[k].unreviewed}
      rewards == {k \in unreviewed : book.tickets[k].lane = 1}
  IN /\ CapTypeOK
     /\ book.inflight = UsdOver(book, InState(book, "Reserved"))
     /\ book.redeeming = UsdOver(book, InState(book, "Redeeming"))
     /\ book.unreviewed = UsdOver(book, unreviewed)
     /\ book.unreviewedReward = UsdOver(book, rewards)
     /\ book.issued = SumFunction(book.issuedOf)
     /\ \A a \in Assets :
          /\ book.inflightOf[a] = UsdOver(book, InState(book, "Reserved") \cap OfAsset(book, a))
          /\ book.redeemingOf[a] = UsdOver(book, InState(book, "Redeeming") \cap OfAsset(book, a))

\* finalizeBuy takes a result of no shares as well, which leaves dollars without any.
SharelessAssets ==
  {book.tickets[k].asset : k \in {k \in InState(book, "Issued") : book.tickets[k].raw = 0}}

\* Redeeming shares in any number of rounded steps, with reverts in between, never
\* leaves USD exposure on an asset that has no shares left (beginRedeem): only a buy that
\* brought no shares does.
NoStrandedBasis ==
  \A a \in Assets : book.issuedRaw[a] = 0 => book.issuedOf[a] = 0 \/ a \in SharelessAssets

\* Exposure, in total and per asset, only ever grows within the caps in force: an
\* issue, a failed redemption or a review moves exposure between states but never
\* adds any (A03: a revert restores the old exposure without a new cap check).
ExposureGrowsWithinCaps ==
  [][/\ Exposure(book') > Exposure(book) => Exposure(book') <= limits.totalCap
     /\ \A a \in Assets :
          AssetExposure(book', a) > AssetExposure(book, a) =>
            assetCap[a] = NoCap \/ AssetExposure(book', a) <= assetCap[a]]_capVars

=============================================================================
