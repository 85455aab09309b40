------------------------------- MODULE MCBooks -------------------------------
(* Small instances for TLC of the two books: CapacityController's tickets  *)
(* and ReserveVault's money. They share no state; a behaviour has one of   *)
(* four themes and the other book rests.                                   *)
(*   tickets     the entry points on three keys of one asset, fixed limits *)
(*   governance  two keys of two assets under the total caps while limits  *)
(*               and asset caps are lowered and raised                     *)
(*   buys        two buys whose money arrives in halves, late or twice,    *)
(*               with and without the float                                *)
(*   sells       a sell and its canonical escalation racing next to a buy, *)
(*               with a migration batch and donated tokens                 *)
EXTENDS CapacityController, ReserveVault, FiniteSets, TLC

CONSTANTS Buys, Sells   \* partition of Refs

VARIABLE theme

bookVars == <<capVars, vaultVars, theme>>

---------------------------------------------------------------------------
(* The caps.                                                               *)

MCLimits == [lRun |-> 2, uRun |-> 5, totalCap |-> 5]
MCLimitsLow == [lRun |-> 2, uRun |-> 3, totalCap |-> 3]
GovernanceChoices == {MCLimitsLow, MCLimits}

\* The keys are interchangeable: no definition names one of them.
KeySymmetry == Permutations(Keys)

Used == {k \in Keys : book.tickets[k].state # "None"}
FirstAsset == CHOOSE a \in Assets : TRUE

\* One asset is capped; its cap is lowered from 3 to 2 and raised again.
Capped(raised) ==
  \A a \in Assets :
    /\ assetCap'[a] # NoCap => a = FirstAsset
    /\ pendingAssetCap'[a] # NoProposal => a = FirstAsset /\ pendingAssetCap'[a].to = raised

OfTickets ==
  /\ UNCHANGED governanceVars
  /\ \A k \in Used' : book'.tickets[k].asset = FirstAsset
  /\ \A a \in Assets \ {FirstAsset} : book'.issuedRaw[a] = 0

OfGovernance ==
  /\ pendingLimits' # NoProposal => pendingLimits'.to = MCLimits
  /\ Capped(3)
  /\ Cardinality(Used') <= 2
  /\ \A k \in Keys : book'.tickets[k].sent => book'.tickets[k].state = "Redeeming"
  /\ \A k \in Keys : book'.tickets[k].raw <= 1
  /\ \A a \in Assets : book'.issuedRaw[a] <= 1

---------------------------------------------------------------------------
(* The vault: the hub's order for each ref, the void of each buy and every *)
(* canonical delivery of each, repeatable.                                 *)

MCRefs == Buys \cup Sells

MCOrders ==
  [ref : Buys, side : {"Buy"}, amountIn : {0, 2}]   \* 0 is the void
    \cup [ref : Sells, side : {"Sell"}, amountIn : {2}]

MCDelivers ==
  [ref : MCRefs, shares : {0}, mode : {"Settlement"}]
    \cup [ref : Sells, shares : {2}, mode : {"Stock", "Settlement"}]

Touched(r) ==
  \/ r \in settled' \/ waiting'[r] # 0 \/ paidIn'[r] # 0
  \/ \E n \in DOMAIN results' : results'[n].ref = r

\* Nothing but orders for buys and their money.
OfBuys ==
  /\ \A r \in Sells \cup Migrations : \A n \in DOMAIN results' : results'[n].ref # r
  /\ \A r \in Sells : paidIn'[r] = 0
  /\ usd' > usd => paidIn' # paidIn
  /\ stock' > stock => results' # results
  /\ migrationOpen' /\ UNCHANGED checkpointed

\* One buy, whose user takes money only later, paid for at once; the owner and
\* strangers move money in twos.
OfSells ==
  /\ \A r \in Buys \ Rejecting : ~Touched(r)
  /\ \A r \in MCRefs : paidIn'[r] \in {0, 2}
  /\ checkpointed' # checkpointed => checkpointed = 0
  /\ stock' > stock => results' # results \/ Len(results) = 0
  /\ ~migrationOpen' => \E m \in Migrations : Logged(m)
  /\ UNCHANGED <<results, paidIn, paidOut>> => usd' - usd \in {-2, 0, 2}

---------------------------------------------------------------------------

\* The vault's initial choice matters to its own themes only.
BookInit ==
  /\ CapInit /\ VaultInit
  /\ theme \in {"tickets", "governance", "buys", "sells"}
  /\ theme \in {"tickets", "governance"} => ~vaultFloat

BookNext ==
  /\ \/ theme = "tickets" /\ CapNext /\ OfTickets /\ UNCHANGED vaultVars
     \/ theme = "governance" /\ CapNext /\ OfGovernance /\ UNCHANGED vaultVars
     \/ theme = "buys" /\ VaultNext /\ OfBuys /\ UNCHANGED capVars
     \/ theme = "sells" /\ VaultNext /\ OfSells /\ UNCHANGED capVars
  /\ UNCHANGED theme

BookSpec == BookInit /\ [][BookNext]_bookVars
=============================================================================
