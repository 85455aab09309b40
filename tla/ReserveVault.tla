----------------------------- MODULE ReserveVault -----------------------------
(***************************************************************************)
(* The reserve on Robinhood Chain (ReserveVault.sol): it buys and sells    *)
(* the real stock for orders the Arc hub sends, keeps the money paid in    *)
(* for each order apart, logs every executed order, checkpoints the log    *)
(* for the canonical lane, and hands stock or stuck money over when the    *)
(* Ethereum bridger says so.                                               *)
(*                                                                         *)
(* One listed underlying.  Money is counted in units of the settlement     *)
(* token's last digit (6 dp); the venue is external and may answer a buy   *)
(* or a sell with any amount of a given set, or fail.                      *)
(***************************************************************************)
EXTENDS Integers, Sequences, FiniteSets, Functions

CONSTANTS
  Refs,            \* order references (hub order ids)
  Migrations,      \* migration references (v1 to v2 batches)
  BuyOuts,         \* share amounts a venue buy may return
  SellOuts,        \* settlement amounts a venue sell may return
  MigrationIns,    \* settlement amounts a migration batch may spend
  InitialStock,    \* stock already held and entitled (earlier orders)
  InitialUsd,      \* free settlement already held (the float)
  Rejecting,       \* refs whose recipient rejects token transfers
  OrderMsgs,       \* orders the hub may send
  DeliverMsgs,     \* canonical deliveries the hub may send
  FundAmounts,     \* amounts anyone may pay in for a ref, or donate
  PaidBound,       \* bound: settlement paid in per ref
  UsdBound, StockBound   \* bounds on the balances when tokens are donated

AllRefs == Refs \cup Migrations
OrderType == [ref : Refs, side : {"Buy", "Sell"}, amountIn : Nat]
ResultType ==
  [ref : AllRefs, outcome : {"Bought", "Sold", "Failed"},
   amountIn : Nat, amountOut : Nat, seq : Nat]
DeliverType == [ref : Refs, shares : Nat, mode : {"Stock", "Settlement"}]
\* A transfer is told apart by what had left for its ref before it: the route's
\* request ids are single-use.
TransferType == [ref : Refs, amount : Nat, id : Nat]

ASSUME VaultAssumption ==
  /\ IsFiniteSet(Refs)               \* a ref is a 32-byte hash
  /\ Refs \cap Migrations = {}
  /\ BuyOuts \subseteq Nat
  /\ SellOuts \subseteq Nat
  /\ MigrationIns \subseteq Nat \ {0}
  /\ InitialStock \in Nat
  /\ InitialUsd \in Nat
  /\ Rejecting \subseteq Refs
  /\ OrderMsgs \subseteq OrderType
  /\ DeliverMsgs \subseteq DeliverType
  /\ FundAmounts \subseteq Nat
  /\ PaidBound \in Nat
  /\ UsdBound \in Nat
  /\ StockBound \in Nat

VARIABLES
  settled,        \* refs that have their one settlement
  waiting,        \* amount of a buy that arrived before its money (0 = none)
  funding,        \* settlement paid in for a ref, not spent or returned
  proceeds,       \* sale proceeds of a ref, not returned
  advanced,       \* what the float advanced for a ref
  fundingTotal, proceedsTotal,
  entitled,       \* stock Arc may have in circulation
  stock, usd,     \* token balances of the vault
  owedStock, owedUsd,            \* claimable[token][recipient of ref]
  owedStockTotal, owedUsdTotal,  \* claimableTotal[token]
  results,        \* the log of executed orders
  checkpointed,   \* checkpointedThrough: log entries a checkpoint covers
  vaultFloat,     \* floatEnabled
  migrationOpen,
  lzSent,          \* results ever sent over LayerZero
  checkpointsSent, \* checkpoint ranges ever sent to Ethereum
  returnsSent,     \* transfers ever sent through the return route
  paidIn, paidOut  \* history: settlement paid in for / out of a ref

liabilityVars == <<funding, proceeds, fundingTotal, proceedsTotal>>
owedVars == <<owedStock, owedUsd, owedStockTotal, owedUsdTotal>>
custodyVars == <<entitled, stock, usd, owedVars>>
logVars == <<settled, results, lzSent>>
canonicalVars == <<checkpointed, checkpointsSent>>
switchVars == <<vaultFloat, migrationOpen>>
historyVars == <<paidIn, paidOut>>
vaultVars ==
  <<waiting, advanced, returnsSent, liabilityVars, custodyVars, logVars,
    canonicalVars, switchVars, historyVars>>

VaultInit ==
  /\ settled = {}
  /\ waiting = [r \in Refs |-> 0]
  /\ funding = [r \in Refs |-> 0]
  /\ proceeds = [r \in Refs |-> 0]
  /\ advanced = [r \in Refs |-> 0]
  /\ fundingTotal = 0 /\ proceedsTotal = 0
  /\ entitled = InitialStock /\ stock = InitialStock
  /\ usd = InitialUsd
  /\ owedStock = [r \in Refs |-> 0]
  /\ owedUsd = [r \in Refs |-> 0]
  /\ owedStockTotal = 0 /\ owedUsdTotal = 0
  /\ results = <<>>
  /\ checkpointed = 0
  /\ vaultFloat \in BOOLEAN
  /\ migrationOpen = TRUE
  /\ lzSent = {}
  /\ checkpointsSent = {}
  /\ returnsSent = {}
  /\ paidIn = [r \in Refs |-> 0]
  /\ paidOut = [r \in Refs |-> 0]

-----------------------------------------------------------------------------
(* Helpers.                                                                *)

Logged(r) == \E n \in DOMAIN results : results[n].ref = r

\* settlementLiabilities and freeSettlement.
SettlementLiabilities == fundingTotal + proceedsTotal + owedUsdTotal

\* Mutant: the whole balance is free.
FreeBalance == usd

FreeSettlement ==
  IF usd > SettlementLiabilities THEN usd - SettlementLiabilities ELSE 0

Fundable(r, amount) ==
  funding[r] >= amount \/ (vaultFloat /\ FreeSettlement >= amount)

IsVoid(o) == o.side = "Buy" /\ o.amountIn = 0

\* Mutant: the amounts are swapped in the log.
RecordSwapped(r, outcome, in, out, overLz) ==
  LET entry == [ref |-> r, outcome |-> outcome, amountIn |-> out, amountOut |-> in,
                seq |-> Len(results)]
  IN /\ settled' = settled \cup {r}
     /\ results' = Append(results, entry)
     /\ lzSent' = IF overLz THEN lzSent \cup {entry} ELSE lzSent

\* Mutant: a void does not settle its ref.
RecordUnsettled(r, outcome, in, out, overLz) ==
  LET entry == [ref |-> r, outcome |-> outcome, amountIn |-> in, amountOut |-> out,
                seq |-> Len(results)]
  IN /\ settled' = IF outcome = "Failed" THEN settled ELSE settled \cup {r}
     /\ results' = Append(results, entry)
     /\ lzSent' = IF overLz THEN lzSent \cup {entry} ELSE lzSent

\* The end of every execution: settle the ref, append to the log and, on the
\* fast lane, send the result to the hub.
Record(r, outcome, in, out, overLz) ==
  LET entry == [ref |-> r, outcome |-> outcome, amountIn |-> in, amountOut |-> out,
                seq |-> Len(results)]
  IN /\ settled' = settled \cup {r}
     /\ results' = Append(results, entry)
     /\ lzSent' = IF overLz THEN lzSent \cup {entry} ELSE lzSent

\* Mutant: the funding that leaves stays on the books.
TakeProceeds(r) ==
  /\ proceeds' = [proceeds EXCEPT ![r] = 0]
  /\ proceedsTotal' = proceedsTotal - proceeds[r]
  /\ UNCHANGED <<funding, fundingTotal>>

\* _takeLiabilities: everything still held for the ref leaves its books.
TakeLiabilities(r) ==
  /\ funding' = [funding EXCEPT ![r] = 0]
  /\ fundingTotal' = fundingTotal - funding[r]
  /\ proceeds' = [proceeds EXCEPT ![r] = 0]
  /\ proceedsTotal' = proceedsTotal - proceeds[r]

\* _push of settlement that the vault holds as "held": paid to the recipient of
\* the ref, or claimable when the transfer is rejected.
PushUsd(r, held, amount) ==
  IF r \in Rejecting
  THEN /\ usd' = held
       /\ owedUsd' = [owedUsd EXCEPT ![r] = @ + amount]
       /\ owedUsdTotal' = owedUsdTotal + amount
       /\ UNCHANGED paidOut
  ELSE /\ usd' = held - amount
       /\ paidOut' = [paidOut EXCEPT ![r] = @ + amount]
       /\ UNCHANGED <<owedUsd, owedUsdTotal>>

-----------------------------------------------------------------------------
(* Executing one order (_execute and _settleAndSend).                      *)

\* The ref's own money is spent first; the float may advance the rest.
Bought(o) ==
  LET r == o.ref
      own == IF funding[r] < o.amountIn THEN funding[r] ELSE o.amountIn
      adv == o.amountIn - own
  IN /\ o.amountIn > 0
     /\ adv > 0 => vaultFloat /\ FreeSettlement >= adv
     /\ funding' = [funding EXCEPT ![r] = @ - own]
     /\ fundingTotal' = fundingTotal - own
     /\ advanced' = [advanced EXCEPT ![r] = @ + adv]
     /\ usd' = usd - o.amountIn
     /\ paidOut' = [paidOut EXCEPT ![r] = @ + o.amountIn]
     /\ \E shares \in BuyOuts :
          /\ stock' = stock + shares
          /\ entitled' = entitled + shares
          /\ Record(r, "Bought", o.amountIn, shares, TRUE)
     /\ UNCHANGED <<proceeds, proceedsTotal, owedVars, paidIn>>

Sold(o) ==
  LET r == o.ref
  IN /\ o.side = "Sell"
     /\ o.amountIn > 0 /\ o.amountIn <= entitled
     /\ entitled' = entitled - o.amountIn
     /\ stock' = stock - o.amountIn
     /\ \E out \in SellOuts :
          /\ usd' = usd + out
          /\ proceeds' = [proceeds EXCEPT ![r] = @ + out]
          /\ proceedsTotal' = proceedsTotal + out
          /\ paidIn' = [paidIn EXCEPT ![r] = @ + out]
          /\ Record(r, "Sold", o.amountIn, out, TRUE)
     /\ UNCHANGED <<funding, fundingTotal, advanced, owedVars, paidOut>>

\* Zero amount, paused, disabled, beyond the entitlement, or a venue failure:
\* nothing moves and the money stays the ref's.
Failed(o) ==
  /\ Record(o.ref, "Failed", o.amountIn, 0, TRUE)
  /\ UNCHANGED <<advanced, liabilityVars, custodyVars, historyVars>>

Execute(o) ==
  \/ o.side = "Buy" /\ Bought(o)
  \/ Sold(o)
  \/ Failed(o)

-----------------------------------------------------------------------------
(* The fast lane.                                                          *)

\* _lzReceive.  A second copy of an order, and an order for a settled ref,
\* change nothing; a void settles at once; a buy without its money waits.
ReceiveOrder(o) ==
  /\ UNCHANGED <<canonicalVars, switchVars, returnsSent>>
  /\ \/ /\ o.ref \in settled \/ (~IsVoid(o) /\ waiting[o.ref] # 0)
        /\ UNCHANGED vaultVars
     \/ /\ o.ref \notin settled /\ IsVoid(o)
        /\ waiting' = [waiting EXCEPT ![o.ref] = 0]
        /\ Failed(o)
     \/ /\ o.ref \notin settled /\ ~IsVoid(o) /\ waiting[o.ref] = 0
        /\ IF o.side = "Buy" /\ ~Fundable(o.ref, o.amountIn)
           THEN /\ waiting' = [waiting EXCEPT ![o.ref] = o.amountIn]
                /\ UNCHANGED <<advanced, liabilityVars, custodyVars, logVars, historyVars>>
           ELSE Execute(o) /\ UNCHANGED waiting

ExecuteFunded(r) ==
  /\ waiting[r] # 0 /\ r \notin settled
  /\ Fundable(r, waiting[r])
  /\ waiting' = [waiting EXCEPT ![r] = 0]
  /\ Execute([ref |-> r, side |-> "Buy", amountIn |-> waiting[r]])
  /\ UNCHANGED <<canonicalVars, switchVars, returnsSent>>

\* Money for a ref refills what the float advanced for it, then funds it.
Fund(r, amount) ==
  LET toFloat == IF advanced[r] < amount THEN advanced[r] ELSE amount
  IN /\ amount > 0
     /\ usd' = usd + amount
     /\ advanced' = [advanced EXCEPT ![r] = @ - toFloat]
     /\ funding' = [funding EXCEPT ![r] = @ + (amount - toFloat)]
     /\ fundingTotal' = fundingTotal + amount - toFloat
     /\ paidIn' = [paidIn EXCEPT ![r] = @ + amount]
     /\ UNCHANGED <<waiting, proceeds, proceedsTotal, entitled, stock, owedVars, logVars,
                    canonicalVars, switchVars, returnsSent, paidOut>>

\* The keeper sends what a settled ref still holds back to Arc.
ReturnFunds(r) ==
  LET amount == funding[r] + proceeds[r]
  IN /\ r \in settled
     /\ amount > 0
     /\ TakeLiabilities(r)
     /\ usd' = usd - amount
     /\ returnsSent' = returnsSent \cup {[ref |-> r, amount |-> amount, id |-> paidOut[r]]}
     /\ paidOut' = [paidOut EXCEPT ![r] = @ + amount]
     /\ UNCHANGED <<waiting, advanced, entitled, stock, owedVars, logVars,
                    canonicalVars, switchVars, paidIn>>

-----------------------------------------------------------------------------
(* The canonical lane.                                                     *)

Checkpoint ==
  /\ checkpointed < Len(results)
  /\ checkpointsSent' = checkpointsSent \cup {<<checkpointed, Len(results) - 1>>}
  /\ checkpointed' = Len(results)
  /\ UNCHANGED <<waiting, advanced, returnsSent, liabilityVars, custodyVars, logVars,
                 switchVars, historyVars>>

\* deliver on a settled ref: with shares nothing is left to do; without, the
\* money the ref still holds goes to the recipient.
DeliverSettled(d) ==
  /\ d.ref \in settled
  /\ IF d.shares = 0 /\ funding[d.ref] + proceeds[d.ref] > 0
     THEN /\ TakeLiabilities(d.ref)
          /\ PushUsd(d.ref, usd, funding[d.ref] + proceeds[d.ref])
          /\ UNCHANGED <<waiting, advanced, returnsSent, entitled, stock, owedStock,
                         owedStockTotal, logVars, canonicalVars, switchVars, paidIn>>
     ELSE UNCHANGED vaultVars

\* deliver without shares on an open ref: a void, logged but not sent.
DeliverVoid(d) ==
  /\ d.ref \notin settled /\ d.shares = 0
  /\ waiting' = [waiting EXCEPT ![d.ref] = 0]
  /\ Record(d.ref, "Failed", 0, 0, FALSE)
  /\ TakeLiabilities(d.ref)
  /\ PushUsd(d.ref, usd, funding[d.ref] + proceeds[d.ref])
  /\ UNCHANGED <<advanced, returnsSent, entitled, stock, owedStock, owedStockTotal,
                 canonicalVars, switchVars, paidIn>>

\* deliver with shares on an open ref: the stock, or its sale at any price,
\* goes to the recipient.  Reverts beyond the entitlement (the ticket stays).
DeliverShares(d) ==
  /\ d.ref \notin settled /\ d.shares > 0 /\ d.shares <= entitled
  /\ waiting' = [waiting EXCEPT ![d.ref] = 0]
  /\ entitled' = entitled - d.shares
  /\ Record(d.ref, "Sold", d.shares, 0, FALSE)
  /\ \/ /\ d.mode = "Settlement"
        /\ stock' = stock - d.shares
        /\ \E out \in SellOuts :
             /\ PushUsd(d.ref, usd + out, out)
             /\ paidIn' = [paidIn EXCEPT ![d.ref] = @ + out]
        /\ UNCHANGED <<owedStock, owedStockTotal>>
     \/ /\ IF d.ref \in Rejecting
           THEN /\ owedStock' = [owedStock EXCEPT ![d.ref] = @ + d.shares]
                /\ owedStockTotal' = owedStockTotal + d.shares
                /\ UNCHANGED stock
           ELSE stock' = stock - d.shares /\ UNCHANGED <<owedStock, owedStockTotal>>
        /\ UNCHANGED <<usd, owedUsd, owedUsdTotal, historyVars>>
  /\ UNCHANGED <<advanced, returnsSent, liabilityVars, canonicalVars, switchVars>>

Deliver(d) == DeliverSettled(d) \/ DeliverVoid(d) \/ DeliverShares(d)

-----------------------------------------------------------------------------
(* Claims and administration.                                              *)

ClaimUsd(r) ==
  /\ owedUsd[r] > 0
  /\ usd' = usd - owedUsd[r]
  /\ owedUsd' = [owedUsd EXCEPT ![r] = 0]
  /\ owedUsdTotal' = owedUsdTotal - owedUsd[r]
  /\ paidOut' = [paidOut EXCEPT ![r] = @ + owedUsd[r]]
  /\ UNCHANGED <<waiting, advanced, returnsSent, liabilityVars, entitled, stock, owedStock,
                 owedStockTotal, logVars, canonicalVars, switchVars, paidIn>>

ClaimStock(r) ==
  /\ owedStock[r] > 0
  /\ stock' = stock - owedStock[r]
  /\ owedStock' = [owedStock EXCEPT ![r] = 0]
  /\ owedStockTotal' = owedStockTotal - owedStock[r]
  /\ UNCHANGED <<waiting, advanced, returnsSent, liabilityVars, entitled, usd, owedUsd,
                 owedUsdTotal, logVars, canonicalVars, switchVars, historyVars>>

\* Only what nobody is owed: free settlement, or stock above the entitlement
\* and the claims.
WithdrawFloat(amount) ==
  /\ amount <= FreeSettlement
  /\ usd' = usd - amount
  /\ UNCHANGED <<waiting, advanced, returnsSent, liabilityVars, entitled, stock, owedVars,
                 logVars, canonicalVars, switchVars, historyVars>>

\* Mutant: stock that a failed delivery left to claim is skimmed.
SkimUnclaimed ==
  /\ stock > entitled
  /\ stock' = entitled
  /\ UNCHANGED <<waiting, advanced, returnsSent, liabilityVars, entitled, usd, owedVars,
                 logVars, canonicalVars, switchVars, historyVars>>

SkimExcess ==
  /\ stock > entitled + owedStockTotal
  /\ stock' = entitled + owedStockTotal
  /\ UNCHANGED <<waiting, advanced, returnsSent, liabilityVars, entitled, usd, owedVars,
                 logVars, canonicalVars, switchVars, historyVars>>

SetVaultFloat(b) ==
  /\ vaultFloat' = b
  /\ UNCHANGED <<waiting, advanced, returnsSent, liabilityVars, custodyVars, logVars,
                 canonicalVars, migrationOpen, historyVars>>

\* A migration batch: bought from the float only, logged but never sent.
MigrateIn(m) ==
  /\ migrationOpen
  /\ ~Logged(m)
  /\ \E amount \in MigrationIns, shares \in BuyOuts :
       /\ amount <= FreeSettlement
       /\ usd' = usd - amount
       /\ stock' = stock + shares
       /\ entitled' = entitled + shares
       /\ results' = Append(results, [ref |-> m, outcome |-> "Bought", amountIn |-> amount,
                                      amountOut |-> shares, seq |-> Len(results)])
  /\ UNCHANGED <<waiting, advanced, returnsSent, liabilityVars, owedVars, settled, lzSent,
                 canonicalVars, switchVars, historyVars>>

CloseMigration ==
  /\ migrationOpen' = FALSE
  /\ UNCHANGED <<waiting, advanced, returnsSent, liabilityVars, custodyVars, logVars,
                 canonicalVars, vaultFloat, historyVars>>

\* Tokens sent to the vault with no ref: float, or stock above the entitlement.
Donate(dUsd, dStock) ==
  /\ usd' = usd + dUsd
  /\ stock' = stock + dStock
  /\ UNCHANGED <<waiting, advanced, returnsSent, liabilityVars, entitled, owedVars,
                 logVars, canonicalVars, switchVars, historyVars>>

-----------------------------------------------------------------------------
(* The vault on its own: any order and delivery, in any order, any number  *)
(* of times, with money coming in for any ref at any moment.               *)

VaultNext ==
  \/ \E o \in OrderMsgs : ReceiveOrder(o)
  \/ \E r \in Refs :
       ExecuteFunded(r) \/ ReturnFunds(r) \/ ClaimUsd(r) \/ ClaimStock(r)
  \/ \E r \in Refs, amount \in FundAmounts : paidIn[r] + amount <= PaidBound /\ Fund(r, amount)
  \/ Checkpoint
  \/ \E d \in DeliverMsgs : Deliver(d)
  \/ \E amount \in FundAmounts : WithdrawFloat(amount)
  \/ SkimExcess
  \/ \E b \in BOOLEAN : SetVaultFloat(b)
  \/ \E m \in Migrations : MigrateIn(m)
  \/ CloseMigration
  \/ \E amount \in FundAmounts : usd + amount <= UsdBound /\ Donate(amount, 0)
  \/ stock < StockBound /\ Donate(0, 1)

VaultSpec == VaultInit /\ [][VaultNext]_vaultVars

-----------------------------------------------------------------------------
(* Properties.                                                             *)

MoneyTypeOK ==
  /\ funding \in [Refs -> Nat] /\ proceeds \in [Refs -> Nat]
  /\ advanced \in [Refs -> Nat]
  /\ fundingTotal \in Int /\ proceedsTotal \in Int
  /\ entitled \in Nat /\ stock \in Int /\ usd \in Int
  /\ owedStock \in [Refs -> Nat] /\ owedUsd \in [Refs -> Nat]
  /\ owedStockTotal \in Int /\ owedUsdTotal \in Int
  /\ paidIn \in [Refs -> Nat] /\ paidOut \in [Refs -> Nat]

LogTypeOK ==
  /\ settled \subseteq Refs
  /\ results \in Seq(ResultType)
  /\ lzSent \subseteq ResultType
  /\ checkpointed \in Nat
  /\ checkpointsSent \subseteq Nat \X Nat

\* Types.  The balances and totals are subject to the vault's checked
\* subtractions; that they stay covered is LiabilitiesCovered and FullyBacked.
VaultTypeOK ==
  /\ MoneyTypeOK
  /\ LogTypeOK
  /\ waiting \in [Refs -> Nat]
  /\ returnsSent \subseteq TransferType
  /\ vaultFloat \in BOOLEAN /\ migrationOpen \in BOOLEAN

\* One settlement per ref, whichever lane gets there first (settled): the log
\* never holds two entries for one ref, however orders, voids, late funding and
\* deliveries are repeated and reordered, and it holds one for exactly the refs
\* marked settled.
OneResultPerRef ==
  /\ \A m, n \in DOMAIN results : results[m].ref = results[n].ref => m = n
  /\ \A r \in Refs : r \in settled <=> Logged(r)

\* Money for a ref never serves another ref (ReserveVault.sol:245): what came in
\* for it, plus what the float still advances it, is what left for it plus what
\* the vault still holds for it.
RefMoneyConserved ==
  \A r \in Refs :
    paidIn[r] + advanced[r] = paidOut[r] + funding[r] + proceeds[r] + owedUsd[r]

\* The vault always has the settlement it owes: unspent funding, proceeds and
\* claims, each total being the sum of its refs (settlementLiabilities).
LiabilitiesCovered ==
  /\ fundingTotal = SumFunction(funding)
  /\ proceedsTotal = SumFunction(proceeds)
  /\ owedUsdTotal = SumFunction(owedUsd)
  /\ usd >= SettlementLiabilities

\* isFullyBacked: the stock held covers what Arc may circulate and what failed
\* deliveries left to claim.
FullyBacked == stock >= entitled + owedStockTotal

\* How the entitlement moves with an entry of the log.
StockOf(e) ==
  IF e.outcome = "Bought" THEN e.amountOut ELSE IF e.outcome = "Sold" THEN -e.amountIn ELSE 0

\* The log accounts for the stock: it is only ever extended, by one entry at a
\* time, and the entitlement (what Arc may have in circulation) moves by exactly
\* what that entry says was bought, or was sold or delivered.
LogAccountsForStock ==
  [][\/ results' = results /\ entitled' = entitled
     \/ LET e == results'[Len(results) + 1]
        IN /\ results' = Append(results, e)
           /\ entitled' - entitled = StockOf(e)]_vaultVars

=============================================================================
