-------------------------- MODULE ReserveVaultProofs --------------------------
(***************************************************************************)
(* What TLAPS proves of ReserveVault for every value of the constants.     *)
(* The money and the stock of a ref are followed per ref; the totals the   *)
(* vault keeps of them are followed with the sums of SumLemmas.            *)
(***************************************************************************)
EXTENDS ReserveVault, SumLemmas

-----------------------------------------------------------------------------
(* Steps shared by the proofs.                                             *)

\* A step of the vault on any typed message and amount, whoever is at the other end: the
\* invariants are kept by these, alone (VaultNext) or joined to the hub (StockLayer).
AnyVaultStep ==
  \/ \E o \in OrderType : ReceiveOrder(o)
  \/ \E r \in Refs : ExecuteFunded(r) \/ ReturnFunds(r) \/ ClaimUsd(r) \/ ClaimStock(r)
  \/ \E r \in Refs, amount \in Nat : Fund(r, amount)
  \/ Checkpoint
  \/ \E d \in DeliverType : Deliver(d)
  \/ \E amount \in Nat : WithdrawFloat(amount) \/ Donate(amount, 0)
  \/ SkimExcess \/ Donate(0, 1)
  \/ \E b \in BOOLEAN : SetVaultFloat(b)
  \/ \E m \in Migrations : MigrateIn(m)
  \/ CloseMigration

\* The steps of the vault on its own are among them.
LEMMA NextIsAny == [VaultNext]_vaultVars => [AnyVaultStep]_vaultVars
BY VaultAssumption DEF VaultNext, AnyVaultStep

\* Appending to the log keeps every earlier entry in place.
LEMMA AppendLog ==
  ASSUME NEW S, NEW s \in Seq(S), NEW e \in S
  PROVE  /\ Append(s, e) \in Seq(S)
         /\ Len(Append(s, e)) = Len(s) + 1
         /\ DOMAIN Append(s, e) = 1..(Len(s) + 1)
         /\ DOMAIN s = 1..Len(s)
         /\ Len(s) \in Nat
         /\ \A n \in 1..Len(s) : Append(s, e)[n] = s[n]
         /\ Append(s, e)[Len(s) + 1] = e
  OBVIOUS

\* Recording a result keeps the log and the messages typed.
LEMMA RecordTyped ==
  ASSUME LogTypeOK, NEW r \in Refs, NEW outcome \in {"Bought", "Sold", "Failed"},
         NEW in \in Nat, NEW out \in Nat, NEW overLz, Record(r, outcome, in, out, overLz),
         UNCHANGED canonicalVars
  PROVE  LogTypeOK'
<1> DEFINE entry == [ref |-> r, outcome |-> outcome, amountIn |-> in, amountOut |-> out,
                     seq |-> Len(results)]
<1>1. entry \in ResultType  BY DEF ResultType, AllRefs, LogTypeOK
<1>2. results' = Append(results, entry)  BY DEF Record
<1>3. results' \in Seq(ResultType)  BY <1>1, <1>2 DEF LogTypeOK
<1>4. settled' \subseteq Refs  BY DEF Record, LogTypeOK
<1>5. lzSent' \subseteq ResultType  BY <1>1 DEF Record, LogTypeOK
<1> QED  BY <1>3, <1>4, <1>5 DEF LogTypeOK, canonicalVars

\* A buy spends the ref's own money first, so it never takes more than there is.
LEMMA BuyTyped ==
  ASSUME MoneyTypeOK, LogTypeOK, NEW o \in OrderType, Bought(o), UNCHANGED canonicalVars
  PROVE  MoneyTypeOK' /\ LogTypeOK'
<1> DEFINE own == IF funding[o.ref] < o.amountIn THEN funding[o.ref] ELSE o.amountIn
<1>0. o.ref \in Refs /\ o.amountIn \in Nat  BY DEF OrderType
<1>1. own \in Nat /\ funding[o.ref] - own \in Nat /\ o.amountIn - own \in Nat
  <2>1. funding[o.ref] \in Nat  BY <1>0 DEF MoneyTypeOK
  <2> QED  BY <1>0, <2>1
<1>2. /\ funding' = [funding EXCEPT ![o.ref] = @ - own]
      /\ fundingTotal' = fundingTotal - own
      /\ advanced' = [advanced EXCEPT ![o.ref] = @ + (o.amountIn - own)]
      /\ paidOut' = [paidOut EXCEPT ![o.ref] = @ + o.amountIn]
      /\ usd' = usd - o.amountIn
      /\ UNCHANGED <<proceeds, proceedsTotal, owedStock, owedUsd, owedStockTotal,
                     owedUsdTotal, paidIn>>
  BY DEF Bought, owedVars
<1>3. PICK shares \in BuyOuts : /\ stock' = stock + shares
                                /\ entitled' = entitled + shares
                                /\ Record(o.ref, "Bought", o.amountIn, shares, TRUE)
  BY DEF Bought
<1>4. shares \in Nat  BY VaultAssumption
<1>5. MoneyTypeOK'
  <2> HIDE DEF own
  <2>1. funding' \in [Refs -> Nat]  BY <1>0, <1>1, <1>2 DEF MoneyTypeOK
  <2>2. advanced' \in [Refs -> Nat]  BY <1>0, <1>1, <1>2 DEF MoneyTypeOK
  <2>3. paidOut' \in [Refs -> Nat]  BY <1>0, <1>2 DEF MoneyTypeOK
  <2> QED  BY <1>0, <1>1, <1>2, <1>3, <1>4, <2>1, <2>2, <2>3 DEF MoneyTypeOK
<1>6. LogTypeOK'  BY <1>0, <1>3, <1>4, RecordTyped
<1> QED  BY <1>5, <1>6

\* A sell takes no more than the entitlement and adds what the venue pays.
LEMMA SellTyped ==
  ASSUME MoneyTypeOK, LogTypeOK, NEW o \in OrderType, Sold(o), UNCHANGED canonicalVars
  PROVE  MoneyTypeOK' /\ LogTypeOK'
<1>0. o.ref \in Refs /\ o.amountIn \in Nat  BY DEF OrderType
<1>1. PICK out \in SellOuts : /\ usd' = usd + out
                              /\ proceeds' = [proceeds EXCEPT ![o.ref] = @ + out]
                              /\ proceedsTotal' = proceedsTotal + out
                              /\ paidIn' = [paidIn EXCEPT ![o.ref] = @ + out]
                              /\ Record(o.ref, "Sold", o.amountIn, out, TRUE)
  BY DEF Sold
<1>2. out \in Nat  BY VaultAssumption
<1>3. proceeds' \in [Refs -> Nat]  BY <1>0, <1>1, <1>2 DEF MoneyTypeOK
<1>4. paidIn' \in [Refs -> Nat]  BY <1>0, <1>1, <1>2 DEF MoneyTypeOK
<1>5. /\ entitled' = entitled - o.amountIn /\ o.amountIn <= entitled
      /\ stock' = stock - o.amountIn
      /\ UNCHANGED <<funding, fundingTotal, advanced, owedStock, owedUsd, owedStockTotal,
                     owedUsdTotal, paidOut>>
  BY DEF Sold, owedVars
<1>6. MoneyTypeOK'  BY <1>0, <1>1, <1>2, <1>3, <1>4, <1>5 DEF MoneyTypeOK
<1>7. LogTypeOK'  BY <1>0, <1>1, <1>2, RecordTyped
<1> QED  BY <1>6, <1>7

\* Executing an order (bought, sold or failed) keeps the types.
LEMMA ExecuteTyped ==
  ASSUME MoneyTypeOK, LogTypeOK, NEW o \in OrderType, Execute(o), UNCHANGED canonicalVars
  PROVE  MoneyTypeOK' /\ LogTypeOK'
<1>1. CASE Bought(o)  BY <1>1, BuyTyped
<1>2. CASE Sold(o)  BY <1>2, SellTyped
<1>3. CASE Failed(o)
  <2>1. o.ref \in Refs /\ o.amountIn \in Nat  BY DEF OrderType
  <2>2. LogTypeOK'  BY <1>3, <2>1, RecordTyped DEF Failed
  <2>3. MoneyTypeOK'
    BY <1>3 DEF Failed, MoneyTypeOK, liabilityVars, custodyVars, owedVars, historyVars
  <2> QED  BY <2>2, <2>3
<1> QED  BY <1>1, <1>2, <1>3 DEF Execute

\* What a ref holds leaves its books, and is paid out or becomes claimable.
LEMMA TakeTyped ==
  ASSUME MoneyTypeOK, NEW r \in Refs, TakeLiabilities(r)
  PROVE  /\ funding' \in [Refs -> Nat] /\ proceeds' \in [Refs -> Nat]
         /\ fundingTotal' \in Int /\ proceedsTotal' \in Int
         /\ funding[r] + proceeds[r] \in Nat
BY DEF MoneyTypeOK, TakeLiabilities

\* A push of settlement adds to what was paid out or to what is owed, nothing else.
LEMMA PushTyped ==
  ASSUME MoneyTypeOK, NEW r \in Refs, NEW held \in Int, NEW amount \in Nat,
         PushUsd(r, held, amount)
  PROVE  /\ usd' \in Int /\ owedUsd' \in [Refs -> Nat] /\ owedUsdTotal' \in Int
         /\ paidOut' \in [Refs -> Nat]
BY DEF MoneyTypeOK, PushUsd

\* A canonical delivery, whichever branch it takes, keeps the types.
LEMMA DeliverTyped ==
  ASSUME MoneyTypeOK, LogTypeOK, NEW d \in DeliverType, Deliver(d)
  PROVE  MoneyTypeOK' /\ LogTypeOK'
<1>0. d.ref \in Refs /\ d.shares \in Nat /\ usd \in Int  BY DEF DeliverType, MoneyTypeOK
<1>1. CASE DeliverSettled(d)
  <2>1. CASE UNCHANGED vaultVars
    BY <2>1 DEF vaultVars, MoneyTypeOK, LogTypeOK, liabilityVars, custodyVars, owedVars, logVars,
                canonicalVars, historyVars
  <2>2. CASE /\ TakeLiabilities(d.ref)
             /\ PushUsd(d.ref, usd, funding[d.ref] + proceeds[d.ref])
             /\ UNCHANGED <<waiting, advanced, returnsSent, entitled, stock, owedStock,
                            owedStockTotal, logVars, canonicalVars, switchVars, paidIn>>
    <3>1. LogTypeOK'  BY <2>2 DEF LogTypeOK, logVars, canonicalVars
    <3>2. MoneyTypeOK'  BY <1>0, <2>2, TakeTyped, PushTyped DEF MoneyTypeOK
    <3> QED  BY <3>1, <3>2
  <2> QED  BY <1>1, <2>1, <2>2 DEF DeliverSettled
<1>2. CASE DeliverVoid(d)
  <2>1. LogTypeOK'  BY <1>0, <1>2, RecordTyped DEF DeliverVoid
  <2>2. MoneyTypeOK'  BY <1>0, <1>2, TakeTyped, PushTyped DEF MoneyTypeOK, DeliverVoid
  <2> QED  BY <2>1, <2>2
<1>3. CASE DeliverShares(d)
  <2>1. LogTypeOK'  BY <1>0, <1>3, RecordTyped DEF DeliverShares
  <2>2. /\ entitled' \in Nat
        /\ UNCHANGED <<advanced, funding, proceeds, fundingTotal, proceedsTotal>>
    BY <1>0, <1>3 DEF DeliverShares, MoneyTypeOK, liabilityVars
  <2>3. CASE /\ stock' = stock - d.shares
             /\ \E out \in SellOuts :
                  /\ PushUsd(d.ref, usd + out, out)
                  /\ paidIn' = [paidIn EXCEPT ![d.ref] = @ + out]
             /\ UNCHANGED <<owedStock, owedStockTotal>>
    <3>1. PICK out \in SellOuts : /\ PushUsd(d.ref, usd + out, out)
                                  /\ paidIn' = [paidIn EXCEPT ![d.ref] = @ + out]
      BY <2>3
    <3>2. out \in Nat /\ usd + out \in Int  BY <1>0, VaultAssumption
    <3>3. paidIn' \in [Refs -> Nat]  BY <1>0, <3>1, <3>2 DEF MoneyTypeOK
    <3> QED  BY <1>0, <2>1, <2>2, <2>3, <3>1, <3>2, <3>3, PushTyped DEF MoneyTypeOK
  <2>4. CASE /\ IF d.ref \in Rejecting
                THEN /\ owedStock' = [owedStock EXCEPT ![d.ref] = @ + d.shares]
                     /\ owedStockTotal' = owedStockTotal + d.shares
                     /\ UNCHANGED stock
                ELSE stock' = stock - d.shares /\ UNCHANGED <<owedStock, owedStockTotal>>
             /\ UNCHANGED <<usd, owedUsd, owedUsdTotal, historyVars>>
    BY <1>0, <2>1, <2>2, <2>4 DEF MoneyTypeOK, historyVars
  <2> QED  BY <1>3, <2>3, <2>4 DEF DeliverShares
<1> QED  BY <1>1, <1>2, <1>3 DEF Deliver

\* Money for a ref refills at most what was advanced for it.
LEMMA FundTyped ==
  ASSUME MoneyTypeOK, NEW r \in Refs, NEW amount \in Nat, Fund(r, amount)
  PROVE  MoneyTypeOK'
<1> DEFINE toFloat == IF advanced[r] < amount THEN advanced[r] ELSE amount
<1>1. toFloat \in Nat /\ advanced[r] - toFloat \in Nat /\ amount - toFloat \in Nat
  <2>1. advanced[r] \in Nat  BY DEF MoneyTypeOK
  <2> QED  BY <2>1
<1>2. /\ usd' = usd + amount
      /\ advanced' = [advanced EXCEPT ![r] = @ - toFloat]
      /\ funding' = [funding EXCEPT ![r] = @ + (amount - toFloat)]
      /\ fundingTotal' = fundingTotal + amount - toFloat
      /\ paidIn' = [paidIn EXCEPT ![r] = @ + amount]
      /\ UNCHANGED <<proceeds, proceedsTotal, entitled, stock, owedStock, owedUsd,
                     owedStockTotal, owedUsdTotal, paidOut>>
  BY DEF Fund, owedVars
<1> HIDE DEF toFloat
<1>3. advanced' \in [Refs -> Nat]  BY <1>1, <1>2 DEF MoneyTypeOK
<1>4. funding' \in [Refs -> Nat]  BY <1>1, <1>2 DEF MoneyTypeOK
<1>5. paidIn' \in [Refs -> Nat]  BY <1>2 DEF MoneyTypeOK
<1> QED  BY <1>1, <1>2, <1>3, <1>4, <1>5 DEF MoneyTypeOK

\* Every step of the vault keeps the types; one step per action.
LEMMA TypeStep ==
  ASSUME VaultTypeOK, [AnyVaultStep]_vaultVars
  PROVE  VaultTypeOK'
<1> USE DEF VaultTypeOK
<1>1. ASSUME NEW o \in OrderType, ReceiveOrder(o)  PROVE VaultTypeOK'
  <2>1. o.ref \in Refs /\ o.amountIn \in Nat  BY DEF OrderType
  <2>2. CASE UNCHANGED vaultVars
    BY <2>2 DEF vaultVars, MoneyTypeOK, LogTypeOK, liabilityVars, custodyVars, owedVars, logVars,
                canonicalVars, historyVars, switchVars
  <2>3. CASE Failed(o) /\ waiting' = [waiting EXCEPT ![o.ref] = 0]
    BY <1>1, <2>1, <2>3, ExecuteTyped DEF ReceiveOrder, Execute, switchVars
  <2>4. CASE /\ waiting' = [waiting EXCEPT ![o.ref] = o.amountIn]
             /\ UNCHANGED <<advanced, liabilityVars, custodyVars, logVars, historyVars>>
    BY <1>1, <2>1, <2>4 DEF ReceiveOrder, switchVars, MoneyTypeOK, LogTypeOK, liabilityVars,
                            custodyVars, owedVars, logVars, canonicalVars, historyVars
  <2>5. CASE Execute(o) /\ UNCHANGED waiting
    BY <1>1, <2>1, <2>5, ExecuteTyped DEF ReceiveOrder, switchVars
  <2> QED  BY <1>1, <2>2, <2>3, <2>4, <2>5 DEF ReceiveOrder
<1>2. ASSUME NEW r \in Refs, ExecuteFunded(r)  PROVE VaultTypeOK'
  <2> DEFINE o == [ref |-> r, side |-> "Buy", amountIn |-> waiting[r]]
  <2>1. o \in OrderType  BY DEF OrderType
  <2>2. Execute(o)  BY <1>2 DEF ExecuteFunded
  <2> HIDE DEF o
  <2>3. MoneyTypeOK' /\ LogTypeOK'  BY <1>2, <2>1, <2>2, ExecuteTyped DEF ExecuteFunded
  <2> QED  BY <1>2, <2>3 DEF ExecuteFunded, switchVars
<1>3. ASSUME NEW r \in Refs, ReturnFunds(r)  PROVE VaultTypeOK'
  <2>1. LogTypeOK'  BY <1>3 DEF ReturnFunds, LogTypeOK, logVars, canonicalVars
  <2>2. MoneyTypeOK'  BY <1>3, TakeTyped DEF ReturnFunds, MoneyTypeOK, owedVars
  <2>3. returnsSent' \subseteq TransferType
    BY <1>3 DEF ReturnFunds, MoneyTypeOK, TransferType
  <2> QED  BY <1>3, <2>1, <2>2, <2>3 DEF ReturnFunds, switchVars
<1>4. ASSUME NEW r \in Refs, ClaimUsd(r)  PROVE VaultTypeOK'
  <2>1. owedUsd[r] \in Nat  BY DEF MoneyTypeOK
  <2>2. owedUsd' \in [Refs -> Nat] /\ owedUsdTotal' \in Int /\ usd' \in Int
    BY <1>4, <2>1 DEF ClaimUsd, MoneyTypeOK
  <2>3. paidOut' \in [Refs -> Nat]  BY <1>4, <2>1 DEF ClaimUsd, MoneyTypeOK
  <2>4. MoneyTypeOK'  BY <1>4, <2>2, <2>3 DEF ClaimUsd, MoneyTypeOK, liabilityVars
  <2> QED  BY <1>4, <2>4 DEF ClaimUsd, LogTypeOK, logVars, canonicalVars, switchVars
<1>5. ASSUME NEW r \in Refs, ClaimStock(r)  PROVE VaultTypeOK'
  <2>1. owedStock[r] \in Nat  BY DEF MoneyTypeOK
  <2>2. owedStock' \in [Refs -> Nat] /\ owedStockTotal' \in Int /\ stock' \in Int
    BY <1>5, <2>1 DEF ClaimStock, MoneyTypeOK
  <2>3. MoneyTypeOK'  BY <1>5, <2>2 DEF ClaimStock, MoneyTypeOK, liabilityVars, historyVars
  <2> QED  BY <1>5, <2>3 DEF ClaimStock, LogTypeOK, logVars, canonicalVars, switchVars
<1>6. ASSUME NEW r \in Refs, NEW amount \in Nat, Fund(r, amount)  PROVE VaultTypeOK'
  <2>1. MoneyTypeOK'  BY <1>6, FundTyped
  <2> QED  BY <1>6, <2>1 DEF Fund, LogTypeOK, logVars, canonicalVars, switchVars
<1>7. CASE Checkpoint
  <2>1. MoneyTypeOK'
    BY <1>7 DEF Checkpoint, MoneyTypeOK, liabilityVars, custodyVars, owedVars, historyVars
  <2>2. Len(results) \in Nat  BY DEF LogTypeOK
  <2>3. LogTypeOK'  BY <1>7, <2>2 DEF Checkpoint, LogTypeOK, logVars
  <2> QED  BY <1>7, <2>1, <2>3 DEF Checkpoint, switchVars
<1>8. ASSUME NEW d \in DeliverType, Deliver(d)  PROVE VaultTypeOK'
  <2>1. d.ref \in Refs  BY DEF DeliverType
  <2>2. MoneyTypeOK' /\ LogTypeOK'  BY <1>8, DeliverTyped
  <2>3. UNCHANGED <<returnsSent, vaultFloat, migrationOpen>>
    BY <1>8 DEF Deliver, DeliverSettled, DeliverVoid, DeliverShares, switchVars, vaultVars
  <2>4. UNCHANGED waiting \/ waiting' = [waiting EXCEPT ![d.ref] = 0]
    BY <1>8 DEF Deliver, DeliverSettled, DeliverVoid, DeliverShares, vaultVars
  <2>5. waiting' \in [Refs -> Nat]  BY <2>1, <2>4
  <2> QED  BY <2>2, <2>3, <2>5
<1>9. ASSUME NEW amount \in Nat, WithdrawFloat(amount) \/ Donate(amount, 0)
      PROVE VaultTypeOK'
  <2>1. usd' \in Int /\ stock' \in Int  BY <1>9 DEF WithdrawFloat, Donate, MoneyTypeOK
  <2>2. UNCHANGED <<waiting, advanced, returnsSent, liabilityVars, entitled, owedVars, logVars,
                    canonicalVars, switchVars, historyVars>>
    BY <1>9 DEF WithdrawFloat, Donate
  <2>3. MoneyTypeOK'
    BY <2>1, <2>2 DEF MoneyTypeOK, liabilityVars, owedVars, historyVars
  <2>4. LogTypeOK'  BY <2>2 DEF LogTypeOK, logVars, canonicalVars
  <2> QED  BY <2>2, <2>3, <2>4 DEF switchVars
<1>10. CASE SkimExcess \/ Donate(0, 1)
  <2>1. stock' \in Int /\ usd' \in Int  BY <1>10 DEF SkimExcess, Donate, MoneyTypeOK
  <2>2. UNCHANGED <<waiting, advanced, returnsSent, liabilityVars, entitled, owedVars, logVars,
                    canonicalVars, switchVars, historyVars>>
    BY <1>10 DEF SkimExcess, Donate
  <2>3. MoneyTypeOK'
    BY <2>1, <2>2 DEF MoneyTypeOK, liabilityVars, owedVars, historyVars
  <2>4. LogTypeOK'  BY <2>2 DEF LogTypeOK, logVars, canonicalVars
  <2> QED  BY <2>2, <2>3, <2>4 DEF switchVars
<1>11. CASE CloseMigration \/ \E b \in BOOLEAN : SetVaultFloat(b)
  <2>1. vaultFloat' \in BOOLEAN /\ migrationOpen' \in BOOLEAN
    BY <1>11 DEF CloseMigration, SetVaultFloat
  <2>2. UNCHANGED <<waiting, advanced, returnsSent, liabilityVars, custodyVars, logVars,
                    canonicalVars, historyVars>>
    BY <1>11 DEF CloseMigration, SetVaultFloat
  <2>3. MoneyTypeOK'
    BY <2>2 DEF MoneyTypeOK, liabilityVars, custodyVars, owedVars, historyVars
  <2>4. LogTypeOK'  BY <2>2 DEF LogTypeOK, logVars, canonicalVars
  <2> QED  BY <2>1, <2>2, <2>3, <2>4
<1>12. ASSUME NEW m \in Migrations, MigrateIn(m)  PROVE VaultTypeOK'
  <2>1. PICK amount \in MigrationIns, shares \in BuyOuts :
          /\ usd' = usd - amount /\ stock' = stock + shares /\ entitled' = entitled + shares
          /\ results' = Append(results, [ref |-> m, outcome |-> "Bought", amountIn |-> amount,
                                         amountOut |-> shares, seq |-> Len(results)])
    BY <1>12 DEF MigrateIn
  <2>2. amount \in Nat /\ shares \in Nat  BY VaultAssumption
  <2>3. MoneyTypeOK'
    BY <1>12, <2>1, <2>2 DEF MigrateIn, MoneyTypeOK, liabilityVars, owedVars, historyVars
  <2>4. results' \in Seq(ResultType)  BY <2>1, <2>2 DEF LogTypeOK, ResultType, AllRefs
  <2>5. LogTypeOK'  BY <1>12, <2>4 DEF MigrateIn, LogTypeOK, canonicalVars
  <2> QED  BY <1>12, <2>3, <2>5 DEF MigrateIn, switchVars
<1>13. CASE UNCHANGED vaultVars
  BY <1>13 DEF vaultVars, MoneyTypeOK, LogTypeOK, liabilityVars, custodyVars, owedVars, logVars,
               canonicalVars, historyVars, switchVars
<1> QED
  BY <1>1, <1>2, <1>3, <1>4, <1>5, <1>6, <1>7, <1>8, <1>9, <1>10, <1>11, <1>12, <1>13
  DEF AnyVaultStep

\* The vault's state is well typed for any refs, amounts and messages: in
\* particular nothing a ref holds, and no entitlement, ever goes below zero.
THEOREM TypeCorrect == VaultSpec => []VaultTypeOK
<1>1. VaultInit => VaultTypeOK
  BY VaultAssumption DEF VaultInit, VaultTypeOK, MoneyTypeOK, LogTypeOK
<1> QED  BY <1>1, TypeStep, NextIsAny, PTL DEF VaultSpec

-----------------------------------------------------------------------------
(* The log.  Every action either leaves it alone or appends one entry for  *)
(* a ref that has none, and moves the entitlement by what the entry says.  *)

Appends(e) ==
  /\ results' = Append(results, e)
  /\ entitled' - entitled = StockOf(e)
  /\ \/ e.ref \in Refs \ settled /\ settled' = settled \cup {e.ref}
     \/ e.ref \in Migrations /\ ~Logged(e.ref) /\ settled' = settled

LogStep ==
  \/ UNCHANGED <<results, entitled, settled>>
  \/ \E e \in ResultType : Appends(e)

\* Recording a result appends one entry, of a ref and with the amounts given.
LEMMA RecordAppends ==
  ASSUME VaultTypeOK, NEW r \in Refs \ settled, NEW outcome \in {"Bought", "Sold", "Failed"},
         NEW in \in Nat, NEW out \in Nat, NEW overLz, Record(r, outcome, in, out, overLz),
         entitled' - entitled =
           IF outcome = "Bought" THEN out ELSE IF outcome = "Sold" THEN -in ELSE 0
  PROVE  LogStep
<1> DEFINE entry == [ref |-> r, outcome |-> outcome, amountIn |-> in, amountOut |-> out,
                     seq |-> Len(results)]
<1>1. entry \in ResultType  BY DEF ResultType, AllRefs, VaultTypeOK, LogTypeOK
<1>2. Appends(entry)  BY DEF Appends, Record, StockOf
<1> QED  BY <1>1, <1>2 DEF LogStep

\* An execution appends one entry, and the entitlement moves by what it says.
LEMMA ExecuteAppends ==
  ASSUME VaultTypeOK, NEW o \in OrderType, o.ref \notin settled, Execute(o)
  PROVE  LogStep
<1>0. o.ref \in Refs \ settled /\ o.amountIn \in Nat /\ entitled \in Int
  BY DEF OrderType, VaultTypeOK, MoneyTypeOK
<1>1. CASE Bought(o)
  <2>1. PICK shares \in BuyOuts : /\ entitled' = entitled + shares
                                  /\ Record(o.ref, "Bought", o.amountIn, shares, TRUE)
    BY <1>1 DEF Bought
  <2>2. shares \in Nat /\ entitled' - entitled = shares  BY <1>0, <2>1, VaultAssumption
  <2> QED  BY <1>0, <2>1, <2>2, RecordAppends
<1>2. CASE Sold(o)
  <2>1. PICK out \in SellOuts : Record(o.ref, "Sold", o.amountIn, out, TRUE)
    BY <1>2 DEF Sold
  <2>2. out \in Nat /\ entitled' - entitled = -o.amountIn
    BY <1>0, <1>2, VaultAssumption DEF Sold
  <2> QED  BY <1>0, <2>1, <2>2, RecordAppends
<1>3. CASE Failed(o)
  <2>1. entitled' - entitled = 0  BY <1>0, <1>3 DEF Failed, custodyVars
  <2>2. Record(o.ref, "Failed", o.amountIn, 0, TRUE)  BY <1>3 DEF Failed
  <2>3. LogStep
    <3> DEFINE outcome == "Failed"
    <3>1. entitled' - entitled =
            IF outcome = "Bought" THEN 0 ELSE IF outcome = "Sold" THEN -o.amountIn ELSE 0
      BY <2>1
    <3>2. outcome \in {"Bought", "Sold", "Failed"} /\ 0 \in Nat  OBVIOUS
    <3>3. Record(o.ref, outcome, o.amountIn, 0, TRUE)  BY <2>2
    <3> HIDE DEF outcome
    <3> QED  BY <1>0, <3>1, <3>2, <3>3, RecordAppends
  <2> QED  BY <2>3
<1> QED  BY <1>1, <1>2, <1>3 DEF Execute

\* Every step of the vault leaves the log and the entitlement alone, or appends one
\* entry for a ref that had none and moves the entitlement by what the entry says.
LEMMA NextLogs ==
  ASSUME VaultTypeOK, [AnyVaultStep]_vaultVars
  PROVE  LogStep
<1>1. ASSUME NEW o \in OrderType, ReceiveOrder(o)  PROVE LogStep
  <2>1. CASE o.ref \notin settled /\ Failed(o)  BY <2>1, ExecuteAppends DEF Execute
  <2>2. CASE o.ref \notin settled /\ Execute(o)  BY <2>2, ExecuteAppends
  <2> QED  BY <1>1, <2>1, <2>2 DEF ReceiveOrder, LogStep, vaultVars, logVars, custodyVars
<1>2. ASSUME NEW r \in Refs, ExecuteFunded(r)  PROVE LogStep
  <2> DEFINE o == [ref |-> r, side |-> "Buy", amountIn |-> waiting[r]]
  <2>1. o \in OrderType  BY DEF OrderType, VaultTypeOK
  <2>2. o.ref \notin settled /\ Execute(o)  BY <1>2 DEF ExecuteFunded
  <2> HIDE DEF o
  <2> QED  BY <2>1, <2>2, ExecuteAppends
<1>3. ASSUME NEW d \in DeliverType, Deliver(d)  PROVE LogStep
  <2>1. d.ref \in Refs /\ d.shares \in Nat /\ entitled \in Int
    BY DEF DeliverType, VaultTypeOK, MoneyTypeOK
  <2>2. CASE DeliverSettled(d)  BY <2>2 DEF DeliverSettled, LogStep, vaultVars, logVars, custodyVars
  <2>3. CASE DeliverVoid(d)
    <3>1. entitled' - entitled = 0  BY <2>1, <2>3 DEF DeliverVoid
    <3> QED  BY <2>1, <2>3, <3>1, RecordAppends DEF DeliverVoid
  <2>4. CASE DeliverShares(d)
    <3>1. entitled' - entitled = -d.shares  BY <2>1, <2>4 DEF DeliverShares
    <3> QED  BY <2>1, <2>4, <3>1, RecordAppends DEF DeliverShares
  <2> QED  BY <1>3, <2>2, <2>3, <2>4 DEF Deliver
<1>4. ASSUME NEW m \in Migrations, MigrateIn(m)  PROVE LogStep
  <2>1. PICK amount \in MigrationIns, shares \in BuyOuts :
          /\ entitled' = entitled + shares
          /\ results' = Append(results, [ref |-> m, outcome |-> "Bought", amountIn |-> amount,
                                         amountOut |-> shares, seq |-> Len(results)])
    BY <1>4 DEF MigrateIn
  <2> DEFINE e == [ref |-> m, outcome |-> "Bought", amountIn |-> amount, amountOut |-> shares,
                   seq |-> Len(results)]
  <2>2. amount \in Nat /\ shares \in Nat /\ Len(results) \in Nat /\ entitled \in Int
    BY VaultAssumption DEF VaultTypeOK, LogTypeOK, MoneyTypeOK
  <2>3. e \in ResultType  BY <2>2 DEF ResultType, AllRefs
  <2>4. entitled' - entitled = shares  BY <2>1, <2>2
  <2>5. Appends(e)  BY <1>4, <2>1, <2>4 DEF Appends, StockOf, MigrateIn
  <2> QED  BY <2>3, <2>5 DEF LogStep
<1>5. CASE UNCHANGED <<results, entitled, settled>>  BY <1>5 DEF LogStep
<1> QED
  BY <1>1, <1>2, <1>3, <1>4, <1>5
  DEF AnyVaultStep, ReturnFunds, ClaimUsd, ClaimStock, Fund, Checkpoint, WithdrawFloat, SkimExcess,
      SetVaultFloat, CloseMigration, Donate, vaultVars, logVars, custodyVars

\* The log accounts for the stock: one entry at a time, and the entitlement moves
\* by what the entry says (_settleAndSend, deliver, migrateIn).
THEOREM StockAccounted == VaultSpec => LogAccountsForStock
<1>1. VaultTypeOK /\ [AnyVaultStep]_vaultVars =>
        [\/ results' = results /\ entitled' = entitled
         \/ LET e == results'[Len(results) + 1]
            IN /\ results' = Append(results, e)
               /\ entitled' - entitled = StockOf(e)]_vaultVars
  <2> SUFFICES ASSUME VaultTypeOK, [AnyVaultStep]_vaultVars, NEW e \in ResultType, Appends(e)
               PROVE  LET f == results'[Len(results) + 1]
                      IN /\ results' = Append(results, f)
                         /\ entitled' - entitled = StockOf(f)
    BY NextLogs DEF LogStep
  <2>1. results'[Len(results) + 1] = e  BY AppendLog DEF Appends, VaultTypeOK, LogTypeOK
  <2> QED  BY <2>1 DEF Appends, StockOf
<1> QED  BY <1>1, NextIsAny, TypeCorrect, PTL DEF VaultSpec, LogAccountsForStock

\* OneResultPerRef is inductive: an entry is only appended for a ref outside
\* settled, and settled is exactly the logged refs.
LEMMA NextSettlesOnce ==
  ASSUME VaultTypeOK, OneResultPerRef, [AnyVaultStep]_vaultVars
  PROVE  OneResultPerRef'
<1>1. CASE UNCHANGED <<results, entitled, settled>>  BY <1>1 DEF OneResultPerRef, Logged
<1>2. ASSUME NEW e \in ResultType, Appends(e)  PROVE OneResultPerRef'
  <2>1. results \in Seq(ResultType)  BY DEF VaultTypeOK, LogTypeOK
  <2>2. /\ DOMAIN results = 1..Len(results) /\ Len(results) \in Nat
        /\ DOMAIN results' = 1..(Len(results) + 1)
        /\ \A n \in 1..Len(results) : results'[n] = results[n]
        /\ results'[Len(results) + 1] = e
    BY <1>2, <2>1, AppendLog DEF Appends
  <2>3. ~Logged(e.ref)  BY <1>2 DEF Appends, OneResultPerRef
  <2>4. \A r : Logged(r)' <=> Logged(r) \/ r = e.ref  BY <2>2 DEF Logged
  <2>5. \A m, n \in DOMAIN results' : results'[m].ref = results'[n].ref => m = n
    BY <2>2, <2>3 DEF OneResultPerRef, Logged
  <2>6. \A r \in Refs : r \in settled' <=> r \in settled \/ r = e.ref
    BY <1>2, VaultAssumption DEF Appends
  <2>7. \A r \in Refs : r \in settled' <=> Logged(r)'
    BY <2>4, <2>6 DEF OneResultPerRef
  <2> QED  BY <2>5, <2>7 DEF OneResultPerRef
<1> QED  BY <1>1, <1>2, NextLogs DEF LogStep

\* One result per ref for any number of refs and any interleaving of the two lanes.
THEOREM OneResult == VaultSpec => []OneResultPerRef
<1>1. VaultInit => OneResultPerRef  BY DEF VaultInit, OneResultPerRef, Logged
<1> QED  BY <1>1, NextSettlesOnce, NextIsAny, TypeCorrect, PTL DEF VaultSpec

-----------------------------------------------------------------------------
(* The money of a ref.  RefMoneyConserved speaks of one ref at a time, so  *)
(* it is inductive over the types alone: every action moves the same       *)
(* amount into one of its terms as out of another.                         *)

Conserved(r) ==
  paidIn[r] + advanced[r] = paidOut[r] + funding[r] + proceeds[r] + owedUsd[r]

\* An execution conserves the money of every ref: a buy spends own and advanced
\* money, a sell adds what the venue paid.
LEMMA ExecuteConserves ==
  ASSUME MoneyTypeOK, NEW o \in OrderType, Execute(o), NEW s \in Refs, Conserved(s)
  PROVE  Conserved(s)'
<1>0. o.ref \in Refs /\ o.amountIn \in Nat  BY DEF OrderType
<1>1. CASE Bought(o)
  <2> DEFINE own == IF funding[o.ref] < o.amountIn THEN funding[o.ref] ELSE o.amountIn
  <2>1. /\ funding' = [funding EXCEPT ![o.ref] = @ - own]
        /\ advanced' = [advanced EXCEPT ![o.ref] = @ + (o.amountIn - own)]
        /\ paidOut' = [paidOut EXCEPT ![o.ref] = @ + o.amountIn]
        /\ UNCHANGED <<proceeds, owedUsd, paidIn>>
    BY <1>1 DEF Bought, owedVars
  <2>2. own \in Int
    <3>1. funding[o.ref] \in Nat  BY <1>0 DEF MoneyTypeOK
    <3> QED  BY <1>0, <3>1
  <2> HIDE DEF own
  <2> QED  BY <1>0, <2>1, <2>2 DEF Conserved, MoneyTypeOK
<1>2. CASE Sold(o)
  <2>1. PICK out \in SellOuts : /\ proceeds' = [proceeds EXCEPT ![o.ref] = @ + out]
                                /\ paidIn' = [paidIn EXCEPT ![o.ref] = @ + out]
    BY <1>2 DEF Sold
  <2>2. out \in Nat  BY VaultAssumption
  <2>3. UNCHANGED <<funding, advanced, owedUsd, paidOut>>  BY <1>2 DEF Sold, owedVars
  <2> QED  BY <1>0, <2>1, <2>2, <2>3 DEF Conserved, MoneyTypeOK
<1>3. CASE Failed(o)
  BY <1>3 DEF Failed, Conserved, liabilityVars, custodyVars, owedVars, historyVars
<1> QED  BY <1>1, <1>2, <1>3 DEF Execute

\* The settlement a push moves is added to exactly one of "paid out" and "owed".
LEMMA PushMoves ==
  ASSUME MoneyTypeOK, NEW r \in Refs, NEW s \in Refs, NEW held, NEW amount \in Nat,
         PushUsd(r, held, amount)
  PROVE  paidOut'[s] + owedUsd'[s] = paidOut[s] + owedUsd[s] + (IF s = r THEN amount ELSE 0)
<1>1. paidOut[s] \in Nat /\ owedUsd[s] \in Nat  BY DEF MoneyTypeOK
<1>2. CASE r \in Rejecting
  <2>1. owedUsd' = [owedUsd EXCEPT ![r] = @ + amount] /\ paidOut' = paidOut
    BY <1>2 DEF PushUsd
  <2> QED  BY <1>1, <2>1 DEF MoneyTypeOK
<1>3. CASE r \notin Rejecting
  <2>1. paidOut' = [paidOut EXCEPT ![r] = @ + amount] /\ owedUsd' = owedUsd
    BY <1>3 DEF PushUsd
  <2> QED  BY <1>1, <2>1 DEF MoneyTypeOK
<1> QED  BY <1>2, <1>3

\* A delivery pays out, or leaves to claim, exactly what it takes off the books.
LEMMA DeliverConserves ==
  ASSUME MoneyTypeOK, LogTypeOK, NEW d \in DeliverType, Deliver(d), NEW s \in Refs, Conserved(s)
  PROVE  Conserved(s)'
<1>0. d.ref \in Refs /\ funding[d.ref] + proceeds[d.ref] \in Nat  BY DEF DeliverType, MoneyTypeOK
<1>t. MoneyTypeOK'  BY DeliverTyped
<1>s. /\ {paidIn[s], advanced[s], paidOut[s], funding[s], proceeds[s], owedUsd[s]} \subseteq Nat
      /\ {paidOut'[s], owedUsd'[s]} \subseteq Nat
  BY <1>t DEF MoneyTypeOK
<1>1. ASSUME TakeLiabilities(d.ref), PushUsd(d.ref, usd, funding[d.ref] + proceeds[d.ref]),
             UNCHANGED <<advanced, paidIn>>
      PROVE  Conserved(s)'
  <2> DEFINE n == funding[d.ref] + proceeds[d.ref]
  <2>1. paidOut'[s] + owedUsd'[s] = paidOut[s] + owedUsd[s] + (IF s = d.ref THEN n ELSE 0)
    BY <1>0, <1>1, PushMoves
  <2>2. funding'[s] + proceeds'[s] = IF s = d.ref THEN 0 ELSE funding[s] + proceeds[s]
    BY <1>0, <1>1 DEF TakeLiabilities, MoneyTypeOK
  <2>3. funding'[s] \in Nat /\ proceeds'[s] \in Nat  BY <1>t DEF MoneyTypeOK
  <2>4. CASE s = d.ref  BY <1>s, <1>1, <2>1, <2>2, <2>3, <2>4 DEF Conserved
  <2>5. CASE s # d.ref
    <3>1. UNCHANGED <<funding[s], proceeds[s]>>
      BY <1>0, <1>1, <2>5 DEF TakeLiabilities, MoneyTypeOK
    <3> QED  BY <1>s, <1>1, <2>1, <2>5, <3>1 DEF Conserved
  <2> QED  BY <2>4, <2>5
<1>2. CASE DeliverSettled(d)
  BY <1>1, <1>2 DEF DeliverSettled, Conserved, vaultVars, liabilityVars, custodyVars, owedVars,
                    historyVars
<1>3. CASE DeliverVoid(d)  BY <1>1, <1>3 DEF DeliverVoid
<1>4. CASE DeliverShares(d)
  <2>1. UNCHANGED <<advanced, funding, proceeds>>  BY <1>4 DEF DeliverShares, liabilityVars
  <2>2. ASSUME NEW out \in SellOuts, PushUsd(d.ref, usd + out, out),
               paidIn' = [paidIn EXCEPT ![d.ref] = @ + out]
        PROVE  Conserved(s)'
    <3>1. out \in Nat  BY VaultAssumption
    <3>2. paidOut'[s] + owedUsd'[s] = paidOut[s] + owedUsd[s] + (IF s = d.ref THEN out ELSE 0)
      BY <1>0, <2>2, <3>1, PushMoves
    <3>3. paidIn'[s] = paidIn[s] + (IF s = d.ref THEN out ELSE 0)
      BY <1>0, <1>s, <2>2, <3>1 DEF MoneyTypeOK
    <3> QED  BY <1>s, <2>1, <3>1, <3>2, <3>3 DEF Conserved
  <2>3. ASSUME UNCHANGED <<owedUsd, historyVars>>  PROVE Conserved(s)'
    BY <2>1, <2>3 DEF Conserved, historyVars
  <2>4. \/ \E out \in SellOuts : /\ PushUsd(d.ref, usd + out, out)
                                /\ paidIn' = [paidIn EXCEPT ![d.ref] = @ + out]
        \/ UNCHANGED <<owedUsd, historyVars>>
    BY <1>4 DEF DeliverShares
  <2> QED  BY <2>2, <2>3, <2>4
<1> QED  BY <1>2, <1>3, <1>4 DEF Deliver

\* Every step of the vault conserves the money of every ref; one step per action.
LEMMA NextConserves ==
  ASSUME VaultTypeOK, [AnyVaultStep]_vaultVars, NEW s \in Refs, Conserved(s)
  PROVE  Conserved(s)'
<1> USE DEF VaultTypeOK
<1>1. ASSUME NEW o \in OrderType, ReceiveOrder(o)  PROVE Conserved(s)'
  <2>1. CASE UNCHANGED vaultVars
    BY <2>1 DEF Conserved, vaultVars, liabilityVars, custodyVars, owedVars, historyVars
  <2>2. CASE Execute(o)  BY <2>2, ExecuteConserves
  <2>3. CASE UNCHANGED <<advanced, liabilityVars, custodyVars, logVars, historyVars>>
    BY <2>3 DEF Conserved, liabilityVars, custodyVars, owedVars, historyVars
  <2> QED  BY <1>1, <2>1, <2>2, <2>3 DEF ReceiveOrder, Execute
<1>2. ASSUME NEW r \in Refs, ExecuteFunded(r)  PROVE Conserved(s)'
  <2> DEFINE o == [ref |-> r, side |-> "Buy", amountIn |-> waiting[r]]
  <2>1. o \in OrderType  BY DEF OrderType
  <2>2. Execute(o)  BY <1>2 DEF ExecuteFunded
  <2> HIDE DEF o
  <2> QED  BY <2>1, <2>2, ExecuteConserves
<1>3. ASSUME NEW r \in Refs, ReturnFunds(r)  PROVE Conserved(s)'
  <2>1. funding[r] \in Nat /\ proceeds[r] \in Nat  BY DEF MoneyTypeOK
  <2>2. /\ funding' = [funding EXCEPT ![r] = 0] /\ proceeds' = [proceeds EXCEPT ![r] = 0]
        /\ paidOut' = [paidOut EXCEPT ![r] = @ + (funding[r] + proceeds[r])]
        /\ UNCHANGED <<advanced, owedUsd, paidIn>>
    BY <1>3 DEF ReturnFunds, TakeLiabilities, owedVars
  <2> QED  BY <2>1, <2>2 DEF Conserved, MoneyTypeOK
<1>4. ASSUME NEW r \in Refs, ClaimUsd(r)  PROVE Conserved(s)'
  <2>1. owedUsd[r] \in Nat  BY DEF MoneyTypeOK
  <2>2. /\ owedUsd' = [owedUsd EXCEPT ![r] = 0]
        /\ paidOut' = [paidOut EXCEPT ![r] = @ + owedUsd[r]]
        /\ UNCHANGED <<advanced, funding, proceeds, paidIn>>
    BY <1>4 DEF ClaimUsd, liabilityVars
  <2> QED  BY <2>1, <2>2 DEF Conserved, MoneyTypeOK
<1>5. ASSUME NEW r \in Refs, NEW amount \in Nat, Fund(r, amount)  PROVE Conserved(s)'
  <2> DEFINE toFloat == IF advanced[r] < amount THEN advanced[r] ELSE amount
  <2>1. /\ advanced' = [advanced EXCEPT ![r] = @ - toFloat]
        /\ funding' = [funding EXCEPT ![r] = @ + (amount - toFloat)]
        /\ paidIn' = [paidIn EXCEPT ![r] = @ + amount]
        /\ UNCHANGED <<proceeds, owedUsd, paidOut>>
    BY <1>5 DEF Fund, owedVars
  <2>2. advanced[r] \in Nat  BY DEF MoneyTypeOK
  <2>3. toFloat \in Int  BY <2>2
  <2> HIDE DEF toFloat
  <2> QED  BY <2>1, <2>2, <2>3 DEF Conserved, MoneyTypeOK
<1>6. ASSUME NEW d \in DeliverType, Deliver(d)  PROVE Conserved(s)'
  BY <1>6, DeliverConserves
<1>7. CASE UNCHANGED <<paidIn, paidOut, advanced, funding, proceeds, owedUsd>>
  BY <1>7 DEF Conserved
<1> QED
  BY <1>1, <1>2, <1>3, <1>4, <1>5, <1>6, <1>7
  DEF AnyVaultStep, ClaimStock, Checkpoint, WithdrawFloat, SkimExcess, SetVaultFloat, MigrateIn,
      CloseMigration, Donate, vaultVars, liabilityVars, custodyVars, owedVars, historyVars

\* Money for a ref never serves another ref (ReserveVault.sol:245), for any number
\* of refs, amounts, repeated payments, float advances and rejected transfers.
THEOREM MoneyConserved == VaultSpec => []RefMoneyConserved
<1>1. VaultInit => RefMoneyConserved  BY DEF VaultInit, RefMoneyConserved
<1>2. VaultTypeOK /\ RefMoneyConserved /\ [AnyVaultStep]_vaultVars => RefMoneyConserved'
  BY NextConserves DEF RefMoneyConserved, Conserved
<1> QED  BY <1>1, <1>2, NextIsAny, TypeCorrect, PTL DEF VaultSpec

-----------------------------------------------------------------------------
(* The backing.  FullyBacked is inductive over the types: entitlement,     *)
(* stock and claims move together in every action.                         *)

\* Entitlement, stock and claims move together; one step per action.
LEMMA NextBacks ==
  ASSUME VaultTypeOK, FullyBacked, [AnyVaultStep]_vaultVars
  PROVE  FullyBacked'
<1> USE DEF VaultTypeOK, MoneyTypeOK, FullyBacked
<1>1. ASSUME NEW o \in OrderType, Execute(o)  PROVE FullyBacked'
  <2>1. o.amountIn \in Nat  BY DEF OrderType
  <2>2. CASE Bought(o)
    <3>1. PICK shares \in BuyOuts : stock' = stock + shares /\ entitled' = entitled + shares
      BY <2>2 DEF Bought
    <3> QED  BY <2>2, <3>1, VaultAssumption DEF Bought, owedVars
  <2>3. CASE Sold(o)  BY <2>1, <2>3 DEF Sold, owedVars
  <2>4. CASE Failed(o)  BY <2>4 DEF Failed, custodyVars, owedVars
  <2> QED  BY <1>1, <2>2, <2>3, <2>4 DEF Execute
<1>2. ASSUME NEW o \in OrderType, ReceiveOrder(o)  PROVE FullyBacked'
  BY <1>1, <1>2 DEF ReceiveOrder, Execute, vaultVars, custodyVars, owedVars
<1>3. ASSUME NEW r \in Refs, ExecuteFunded(r)  PROVE FullyBacked'
  <2> DEFINE o == [ref |-> r, side |-> "Buy", amountIn |-> waiting[r]]
  <2>1. o \in OrderType  BY DEF OrderType
  <2>2. Execute(o)  BY <1>3 DEF ExecuteFunded
  <2> HIDE DEF o
  <2> QED  BY <1>1, <2>1, <2>2
<1>4. ASSUME NEW d \in DeliverType, Deliver(d)  PROVE FullyBacked'
  <2>1. d.ref \in Refs /\ d.shares \in Nat  BY DEF DeliverType
  <2>2. CASE DeliverSettled(d) \/ DeliverVoid(d)
    BY <2>2 DEF DeliverSettled, DeliverVoid, vaultVars, custodyVars, owedVars
  <2>3. CASE DeliverShares(d)  BY <2>1, <2>3 DEF DeliverShares
  <2> QED  BY <1>4, <2>2, <2>3 DEF Deliver
<1>5. ASSUME NEW r \in Refs, ClaimStock(r)  PROVE FullyBacked'
  <2>1. owedStock[r] \in Nat  OBVIOUS
  <2> QED  BY <1>5, <2>1 DEF ClaimStock
<1>6. ASSUME NEW m \in Migrations, MigrateIn(m)  PROVE FullyBacked'
  BY <1>6, VaultAssumption DEF MigrateIn, owedVars
<1>7. CASE SkimExcess  BY <1>7 DEF SkimExcess, owedVars
<1>8. ASSUME NEW amount \in Nat, Donate(amount, 0)  PROVE FullyBacked'
  BY <1>8 DEF Donate, owedVars
<1>9. CASE Donate(0, 1)  BY <1>9 DEF Donate, owedVars
<1>10. CASE UNCHANGED <<stock, entitled, owedStockTotal>>  BY <1>10
<1> QED
  BY <1>2, <1>3, <1>4, <1>5, <1>6, <1>7, <1>8, <1>9, <1>10
  DEF AnyVaultStep, ReturnFunds, ClaimUsd, Fund, Checkpoint, WithdrawFloat, SetVaultFloat,
      CloseMigration, vaultVars, custodyVars, owedVars

\* isFullyBacked (ReserveVault.sol:475): the stock held covers what Arc may
\* circulate and what failed deliveries left to claim, in every state.
THEOREM AlwaysBacked == VaultSpec => []FullyBacked
<1>1. VaultInit => FullyBacked  BY VaultAssumption DEF VaultInit, FullyBacked
<1> QED  BY <1>1, NextBacks, NextIsAny, TypeCorrect, PTL DEF VaultSpec

-----------------------------------------------------------------------------
(* The totals.  LiabilitiesCovered is inductive over the types: a total    *)
(* moves with the one ref whose summand moves, and what leaves the balance *)
(* leaves a total too, or was free settlement.                             *)

\* A total that moves by what one ref's entry moves by stays the sum.
LEMMA TotalMoves ==
  ASSUME NEW f \in [Refs -> Nat], NEW g \in [Refs -> Nat], NEW r \in Refs,
         \A s \in Refs \ {r} : g[s] = f[s], NEW t, t = SumFunction(f)
  PROVE  t - f[r] + g[r] = SumFunction(g)
<1>1. \A s \in Refs : f[s] \in Int /\ g[s] \in Int  OBVIOUS
<1>2. Sum(g, Refs) = Sum(f, Refs) - f[r] + g[r]  BY <1>1, VaultAssumption, SumChange
<1>3. DOMAIN f = Refs /\ DOMAIN g = Refs  OBVIOUS
<1> QED  BY <1>2, <1>3 DEF SumFunction, Sum

\* A sum of one entry each: zero everywhere is zero in total.
LEMMA TotalStarts ==
  ASSUME NEW f \in [Refs -> Nat], \A r \in Refs : f[r] = 0
  PROVE  SumFunction(f) = 0
<1>1. Sum(f, Refs) = 0  BY VaultAssumption, SumZero
<1>2. DOMAIN f = Refs  OBVIOUS
<1> QED  BY <1>1, <1>2 DEF SumFunction, Sum

\* A buy: what the ref pays leaves its funding and its total, and what the float
\* advances was free.
LEMMA BuyCovered ==
  ASSUME VaultTypeOK, VaultTypeOK', LiabilitiesCovered, NEW o \in OrderType, Bought(o)
  PROVE  LiabilitiesCovered'
<1> DEFINE own == IF funding[o.ref] < o.amountIn THEN funding[o.ref] ELSE o.amountIn
<1>0. o.ref \in Refs /\ o.amountIn \in Nat  BY DEF OrderType
<1>1. /\ funding' = [funding EXCEPT ![o.ref] = @ - own]
      /\ fundingTotal' = fundingTotal - own
      /\ usd' = usd - o.amountIn
      /\ o.amountIn - own > 0 => FreeSettlement >= o.amountIn - own
      /\ UNCHANGED <<proceeds, proceedsTotal, owedUsd, owedUsdTotal>>
  BY DEF Bought, owedVars
<1>2. funding[o.ref] \in Nat  BY <1>0 DEF VaultTypeOK, MoneyTypeOK
<1>3. own \in Nat /\ own <= o.amountIn  BY <1>0, <1>2
<1> HIDE DEF own
<1>4. /\ \A s \in Refs \ {o.ref} : funding'[s] = funding[s]
      /\ funding'[o.ref] = funding[o.ref] - own
  BY <1>0, <1>1 DEF VaultTypeOK, MoneyTypeOK
<1>5. /\ funding \in [Refs -> Nat] /\ funding' \in [Refs -> Nat]
      /\ {fundingTotal, proceedsTotal, owedUsdTotal, usd} \subseteq Int
  BY DEF VaultTypeOK, MoneyTypeOK
<1>6. fundingTotal - funding[o.ref] + funding'[o.ref] = SumFunction(funding')
  BY <1>0, <1>4, <1>5, TotalMoves DEF LiabilitiesCovered
<1>7. fundingTotal' = SumFunction(funding')  BY <1>1, <1>2, <1>3, <1>4, <1>5, <1>6
<1>8. usd' >= SettlementLiabilities'
  BY <1>0, <1>1, <1>3, <1>5 DEF LiabilitiesCovered, SettlementLiabilities, FreeSettlement
<1> QED  BY <1>1, <1>7, <1>8 DEF LiabilitiesCovered

\* A sell: what the venue pays is the ref's proceeds.
LEMMA SellCovered ==
  ASSUME VaultTypeOK, VaultTypeOK', LiabilitiesCovered, NEW o \in OrderType, Sold(o)
  PROVE  LiabilitiesCovered'
<1>0. o.ref \in Refs  BY DEF OrderType
<1>1. PICK out \in SellOuts : /\ usd' = usd + out
                              /\ proceeds' = [proceeds EXCEPT ![o.ref] = @ + out]
                              /\ proceedsTotal' = proceedsTotal + out
  BY DEF Sold
<1>2. out \in Nat  BY VaultAssumption
<1>3. UNCHANGED <<funding, fundingTotal, owedUsd, owedUsdTotal>>  BY DEF Sold, owedVars
<1>4. /\ proceeds \in [Refs -> Nat] /\ proceeds' \in [Refs -> Nat]
      /\ {fundingTotal, proceedsTotal, owedUsdTotal, usd} \subseteq Int
  BY DEF VaultTypeOK, MoneyTypeOK
<1>5. /\ \A s \in Refs \ {o.ref} : proceeds'[s] = proceeds[s]
      /\ proceeds'[o.ref] = proceeds[o.ref] + out
  BY <1>0, <1>1, <1>4
<1>6. proceedsTotal - proceeds[o.ref] + proceeds'[o.ref] = SumFunction(proceeds')
  BY <1>0, <1>4, <1>5, TotalMoves DEF LiabilitiesCovered
<1>7. proceedsTotal' = SumFunction(proceeds')
  <2>1. proceeds[o.ref] \in Nat  BY <1>0, <1>4
  <2> QED  BY <1>1, <1>2, <1>4, <1>5, <1>6, <2>1
<1>8. usd' >= SettlementLiabilities'
  BY <1>1, <1>2, <1>3, <1>4 DEF LiabilitiesCovered, SettlementLiabilities
<1> QED  BY <1>3, <1>7, <1>8 DEF LiabilitiesCovered

\* An execution keeps the liabilities covered.
LEMMA ExecuteCovered ==
  ASSUME VaultTypeOK, VaultTypeOK', LiabilitiesCovered, NEW o \in OrderType, Execute(o)
  PROVE  LiabilitiesCovered'
<1>1. CASE Bought(o)  BY <1>1, BuyCovered
<1>2. CASE Sold(o)  BY <1>2, SellCovered
<1>3. CASE Failed(o)
  BY <1>3 DEF Failed, LiabilitiesCovered, SettlementLiabilities, liabilityVars, custodyVars, owedVars
<1> QED  BY <1>1, <1>2, <1>3 DEF Execute

\* What a ref holds leaves its entries and its totals together.
LEMMA TakeMoves ==
  ASSUME VaultTypeOK, VaultTypeOK', LiabilitiesCovered, NEW r \in Refs, TakeLiabilities(r)
  PROVE  /\ fundingTotal' = SumFunction(funding')
         /\ proceedsTotal' = SumFunction(proceeds')
         /\ fundingTotal' + proceedsTotal' = fundingTotal + proceedsTotal - (funding[r] + proceeds[r])
<1>1. /\ {funding, proceeds, funding', proceeds'} \subseteq [Refs -> Nat]
      /\ {fundingTotal, proceedsTotal} \subseteq Int
      /\ {funding[r], proceeds[r]} \subseteq Nat
  BY DEF VaultTypeOK, MoneyTypeOK
<1>2. /\ \A s \in Refs \ {r} : funding'[s] = funding[s] /\ proceeds'[s] = proceeds[s]
      /\ funding'[r] = 0 /\ proceeds'[r] = 0
      /\ fundingTotal' = fundingTotal - funding[r]
      /\ proceedsTotal' = proceedsTotal - proceeds[r]
  BY <1>1 DEF TakeLiabilities
<1>3. fundingTotal - funding[r] + funding'[r] = SumFunction(funding')
  BY <1>1, <1>2, TotalMoves DEF LiabilitiesCovered
<1>4. proceedsTotal - proceeds[r] + proceeds'[r] = SumFunction(proceeds')
  BY <1>1, <1>2, TotalMoves DEF LiabilitiesCovered
<1> QED  BY <1>1, <1>2, <1>3, <1>4

\* A push moves the same amount out of the balance, or into the claims and their total.
LEMMA PushCovered ==
  ASSUME VaultTypeOK, VaultTypeOK', LiabilitiesCovered, NEW r \in Refs, NEW held \in Int,
         NEW amount \in Nat, PushUsd(r, held, amount)
  PROVE  /\ owedUsdTotal' = SumFunction(owedUsd')
         /\ usd' - owedUsdTotal' = held - amount - owedUsdTotal
<1>1. /\ {owedUsd, owedUsd'} \subseteq [Refs -> Nat] /\ owedUsdTotal \in Int
      /\ owedUsd[r] \in Nat
  BY DEF VaultTypeOK, MoneyTypeOK
<1>2. CASE r \in Rejecting
  <2>1. /\ usd' = held /\ owedUsd' = [owedUsd EXCEPT ![r] = @ + amount]
        /\ owedUsdTotal' = owedUsdTotal + amount
    BY <1>2 DEF PushUsd
  <2>2. /\ \A s \in Refs \ {r} : owedUsd'[s] = owedUsd[s]
        /\ owedUsd'[r] = owedUsd[r] + amount
    BY <1>1, <2>1
  <2>3. owedUsdTotal - owedUsd[r] + owedUsd'[r] = SumFunction(owedUsd')
    BY <1>1, <2>2, TotalMoves DEF LiabilitiesCovered
  <2> QED  BY <1>1, <2>1, <2>2, <2>3
<1>3. CASE r \notin Rejecting
  BY <1>1, <1>3 DEF PushUsd, LiabilitiesCovered
<1> QED  BY <1>2, <1>3

\* A delivery pays, or leaves to claim, what it takes off the books.
LEMMA DeliverCovered ==
  ASSUME VaultTypeOK, VaultTypeOK', LiabilitiesCovered, NEW d \in DeliverType, Deliver(d)
  PROVE  LiabilitiesCovered'
<1>0. /\ d.ref \in Refs /\ usd \in Int /\ funding[d.ref] + proceeds[d.ref] \in Nat
      /\ {fundingTotal, proceedsTotal, owedUsdTotal} \subseteq Int
      /\ {fundingTotal', proceedsTotal', owedUsdTotal', usd'} \subseteq Int
  BY DEF DeliverType, VaultTypeOK, MoneyTypeOK
<1>1. ASSUME TakeLiabilities(d.ref), PushUsd(d.ref, usd, funding[d.ref] + proceeds[d.ref])
      PROVE  LiabilitiesCovered'
  <2> DEFINE n == funding[d.ref] + proceeds[d.ref]
  <2>1. /\ fundingTotal' = SumFunction(funding') /\ proceedsTotal' = SumFunction(proceeds')
        /\ fundingTotal' + proceedsTotal' = fundingTotal + proceedsTotal - n
    BY <1>0, <1>1, TakeMoves
  <2>2. owedUsdTotal' = SumFunction(owedUsd') /\ usd' - owedUsdTotal' = usd - n - owedUsdTotal
    BY <1>0, <1>1, PushCovered
  <2>3. n \in Nat  BY <1>0
  <2> HIDE DEF n
  <2> QED  BY <1>0, <2>1, <2>2, <2>3 DEF LiabilitiesCovered, SettlementLiabilities
<1>2. CASE DeliverSettled(d)
  BY <1>1, <1>2 DEF DeliverSettled, LiabilitiesCovered, SettlementLiabilities, vaultVars,
                    liabilityVars, custodyVars, owedVars
<1>3. CASE DeliverVoid(d)  BY <1>1, <1>3 DEF DeliverVoid
<1>4. CASE DeliverShares(d)
  <2>1. UNCHANGED <<funding, proceeds, fundingTotal, proceedsTotal>>
    BY <1>4 DEF DeliverShares, liabilityVars
  <2>2. ASSUME NEW out \in SellOuts, PushUsd(d.ref, usd + out, out)
        PROVE  LiabilitiesCovered'
    <3>1. out \in Nat /\ usd + out \in Int  BY <1>0, VaultAssumption
    <3>2. /\ owedUsdTotal' = SumFunction(owedUsd')
          /\ usd' - owedUsdTotal' = (usd + out) - out - owedUsdTotal
      BY <1>0, <2>2, <3>1, PushCovered
    <3> QED  BY <1>0, <2>1, <3>1, <3>2 DEF LiabilitiesCovered, SettlementLiabilities
  <2>3. ASSUME UNCHANGED <<usd, owedUsd, owedUsdTotal>>  PROVE LiabilitiesCovered'
    BY <2>1, <2>3 DEF LiabilitiesCovered, SettlementLiabilities
  <2>4. \/ \E out \in SellOuts : PushUsd(d.ref, usd + out, out)
        \/ UNCHANGED <<usd, owedUsd, owedUsdTotal>>
    BY <1>4 DEF DeliverShares
  <2> QED  BY <2>2, <2>3, <2>4
<1> QED  BY <1>2, <1>3, <1>4 DEF Deliver

\* Money paid in for a ref: what refills the float is nobody's, the rest is the ref's.
LEMMA FundCovered ==
  ASSUME VaultTypeOK, VaultTypeOK', LiabilitiesCovered, NEW r \in Refs, NEW amount \in Nat,
         Fund(r, amount)
  PROVE  LiabilitiesCovered'
<1> DEFINE toFloat == IF advanced[r] < amount THEN advanced[r] ELSE amount
<1>1. /\ usd' = usd + amount
      /\ funding' = [funding EXCEPT ![r] = @ + (amount - toFloat)]
      /\ fundingTotal' = fundingTotal + amount - toFloat
      /\ UNCHANGED <<proceeds, proceedsTotal, owedUsd, owedUsdTotal>>
  BY DEF Fund, owedVars
<1>2. toFloat \in Nat
  <2>1. advanced[r] \in Nat  BY DEF VaultTypeOK, MoneyTypeOK
  <2> QED  BY <2>1
<1> HIDE DEF toFloat
<1>3. /\ funding \in [Refs -> Nat] /\ funding' \in [Refs -> Nat] /\ funding[r] \in Nat
      /\ {fundingTotal, proceedsTotal, owedUsdTotal, usd} \subseteq Int
  BY DEF VaultTypeOK, MoneyTypeOK
<1>4. /\ \A s \in Refs \ {r} : funding'[s] = funding[s]
      /\ funding'[r] = funding[r] + (amount - toFloat)
  BY <1>1, <1>3
<1>5. fundingTotal - funding[r] + funding'[r] = SumFunction(funding')
  BY <1>3, <1>4, TotalMoves DEF LiabilitiesCovered
<1>6. fundingTotal' = SumFunction(funding')  BY <1>1, <1>2, <1>3, <1>4, <1>5
<1>7. usd' >= SettlementLiabilities'
  BY <1>1, <1>2, <1>3 DEF LiabilitiesCovered, SettlementLiabilities
<1> QED  BY <1>1, <1>6, <1>7 DEF LiabilitiesCovered

\* Every step of the vault keeps its liabilities covered; one step per action.
LEMMA NextCovers ==
  ASSUME VaultTypeOK, VaultTypeOK', LiabilitiesCovered, [AnyVaultStep]_vaultVars
  PROVE  LiabilitiesCovered'
<1>0. {fundingTotal, proceedsTotal, owedUsdTotal, usd} \subseteq Int
  BY DEF VaultTypeOK, MoneyTypeOK
<1>1. ASSUME NEW o \in OrderType, ReceiveOrder(o)  PROVE LiabilitiesCovered'
  <2>1. CASE Execute(o)  BY <2>1, ExecuteCovered
  <2>2. CASE UNCHANGED <<liabilityVars, custodyVars>>
    BY <2>2 DEF LiabilitiesCovered, SettlementLiabilities, liabilityVars, custodyVars, owedVars
  <2> QED  BY <1>1, <2>1, <2>2 DEF ReceiveOrder, Execute, vaultVars
<1>2. ASSUME NEW r \in Refs, ExecuteFunded(r)  PROVE LiabilitiesCovered'
  <2> DEFINE o == [ref |-> r, side |-> "Buy", amountIn |-> waiting[r]]
  <2>1. o \in OrderType  BY DEF OrderType, VaultTypeOK
  <2>2. Execute(o)  BY <1>2 DEF ExecuteFunded
  <2> HIDE DEF o
  <2> QED  BY <2>1, <2>2, ExecuteCovered
<1>3. ASSUME NEW r \in Refs, ReturnFunds(r)  PROVE LiabilitiesCovered'
  <2>1. /\ usd' = usd - (funding[r] + proceeds[r]) /\ UNCHANGED <<owedUsd, owedUsdTotal>>
        /\ TakeLiabilities(r)
    BY <1>3 DEF ReturnFunds, owedVars
  <2>2. funding[r] + proceeds[r] \in Nat /\ {fundingTotal', proceedsTotal'} \subseteq Int
    BY DEF VaultTypeOK, MoneyTypeOK
  <2> QED  BY <1>0, <2>1, <2>2, TakeMoves DEF LiabilitiesCovered, SettlementLiabilities
<1>4. ASSUME NEW r \in Refs, ClaimUsd(r)  PROVE LiabilitiesCovered'
  <2>1. /\ {owedUsd, owedUsd'} \subseteq [Refs -> Nat] /\ owedUsd[r] \in Nat
    BY DEF VaultTypeOK, MoneyTypeOK
  <2>2. /\ usd' = usd - owedUsd[r] /\ owedUsdTotal' = owedUsdTotal - owedUsd[r]
        /\ owedUsd' = [owedUsd EXCEPT ![r] = 0]
        /\ UNCHANGED <<funding, proceeds, fundingTotal, proceedsTotal>>
    BY <1>4 DEF ClaimUsd, liabilityVars
  <2>3. (\A s \in Refs \ {r} : owedUsd'[s] = owedUsd[s]) /\ owedUsd'[r] = 0  BY <2>1, <2>2
  <2>4. owedUsdTotal - owedUsd[r] + owedUsd'[r] = SumFunction(owedUsd')
    BY <2>1, <2>3, TotalMoves DEF LiabilitiesCovered
  <2>5. owedUsdTotal' = SumFunction(owedUsd')  BY <1>0, <2>1, <2>2, <2>3, <2>4
  <2> QED  BY <1>0, <2>1, <2>2, <2>5 DEF LiabilitiesCovered, SettlementLiabilities
<1>5. ASSUME NEW r \in Refs, NEW amount \in Nat, Fund(r, amount)
      PROVE LiabilitiesCovered'
  BY <1>5, FundCovered
<1>6. ASSUME NEW d \in DeliverType, Deliver(d)  PROVE LiabilitiesCovered'
  BY <1>6, DeliverCovered
<1>7. ASSUME UNCHANGED <<liabilityVars, owedUsd, owedUsdTotal>>,
             \/ usd' \in Int /\ usd' >= usd
             \/ \E n \in Nat : n <= FreeSettlement /\ usd' = usd - n
      PROVE LiabilitiesCovered'
  <2>1. UNCHANGED <<funding, proceeds, fundingTotal, proceedsTotal, owedUsd, owedUsdTotal>>
    BY <1>7 DEF liabilityVars
  <2>2. usd' >= SettlementLiabilities'
    BY <1>0, <1>7, <2>1 DEF LiabilitiesCovered, SettlementLiabilities, FreeSettlement
  <2> QED  BY <2>1, <2>2 DEF LiabilitiesCovered
<1>8. ASSUME NEW amount \in Nat, WithdrawFloat(amount)  PROVE LiabilitiesCovered'
  BY <1>7, <1>8 DEF WithdrawFloat, owedVars
<1>9. ASSUME NEW m \in Migrations, MigrateIn(m)  PROVE LiabilitiesCovered'
  BY <1>7, <1>9, VaultAssumption DEF MigrateIn, owedVars
<1>10. ASSUME NEW amount \in Nat, Donate(amount, 0)  PROVE LiabilitiesCovered'
  BY <1>0, <1>7, <1>10 DEF Donate, owedVars
<1>11. CASE Donate(0, 1)  BY <1>0, <1>7, <1>11 DEF Donate, owedVars
<1>12. CASE UNCHANGED <<liabilityVars, usd, owedUsd, owedUsdTotal>>
  BY <1>0, <1>7, <1>12
<1> QED
  BY <1>1, <1>2, <1>3, <1>4, <1>5, <1>6, <1>8, <1>9, <1>10, <1>11, <1>12
  DEF AnyVaultStep, ClaimStock, Checkpoint, SkimExcess, SetVaultFloat, CloseMigration, vaultVars,
      custodyVars, owedVars

\* Nothing is held and nothing owed.
LEMMA VaultStartsCovered ==
  ASSUME VaultInit
  PROVE  LiabilitiesCovered
<1>1. /\ \A r \in Refs : funding[r] = 0 /\ proceeds[r] = 0 /\ owedUsd[r] = 0
      /\ {funding, proceeds, owedUsd} \subseteq [Refs -> Nat]
  BY DEF VaultInit
<1>2. SumFunction(funding) = 0 /\ SumFunction(proceeds) = 0 /\ SumFunction(owedUsd) = 0
  BY <1>1, TotalStarts
<1> QED  BY <1>2, VaultAssumption DEF VaultInit, LiabilitiesCovered, SettlementLiabilities

\* The vault can pay what it owes (settlementLiabilities, freeSettlement): each
\* total is the sum of its refs and the balance covers the three, for any number
\* of refs, executions, advances, deliveries, claims and withdrawals of the float.
THEOREM AlwaysCovered == VaultSpec => []LiabilitiesCovered
<1>1. VaultTypeOK /\ VaultTypeOK' /\ LiabilitiesCovered /\ [AnyVaultStep]_vaultVars
        => LiabilitiesCovered'
  BY NextCovers
<1> QED  BY <1>1, VaultStartsCovered, NextIsAny, TypeCorrect, PTL DEF VaultSpec
=============================================================================
