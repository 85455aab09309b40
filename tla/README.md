# Verification of the Solon stock layer

TLA+ modules, TLC runs and TLAPS proofs kept beside the contracts of
`solonpad-contracts`. This document says what the system is, which part of it
each module models, what the runs and proofs show, and what is left.

Paths below are relative to `src/src/v3/` unless they start otherwise. "HS" is
`stock/HubSettlement.sol`, "CC" is `stock/CapacityController.sol`.

## 1. The system

| Component | State it keeps | Operations | Talks to |
|---|---|---|---|
| **Stock hub** (`stock/SolonStockHub.sol`, `HubSettlement.sol`, `HubExits.sol`), Arc | orders, native money escrowed, fees, claims, float, STOCK.sol supply, unreconciled results, mint allowance | place, launch, dispatch, cancel, void, escalate, settle, reconcile, claim, halt | scheduler, caps, money route, vault (LayerZero), gate |
| **Launch queues** (`stock/OrderScheduler.sol`) | two FIFO queues, heads, public streak | enqueue, launchNext, skipClosed | hub, caps |
| **Issuance caps** (`stock/CapacityController.sol`) | tickets, exposure counters, limits, asset caps and their proposals | reserve, send, release, finalize, redeem, review, lower/propose/execute | hub, reward manager |
| **Reserve vault** (`stock/robinhood/ReserveVault.sol`), Robinhood Chain | money per order ref, stock, entitlement, result log, checkpoints | receive order, fund, execute, return, deliver, claim, migrate, checkpoint | venue, hub (LayerZero), bridger |
| **Money route** (`stock/RelayFundingRoute.sol`) | used request ids | send, receiveReturnFor | hub, Relay solvers |
| **Canonical lane** (`stock/CanonicalGate.sol`, `stock/ethereum/EthereumBridger.sol`, `libs/`) | checkpoints received, deliveries stored | verify, send, relay, retry | hub, vault, CCTP, Arbitrum tickets |
| **Stock pools and instant desk** (`StockPoolVault`, `PoolASwapRouter`, `InstantStockDesk`, `RestrictedVenue`, `SolonStockSellRoute`) | pool inventory, quotes | deposit, restock, swap | hub, venue |
| **Float rebalancing** (`FloatRebalancer`, `EthereumFloatAdapter`, `FloatReceiver`) | bridged float in flight | start, relay, receive | hub and vault floats, CCTP |
| **Reward rounds** (`RewardRoundManager`, `RewardBatcher`, `adapters/`, `RewardVault`) | round phases, budgets, adapter orders | open, fund, submit, claim, retry | hub, caps, payout |
| **Reward payout** (`RewardPayoutVault`, `RewardDistributor`, `V3RewardToken`, eligibility) | claims, expiry windows, carries | credit, claim, expire | rounds, holders |
| **Trading fees** (`V3QuoteFeeHook`, `V3FeeLedger`, converters, burn executor, vaults) | ledger shares, pending conversions | collect, convert, pay | pools, rounds, staking |
| **Staking and desk** (`SolonStakingV2`, `StakingRewardSource`, `DeskNFT`, `DeskRewards`) | stakes, reward per share, seats | stake, unstake, notify, claim | fees |
| **Launch and governance** (`V3LaunchFactory`, `governance/V3Governance`) | launches, timelocked operations | launch, schedule, execute | all |
| **Oracle** (`oracle/`) | relayed prices, breaker | push, read | pools, desk |
| **V2 launchpad** (`src/src/v2/`) | curves, graduation, fee escrow | buy, sell, graduate | fee ingress |
| **Transaction sender** (`src/keepers/v3/lib/tx.mjs`, `journal.mjs`, `lock.mjs`) | one journal per account: tasks, attempts, nonces | send, reconcile, mark | every keeper, the nodes |
| **Launcher and refund keepers** (`keepers/v3/launcher`, `refund`) | launch and refund records, the day's total | launch the next order, credit missing money | scheduler, hub, Relay |
| **Canonical keepers** (`keepers/v3/canonical`) | cursors, transactions done, failures | checkpoint, prove, execute, forward, relay | vault, outbox, bridger, Iris, gate, hub |
| **Vault worker** (`keepers/v3/vault`) | event cursor, waiting and returnable refs | scan, execute, return | vault |
| **Round keeper** (`keepers/v3/round`) | sources, watermarks, plans, rounds | discover, seal, batch, dispatch, progress | staking sources, batcher, manager, adapter |
| **Payout keeper** (`keepers/v3/push`) | queues, days | prepare, list, batch, complete | reward vault, distributor |
| **Price keeper** (`keepers/v3/oracle`, `lib/price-demand.mjs`) | demand file, episode | ask, coalesce, poke | relays, every keeper that needs a price |
| **Desk, restock and ingress keepers** (`keepers/v3/desk`, `restock`, `ingress`) | journals | mint for the pool, sell, collect | desk, hub, fee ingress |

`PROJECT.json` lists each with its files and what is and is not modelled.

The stock layer is where money and stock live on two chains at once, so it is
modelled first. What is hard in it:

* **Two lanes answer one order.** A result comes over LayerZero (at once, if at
  all) and can be proved against a checkpoint later. Either may come first, both
  may come, and each may come again.
* **Two floats.** The hub may refund or pay an order before its money returns;
  the vault may buy before the money arrives. Money that comes later must refill
  what advanced it.
* **Money travels apart from messages.** A principal may arrive before its order,
  after its execution or after its void, in parts, less a cost, or bounce.
* **Taking back.** Cancel, void, escalation and canonical delivery race the order.
* **Refused payments.** Any payment to a user may be rejected and becomes a claim.
* **Caps under way.** Limits are lowered under open reservations.

The keepers move all of it and are where it can stop. What is hard in them:

* **A send has no answer for a while.** A transaction may be mined after the keeper
  stopped waiting, be replaced, be dropped by the node and mined all the same, or be
  signed by a process that then died.
* **A journal next to a chain.** A record written before its effect promises too much,
  one written after it forgets it when the process dies; cursors must stay behind what
  they stand for.
* **Reads that are old.** Nodes lag; a state read at the beginning of a tick is used at
  its end; a shared file is written by several processes.
* **Everything is open to anyone.** The step a keeper is about to take may already be
  done, by a stranger or by its own late transaction.
* **Giving up.** Each task has MAX_ATTEMPTS; what is quarantined must not hold the rest.

Properties that make each component correct: the caps never issue beyond what is
in force and their counters are the sum of tickets; the vault settles a ref once,
never mixes refs' money and always holds the stock Arc may circulate; the hub
escrows exactly what it owes its orders and can always pay; together no share is
unbacked and nobody is paid twice; the queues lose and reorder nothing. For the
later components: a round pays its budget once, ledgers conserve, stakers' rewards
sum to what was notified, a timelock is never skipped, a stale price is never used.
The keepers: a task runs within its attempts and is resolved; no money withdrawn for an
order is lost or credited twice; every result is proven, every finished day sealed, every
round ended, every queue walked and every demand served, unless the keeper gave it up.

## 2. Modules

```
CapacityController ──► StockHub ──┬──► OrderScheduler   (queues driving the hub)
                                  └──► StockLayer ◄── ReserveVault

SumLemmas ──► CapacityProofs (over OrderScheduler, thus CapacityController)
         └──► ReserveVaultProofs (over ReserveVault) ──► LayerProofs (over StockLayer)
                                                               └──► AccountProofs ──► MoneyProofs

TaskPromise ◄── refined by ── TxJournal

TaskSender ──► RefundKeeper, LauncherKeeper, VaultWorker, SealKeeper, RoundKeeper, OracleDemand
               CanonicalKeepers, PushKeeper

RefundKeeper, LauncherKeeper, CanonicalKeepers, TxJournal ──► KeeperProofs
SealKeeper, RoundKeeper, PushKeeper, OracleDemand         ──► RewardProofs
```

An arrow is EXTENDS. TaskPromise is instantiated by TxJournal with a refinement mapping.
`MCBooks` (caps and vault), `MCLayer`, `MCScheduler`, `MCKeepers` and `MCRewards` hold the
instances. In the first two a behaviour has a *theme*, chosen at the start, which
restricts who acts; in the last two a *part* names the one keeper that acts. A behaviour
keeps its theme or part: such a run is a union of smaller instances.

### CapacityController
State: `book` (tickets and counters as one record), `limits`, `pendingLimits`,
`assetCap`, `pendingAssetCap`. Each Solidity entry point is an operator from book
to book (`Reserved`, `SentMarked`, `Dropped`, `Released`, `BuyFinalized`,
`RedeemBegun`, `RedeemFinalized`, `RedeemReverted`, `Reviewed`), so that the hub's
transactions compose them; the actions of the same names apply them. `eta` is a
number of ticks still to wait. Two facts are kept of the callers: a buy is
finalized on the asset it was reserved for (HubSettlement.sol:386, 579), and a
redemption is of some shares (SolonStockHub.sol:229, HubExits.sol:86). A buy may
be issued with no shares: the contract does not refuse it.

### ReserveVault
One listed underlying; money in the settlement token's last digit. Per ref:
`funding`, `proceeds`, `advanced`, `waiting`, claims; in total: the three liability
totals, `usd`, `stock`, `entitled`; the log `results` and `checkpointed`. The venue
is external: a buy or a sell returns any amount of a set, or fails. `lzSent`,
`checkpointsSent` and `returnsSent` are what ever left. `paidIn` and `paidOut` are
history variables. `Failed` stands for every reason for which `_execute` fails
(paused, disabled, minimum not met, venue). `Record` is `_settleAndSend`.

### StockHub
The hub as one record `hub` (orders, native, escrowed, fees, claims, supply); each
library function is an operator from hub to hub and a transaction is their
composition in the code's order (`Paid`, `HeldFlushed`, `ReturnedBuyClosed`,
`HeldProceedsPaid`, `BoughtApplied`, ...). `Settle` is `HS.settle` in all its
branches, on either lane; `Launch` reserves and marks the ticket in the book of
CapacityController in the same step. Order amounts are constants of the instance;
`paid` and `shares` are history (what the user was sent), and so is `late`: what was meant
for the treasury and could not be sent, which `_pay` books as the order's (section 5, 7).
`AdminActs` says which operator acts an instance includes. A payment beyond the hub's
balance becomes owed like one that is refused (`Paid`), and a transaction that calls with
more money than the hub has reverts (`CanSend`).

Abstractions: CANCEL_AFTER and ESCALATE_AFTER may have elapsed at any time; the hub
is never paused (pausing only removes steps); the window allowance of the float is
a nondeterministic choice; a revert is no step; a void pays its fee wholly from the
caller or wholly from the reserve; Ops and the treasury accept their payments;
amounts below SCALE do not exist. Left out: listings and configuration, the list
of open orders, `fundFloat`, `voidClaimable`, the daily mint allowance and
`checkStale` (halting and resuming mints are acts of the operator here).
`InitialSupply` is stock of earlier migrations, which carries no USD basis.

### StockLayer
Hub and vault with the channels between them. Messages and deliveries are "ever
sent" sets: any of them may be received now, later, again or never. A principal
sent through the route is filled or bounced once (`resolved`), a return is credited
once (`credited`), each less a cost of `Costs`. Strangers may pay in for any order
at the vault (`fund`) and at the hub (`subsidize`, and the route's executor forwards
anyone's call); the histories `donated` and `topUps` say how much, up to `PaidBound` and
`TopUpBound`, so that the properties of an order's money can set their gifts apart. A result is provable as soon as a
checkpoint covers it and a delivery can be executed at any time: the gate and the
bridger are abstracted to that. Fills call `fund`; fills that are plain transfers
are planned as StockFloatMode.

### OrderScheduler
`queue` holds every id ever enqueued per lane, `head` what was taken or skipped,
`publicStreak` the turns, `passedOver` is history. `LaunchNext` calls the `Launch` of
StockHub, so refunds, reservations and dispatches are the real ones. Of the hub's
other operations those are present that change what the queues look at: placing,
taking back, topping up, failed answers (they free capacity) and the guardian's
`lowerLimits`. `QueueBound` bounds re-queueing; the scan of 64 is `ScanBound`. The
saturation of the streak at 255 is left out: it is above PublicPerReward
in any case.

### TaskPromise and TxJournal
TaskPromise is what a keeper may count on when it sends a task's transaction: one
answer, "done" only if the chain ran it, at most `MaxAttempts` effects. A quarantined
task of the canonical lane (`Reopenable`) is opened again by itself, with no attempts
(`reopenQuarantined`, outbox-executor.mjs:31, called at :147, :168 and
cctp-relayer.mjs:132): each opening has its own answer and its own `MaxAttempts`; any
other task has one opening. TxJournal
is how `lib/tx.mjs` over `lib/journal.mjs` keeps that: every await of `send` and
`reconcile` is a step (`pc`: broadcast, wait, nonce), between which blocks are mined, the
node drops or finds transactions and the process dies. `task` is the journal on disk,
`txs` what became of each signature (the n-th of a key's opening o is slot `<<key, o, n>>`),
`latest` the account's nonce. The node's pending nonce is computed from its mempool
(`IsPending`). `Rejected` is every error of the broadcast, also the answer that the
transaction is already known. `Abort` is a crash or an error that ends the tick; `old` the
tasks older than giveUpMs. Delays are left out: a retry, and the reopening an hour after
the quarantine, come at any later time.
One writer per account is assumed (`lib/lock.mjs`).

### TaskSender
The same sender as the other keepers' models see it, a few operators: an answer
"confirmed", or none yet, or a failed attempt. It assumes that a task's transaction runs
at most once, which is the promise of `lib/tx.mjs:3` and holds as long as no transaction
outlives its give-up or a refusal that calls it already known (finding 5). The tasks it
stands for are not opened again, but for calls that are open to anyone anyway
(CanonicalKeepers). Each keeper adds what the
transaction does when it runs (`Runs`, `launchNext`, `executeFunded`, ...), which may
happen at the send, later (`Land`), or never.

### RefundKeeper
`open`, `held`, `proceeds`, `float` are the hub and the vault as the keeper reads them;
`rec` and `used` its journal; `at` the place in `handle` (withdraw, record, day's total,
credit, close), between any two of which it may die. `tick` holds the orders handled in
this tick and the slots they took: an order that is `Deferred`, because the day's cap or the float
does not allow it, takes one of the `maxPerTick` slots too. `Dust`, `CloseElsewhere` and
`ProceedsReturn` are what others do to the order meanwhile. `taken`, `credited` and
`refilled` are history. Left out: the check of the signers' roles at the start of a tick,
the order of `openOrders` (any order may be next), alerts.

### LauncherKeeper
`IsNext` is the scheduler's answer (the real queues are OrderScheduler); `Plan`,
`RecordQuote`, `LaunchConfirmed` or
`LaunchUnconfirmed`, `RecordLaunch`, `DispatchFunded` are the parts of `launchOne`; `WatchFill` the
watch of the Relay request. A quote is a fresh task key; names of quotes whose task can no
longer matter are used again. The quote's amounts and the route's checks are left out.

### CanonicalKeepers
Three processes over six places: results `made` and checkpoints sent on the vault, sends
confirmed by the rollup, accepted and burnt at the bridger, arrived at the gate, proven at
the hub. Each process has its journal (`cursor` and `failures`, `executed`, `relayed`);
`walk` is the place of `reconcilePhase` with its budget. Every call is open to anyone, so
effects of strangers and of earlier ticks are the steps of `Anyone`. `usdc` counts whole
fees; `Fund` is Ops paying the bridger. `cpSend` is the task of the present range's
checkpoint (`checkpoint:through:n`): it may be in flight, fail and be quarantined until
a new result gives it another key. Merkle proofs and attestations are abstracted to "provable
once confirmed".

Left out: the relayer's deliver lane, which takes the hub's delivery messages to
Ethereum with the value of a retryable ticket (cctp-relayer.mjs:62, 136-140); the hub's
`checkStale` after a confirmed reconcile (keeper.mjs:130-133), which prunes a deque that is
not modelled; the pace of checkpoints (`checkpointEverySec`, `checkpointBatch`).

### VaultWorker
The vault as the worker sees it: a ref waits or is settled and has money of its own.
`BeginWork`, `NoteEvent`, `SaveCursor`, the judgement and execution of each waiting ref
(`NextWaiting`) and the return of each returnable one (`NextReturn`) are steps; `job` is the
place. Top-ups, other people's executions and returns
happen in between. The vault itself is ReserveVault.

### SealKeeper
Discovery and seals of the round keeper. Sources are announced in blocks, found by a
cursor in chunks. The logs of a chunk (discovery.mjs:57) and the block that lets the cursor
pass it (:66) are two steps, each answered by a node that knows the blocks up to any number:
the provider is one URL, which may stand for several nodes, and a single one may catch up
between the two. `hidden` is history: the sources whose blocks the cursor passed though the logs
came from a node that did not have them (finding 4). A token's
budget is credited while its day lasts; a staking lane holds carry that `sealSource`
releases into the days of later events (`carry`, `Processed`). `through` is the watermark.
A lane's entry source is taken to be created within the attempts of its task.

### RoundKeeper
`previewBatch`, `roundCap` and `planBatch` are functions of the queue; an order is planned
(journal), its Ops fees are deposited, the round is started, its dispatch recorded as
intent and then sent, and it is moved on by `ProgressRound` until settled or refunded.
Plans expire and are replaced, deposits and starts may land late, anyone may start or move
a round. The hub's answer is `HubAnswers`, a fill or a refund; the launch lane used
for the dispatch is a payment that is sent, not sent, or sent with its outcome unknown.
Left out: the reserved start, sources the manager has quarantined, rounds that are cancelled
or orphaned.

### PushKeeper
Preparation (participants, index seal, queue) for each revision of an allocation; the
list of queues found by a scan of ids; one batch per queue and quarter of an hour, a
completed cycle per day. A step of the preparation may fail and its task be quarantined
(`prepTries`). While the price of an allocation's stock is old in market hours (`awaited`) its
queue is left alone in every tick (`priceReady`, push/keeper.mjs:280); the plan of the day, once the
price is fresh or the market closed, may skip the day. `batchDistribute` is RewardDistributor's,
with the reset of a completed cursor. Its gas guard does not end a batch of the keeper
before the first account: `gasPlan` (push/decide.mjs:50-58) gives more than
RewardDistributor.sol:129 asks for. `seen` is history. Payments to an account are
abstracted to "its turn"; the pages of `registerParticipants` are one step with the sealing.

### OracleDemand
The demand file with each requester's stamp (`AskForPrice`, `ActOnPrice`, expiry), the
oracle's tick over one stock whose market is open (`DemandDue`, coalescing with the last
push, one task per episode), the message over LayerZero, which takes time or is lost. Times
are ages in units in which every process ticks at least once. A write without the lock
after two seconds may lose another requester's stamp (`mishaps`). Price deviations,
heartbeats, market hours and the second relay are left out. Three refusals of a push are
assumed away, since nothing is promised while they last: a quote that fails
(oracle/keeper.mjs:194), a fee above the cap (:198) and an observation that diverges from the
TWAP (:179).

## 3. Runs

| Run | Shows | Instance |
|---|---|---|
| Books | caps: counters are sums of tickets and never underflow, no stranded basis, exposure grows only within the caps in force, also while they are lowered, proposed and raised; vault: one settlement per ref, money stays with its ref, stock and money cover what is owed, the log accounts for the stock | themes tickets: 3 keys, 1 asset, amounts 1-2, raw <= 2; raw 0 included; governance: 2 keys, 2 assets, delay 1, the limits 5 lowered to 3 (the single-order limit 2 throughout) and raised again, one cap from 3 to 2 and back, one share; buys: 2 buys with voids and deliveries, pay-ins 1-2 up to 3, a rejecting recipient; sells: a sell, its deliveries, a buy, a migration, donations |
| Layer | the hub is solvent and its counters exact, every share backed, lanes agree, nobody paid twice, a cancelled buy whole, a reservation kept until answered, a reward stock or refund | themes buy, sell, reward (1 order each, principal 6, dust, both floats, costs 0-1) and pair (a rejecting buy and a sell sharing both floats); the sell of the theme sell refuses its payment |
| SchedulerTurns | no order lost, order of arrival, reward turn, with blocked heads and lent slots | 3 public, 2 reward, room for two and one, two public launches per reward launch |
| SchedulerDrains | every order leaves (liveness), unless closed entries fill the scan for good | 3 public, 1 reward, scan of 2 |
| Keepers | parts refund, crowd, launch, lane, worker, sender: what is withdrawn is credited or refilled within itself, journals stay behind the chain, attempts are counted, the sender keeps TaskPromise (refinement); money withdrawn closes its order, launches go on, every result is proven, money moves on, a sent task is resolved (liveness) | 1 failed buy or unpaid sell, cap 4, 2 days; both at once with 1 slot per tick; 2 orders, 2 quotes; 2 results, 2 proofs per tick; 1 waiting buy, 1 sale; 2 keys with 2 attempts, one opened again once; a crash each |
| Rewards | parts seal, round, push, demand: nothing behind the cursor is unknown unless two reads of different nodes hid it, the watermark is final for tokens, a round is paid once, a completed day covered all accounts, one push per wave; every day sealed, round ended, revision walked, demand served (liveness) | 1 token or lane, 3 days, 2 blocks; an entry of 5 with rounds of 4; 1 allocation, 2 revisions, 2 accounts; 2 requesters; a crash or mishap each |
| LayerEscalation | *violation*: finding 2 | 1 public buy |
| SchedulerOversized | *violation*: finding 1 | 1 public, 1 reward |
| LayerSolvency | *violation*: finding 6 | 1 buy, 1 sell sharing the float |
| SealWatermark | *violation*: finding 3 | 1 lane, 3 events |
| DiscoveryNodes | *violation*: finding 4 | 1 token, 2 blocks |
| TxResign | *violation*: finding 5 | 1 key, 2 attempts, a node that refuses no broadcast |

Each instance also leaves out what another instance already has:

* MCBooks: redemptions in flight and two shares are in tickets, limits and caps that change in
  governance; in sells the owner and strangers move money in twos and one buy shares the books.
* MCLayer: strangers give at most one unit to an order of the other themes, at the vault or at
  the hub, and subsidize only in the theme reward, where nothing comes at the vault
  (`GiftsOnOneSide`); the switches of the operator change in the theme reward (in sell, vault float on and the others fixed but
  for an answer that halts mints, `BuySwitchesLeft`; in buy both floats fixed), and pair has the
  orders, their money and their answers only (`Undisturbed`).
* MCKeepers: in the part crowd (two orders, one slot per tick) nobody dies, no day ends, no dust
  comes, and the sell's proceeds are back once a withdrawal is on record, so that the cap defers it
  (`QuietCrowd`); the second key is signed once, and the first is opened again while the second is
  untouched (`SecondKey`), only the first order is quoted anew
  (`SecondLaunch`), only the first result is given up (`FirstFails`), the worker dies between an
  event noted and its cursor saved (`ScanCrash`), the prover with work done that is not in its
  journal (`LateCrash`), and while it walks the other keepers rest (`WalkAlone`).
* MCRewards: one source is announced, and the nodes are behind on the first day before its first
  fee (`OneSource`); the price gets old when a batch of the first revision is due (`OldPrice`); a crash comes where it differs from a call
  that is refused (`ChunkCrash`, `CallCrash`, `RecordCrash`), a new revision before the first
  queue had its turn (`NewerQueue`).

Where a theorem states the property, these cuts lose nothing: it is proved of the component's
own specification. For the others they are what is not checked.

Why the bounds are enough. The ticket book's operations touch one ticket and the
counters: three tickets give every pair of states beside a third. The vault's
operations touch one ref and the totals; two refs are enough for one to take what
is the other's. A theme of the layer has one order and every operation
on it; pair has the two kinds that share a float, both floats on. Principals are large
enough for a gift not to be a principal (`isBack`): a stranger who pays in more than half of
one makes the hub close the order with the stranger's money, which the code accepts; the
theorems hold for gifts of any size. `LossBound` is the most the route takes from one
transfer, at most half a principal, and the slack of CancelledBuyIsWhole. Layer, Keepers, Rewards and the
runs of the queues may stop when every order is closed and everything is done, so
deadlock is not checked there.

The keepers' instances have one of each thing a keeper works on, and two where the
order of two matters (launches, results, tasks of one account, requesters, revisions).
Two attempts are a failure that is retried and one that gives up. One crash at any step,
next to any number of late transactions, is what can separate a record from its effect;
a second crash meets a journal the first one left, from which every tick starts anyway.
Times are small numbers ordered as in the code (coalescing and refresh below expiry, a delivery
shorter than a price is usable).

Fairness. `FairSched` assumes weak fairness of launching the next head with a payable quote,
which the launcher keeper attempts on every tick (launcher/keeper.mjs:75-88). No keeper calls
`skipClosed`, so nothing is assumed of it: EveryOrderLeaves excepts a lane in which as many closed
entries as a scan passes (64) lie ahead for ever. Each
keeper's fairness is in its module, and assumes this:

* Weak fairness of the steps of a tick: every keeper runs `runTickLoop`, so that a tick
  begins again and again and goes on to its end, unless a crash ends it (crashes are bounded).
* Strong fairness of a send being answered: a step that is tried in every tick, and may each
  time be answered "not yet", is confirmed or counted as failed at some time. TxJournal shows
  why: with `SF(ReadReceipt)` (a receipt that is there is sometimes read), and `WF(GrowOld)`
  (giveUpMs passes), a sent task is resolved (SentIsResolved). The refund keeper assumes no
  more than its ticks and that each task in flight is reconciled (`RefundFairness`): which order
  takes a slot is left to chance, and an order that others may crowd out of every tick is excepted
  from WithdrawnCloses. Of a checkpoint or a preparation of a queue "answered" may
  be the failed attempt that quarantines it (`checkpointPhase`, `Preparing`), and the properties
  except what is quarantined.
* Strong fairness of a node having the block that is asked for (SealKeeper's `UpToDate`): it may
  lag for any time, and again, but not for ever.
* For the payout keeper, of serving a queue whose price is fresh again and again (`PushFairness`).
  RevisionIsWalked has that as its hypothesis; a price that stays old, and days
  that end too soon, are allowed.
* Weak fairness of the clock, of the rollup's confirmation, of LayerZero delivering what it
  does not lose, of Ops funding the bridger and the rounds.

Nothing is assumed of users, strangers, venues, or of which answer comes. In MCKeepers and
MCRewards the fairness conditions of the parts are joined by disjunction, one of each
module at a time: only one part's steps are ever enabled in a behaviour, so that each
condition means what it means in its module, or less (the reconciliation of all tasks is one
condition), and the number of them stays small.
Liveness properties are of the form "again and again" (`[]<>`) or "leads to", each with the
exceptions of the code: a task given up after MAX_ATTEMPTS, a day older than the lookback.

## 4. Proofs

The theorems are in modules of their own (section 2). All are proved from the named
assumptions of the components' modules, for every value of the constants; further hypotheses
are said below. The argument is the same everywhere: an inductive invariant, one lemma per
group of actions that shows they keep it, and the property as a consequence of it.

`SumLemmas` is about `Sum`, the fold over a finite set that the components use for their
totals: changing the summand of one element changes the sum by the difference, summands that
stay leave it, and a sum of naturals is a natural no smaller than each summand. A fold is a
recursive function over subsets; that it exists and that the order of its choices does not
matter is shown from the least cardinality of a subset for which it would (the induction
theorems of the library take an operator, which the provers cannot instantiate). It needs the
set to be finite: the components assume so of refs, keys and assets.

`ReserveVaultProofs` proves for every value of the constants (any refs, amounts, orders,
deliveries, repetitions), from `VaultAssumption`:

* `TypeCorrect`: `VaultSpec => []VaultTypeOK`. Inductive as it stands: balances and totals
  are typed in Int, that they stay covered is a matter of the other properties.
* `StockAccounted`: the log is extended by one entry at a time and the entitlement
  moves by what it says. An action property, from the type invariant.
* `OneResult`: the log never holds two entries of one ref, and holds one for exactly
  the settled refs. An entry is only appended for a ref outside `settled` (each
  caller of `Record` has that guard) or for a migration not yet logged; that settled
  and logged coincide is what makes the uniqueness inductive, and is part of the
  property.
* `MoneyConserved`: per ref, pay-ins plus the float's advance are pay-outs plus what is
  held. Inductive over the types: each action moves the same amount between two terms.
* `AlwaysBacked`: stock covers the entitlement and unclaimed deliveries. Inductive over
  the types: every action moves the stock by at least what it moves the two promises.
* `AlwaysCovered`: LiabilitiesCovered. The vault's money covers its three totals, and the two
  that are kept per ref are the sums over the refs (`SumLemmas`): each step changes the money
  of one ref and the total by the same.

`NextLogs` (each step appends at most one entry, of an unsettled ref) serves two of the
theorems; the other lemmas follow the parts of a step (record, execute, take, push,
deliver).

Of TxJournal, `KeeperProofs` proves, from `TxAssumption`, for any set of tasks and any number
of attempts:

* `SenderTypes`: the type invariant.
* `Counted`: SignaturesAreCounted: in the present opening of a task the journal counts every
  signature, an earlier opening has no more than its `MaxAttempts`, a later one none. The strengthening (`SenderInv`) says that a task not yet
  quarantined has an attempt left, that whoever awaits an answer for a key has its task on
  disk as Sent, that what is being broadcast is known to nobody yet, and that mined nonces
  are below the account's. With them a new signature is always in the slot the journal
  counts next, and no step touches an older one but by mining it.
* `Landed`: a Confirmed task's current slot has landed: a receipt is only read of a slot that
  has, and nothing takes it back.
* `Refinement`: `TxSpec => KeepsPromise`. Initial states map to initial states; `Mine` is
  `Effect`, a read receipt is `Done`, the last failure is `Stop`, `Reopen` is `Reopen`, every
  other step stutters. It needs the invariant: that a key has no slot of an opening to come or
  beyond `MaxAttempts`, and that `Done` finds an effect.

`CapacityProofs`, for any keys, assets, amounts and limits:

* `GrowthIsWithinCaps`: ExposureGrowsWithinCaps. The invariant (`BookOK`) types the ten
  counters and says that a ticket that counts names its asset. Each entry point has a lemma
  that what it takes from one counter it adds to another of the same asset (`NoGrowth`);
  only a reservation adds, and its guard compares what it adds to with the caps in force.
* `NoBasisStranded`: NoStrandedBasis. An asset without shares has no exposure, unless a buy was
  issued on it with no shares (the vault records what the venue answers, and an order's
  minimum may be zero, so `finalizeBuy` may book dollars without any). It needs that a
  redemption which takes no shares takes no dollars (`RedeemsBoth`), so that a revert strands
  none either, and that the rounded-up part of a basis is the whole basis with the last share
  (`BasisBounds`). That callers redeem some shares is a guard of `BeginRedeem`, from
  SolonStockHub.sol:229 and HubExits.sol:86.
* `CountersExact`: CountersAreTickets, for finitely many keys and assets. Each entry point
  replaces the ticket of one key by one that is its successor (`TicketRules`) and moves each
  counter by the difference of what the two tickets count for it (`CountersStay`); the
  governance changes no counter (`GovernanceTyped`).

The same module proves of OrderScheduler, for any orders, amounts, scan bound and public run:

* `WaitingAreQueued`: PendingIsQueuedOnce. The invariant (`QueueInv`) says that a head is within
  its queue, that what is queued was placed and is of the queue's lane, that a public order is
  queued once and for all, and that a pending one has one place ahead of the head. Of the hub
  it needs only what each operation does to the status of its order (`StatusMoves`); a
  placed order is new to the queues because it had no status before.
* `PublicGoInOrder`: PublicOrderOfArrival, from the same invariant: an order that waits is ahead
  of the head (`PublicAhead`), and neither `nextLaunch` nor `skipClosed` passes it.
* `RewardsTakeTheirTurn`: RewardTurnComes. Launches past a ready reward order are among the
  launches since the last reward launch (`TurnsCounted`), and `nextLaunch` counts those.

`LayerProofs`, for any finite sets of orders and any amounts, costs of the route (at most
half a principal), gifts and acts of the operators. The inductive invariant is `LayerInv`: every order
is in a state the code can leave it in (`BooksOK`, `OrderOK`: for instance a pending order
was answered by nobody), the escrow and the claims are the sums over the orders (`SumsOK`),
the types of the vault, its one result per ref and the shape of its log, messages and
deliveries are only about orders that were placed and paid for (`SentOK`, `HeldOK`), and hub
and vault agree on every answer the hub has.

A transaction of the hub is a composition of operators. Each operator has a lemma that the hub
it returns is `Backed`: no other order changed, the totals moved by what moved for this
order, and the balance less the debts is no lower. Compositions are `Sound` in the same sense
and keep the order's own shape; a transaction that gives no answer is `Quiet`, one that does
`Answers` with what the vault logged.

* `HubAlwaysSolvent`: HubSolvent. From the sums, and from each step keeping the balance less
  debts and less the fees of sells the float paid (finding 6) from falling below zero.
* `LanesAgree`: HubAgreesWithVault. An answer is applied once and by either lane; it is that of
  the log because messages and proofs are only of what is logged, one entry per ref.
* `VaultKeepsPromises`: the vault's own properties (its types, OneResultPerRef,
  RefMoneyConserved, LiabilitiesCovered, FullyBacked) hold in the layer, whose hub sends it
  more particular messages than it allows for: each step of the layer is one of the vault or leaves it alone.
* `RoomUntilAnswered`: ReservedUntilAnswered. Each step changes the ticket of one key at most
  (`LayerTickets`), and that of a sent buy only with the answer. An order that has no answer
  after a step had none before it (`UnansweredBefore`).

`AccountProofs`, over the invariant of LayerProofs:

* `SharesAlwaysBacked`: EveryShareBacked, an equation between the entitlement of the vault, the
  supply of the hub and two sums over what is on its way between them. `Unbacked` is the
  part of one order that burned shares the vault has not sold, or of one log entry whose
  shares the hub has not minted. Every step moves it in one summand, and the supply or
  the entitlement by the same (`HubBalances`, `AnswerBalances`, `VaultKeepsBalance`,
  `ProofBalances`). It needs that the vault only sells, for a ref, the shares burned for it
  (`MessagesOK`), and that what was proven at the hub is in the log (`ProvenOK`).
* `RewardEnds`: RewardIsStockOrRefund. What each transaction does to its order is said once, as a
  change of one record (`Refunded`, `Closed`, `FilledWith`, `SoldFor`, `Acted`, ...); what a reward
  order has in each of its states is then inductive (`RewardInv`).

The rest of the module is the account each ref has at the vault: what came in, is held, was
spent at the venue, was returned, handed over or given by strangers. Each step of the layer
moves the money of one order in one of a few ways (`MoneyStep`), and the vault's part of it is a
move of one account (`AccountMoves`).

`MoneyProofs`, over these accounts: what an order was paid over its whole life, on two chains.
For a public buy seven things around its record matter: whether its principal was sent (`sent`),
whether the vault was told to hand over what it holds (`told`), whether the transfer bounced
(`back`) or ended at the vault and is neither spent, held, returned nor handed over there
(`lost`), what is on the route out or came in at the vault (`gone`), and what strangers added
(`top`) or the vault returned (`cred`) at the hub. `BuyInv` relates the record to them: what was
paid and is still held is no more than what was sent in, given or returned (`BuyBalance`,
`BuyRoom`); next to shares there is only unused reserve, returns and gifts (`BuyRest`); a
principal that is nowhere else is held or paid (`BuyHolds`); and the vault is told only of a buy the float did
not refund (`BuyTold`), which is what keeps the two floats apart. Each transaction of the hub
keeps it (`BuyHandled`, `BuyLaunched`, `BuyEscalated`, `BuyAnswered`, `BuyArrives`), and each step
of the route and the vault changes the surroundings only so that it is kept (`EnvStays`,
`EnvGives`).

* `PublicInvHolds`: the accounts and `BuyInv` of every public buy hold in every state.
* `CancelledIsWhole`: CancelledBuyIsWhole, from it: what is not with the user is on the route, at
  the vault or on its way back, and each transfer loses at most `LossBound`.
* `MoneyInvHolds`: with it, the invariant of every sell (`SellInv`): what it was paid, has and
  holds is what was given and returned or, if the float paid it, what it was sold for.
* `UsersArePaidOnce`: PaidOnce, for any number of orders that share the two floats.

`KeeperProofs`. RefundKeeper, for any orders, amounts, days, crashes and attempts:

* `RefundTypes`, and `NeverMoreThanWithdrawn`: WithinWithdrawal. The strengthening: a credit
  or refill that has not run moved nothing (`MovesByRunning`), a signed withdrawal covers what
  its order misses even if it lands after a restart (`SignedCovers`: what an order holds only
  grows), and what is recorded was taken (`RecordedIsTaken`).

LauncherKeeper, for any orders, quotes and crashes:

* `RecordIsDeposit`: LaunchRecordIsDeposit. A launch that ran took its order out of the queue,
  so that no other quote of the order is ever paid (`RanIsPaid`); the quote being sent is the
  one on record (`SentIsRecorded`), and a launch on record is not quoted anew, since an
  order that waits has a clean record (`WaitingIsClean`).

CanonicalKeepers, for any results, budget per tick and crashes:

* `JournalsBehind`: JournalsAreBehind. The chains only grow (`Grows`, shown once for every
  contract call), and a walk that has counted nothing as unproven has passed only proven
  results (`Passed`), so that the cursor never passes an unproven one.

`RewardProofs`. SealKeeper, for any sources, chunks, lookback, blocks, events and crashes:

* `SealTypes`; `NoSourceIsLost`: NothingBehindCursor. What makes it inductive is that every
  source announced in the chunk being read is found, still to be noted or missed by the node of
  its logs (`ChunkIsRead`); the cursor passes a missed one only if another node has the block,
  which is what `hidden` records (that this can happen is finding 4). A tick scans no block
  newer than itself.
* `PassedIsFinal`: WatermarkIsFinal, for tokens. It needs that budgets only come on the day
  itself and that the watermark is behind the day; `WatermarkPasses` shows what
  `advanceWatermark` does (the greatest final prefix exists by well-foundedness).

RoundKeeper, for any entries, groups, limits and crashes:

* `PaidOnce`: DispatchedOnce. The intent of whatever is paid is on record, and the lane is only
  being called for a round that has an intent and was not paid (`PaidOnRecord`, `CalledOnce`).

PushKeeper, for any allocations, accounts, batch sizes, prices and crashes:

* `ClosedIsWalked`: CompletionCoversAll. A cursor that is not at its end counts the turns since
  the last completion, and so does every cursor after a batch (`TurnsAreCounted`): only the
  completion itself forgets turns, and it leaves the cursor at the end. A task
  that is confirmed, of a queue at its end, is of a day that is closed already
  (`ConfirmedIsToday`), so that its old receipt closes nothing.

OracleDemand, for any requesters and times:

* `OnePush`: OnePushPerWave. The journal knows every poke but that of a pending episode that ran
  (`PokesAreKnown`), so that what it takes for due is due (`DueIsApart`), and a pending
  episode keeps its one task.

They use of the sender that a task that may be sent has an attempt left, and that every answer
keeps that (`SendSteps`).

Every safety property and action property the runs check is proved. Only model-checked are
two type invariants that join several keepers (KeeperTypeOK and RewardTypeOK of the instances;
where a proof needs types they are proved for the component, `SenderTypes`, `RefundTypes`,
`SealTypes`). Out of the prover's reach: liveness under
fairness (EveryOrderLeaves, SentIsResolved, WithdrawnCloses, LaunchGoesOn,
EveryResultProven, MoneyMovesOn, EveryEpochSealed, RoundsEnd, RevisionIsWalked,
EveryDemandServed) and ENABLED (RefundedBuyIsEscalatable).

## 5. Findings

1. **An oversized public head blocks its lane** (SchedulerOversized). The comment of
   `HS.launch` (HubSettlement.sol:370) says that an order that no longer fits the
   single-order limit is refunded instead of blocking the queue. But the scheduler's
   `_head` (OrderScheduler.sol:110) calls it ready only if `canReserve` holds, which
   fails for it, so `launch` is never reached: after `lowerLimits` such an order, and
   every public order behind it, waits until its owner cancels or the limits are raised.
2. **A float-refunded buy cannot be escalated** (LayerEscalation). The documentation of
   `escalateFunds` (SolonStockHub.sol:302) says a cancelled or already refunded buy that
   the vault never answered is closed there over the canonical lane; the code reverts
   with WrongStatus for it (HubExits.sol:124), and only `voidOrder` over LayerZero closes it.

3. **Carry behind the watermark** (SealWatermark). `carryPending` (`keepers/v3/round/keeper.mjs:171`)
   judges a lane's past days from the carries of *processed* notifications. A fee notified
   while nobody stakes is one unprocessed event; the watermark passes the days before it, a
   later seal processes the event and releases its carry into one of them, and the keeper
   never seals that day, contrary to the comment at line 180. The budget stays in the
   source until somebody else seals the day.
4. **A source behind the cursor** (DiscoveryNodes). `sync` reads the logs of a chunk
   (`keepers/v3/lib/discovery.mjs:57`), writes them, and then asks for the chunk's last block
   (:66), so as to "only move past `to` once this node has that block" (:65). They are two awaited
   calls: if the node of the logs did not have the blocks (it answers with an empty range) and the
   node asked afterwards has, or the same one has caught up, the cursor passes logs that
   nobody has read, and the scan never goes back. The 30 confirmations (:8) make it rare: the
   node of the logs must be that far behind. The other order of the two reads, of one node, would
   keep the comment's promise; across nodes it takes both answers from one of them.
5. **Signed again while in flight** (TxResign). A transaction that stays unmined for giveUpMs
   is counted as failed and its key signed again with another nonce, while the first may
   still land (`keepers/v3/lib/tx.mjs:34`), contrary to the comment at line 3. The trace is of this
   path alone (`UnrefusedSpec`: no broadcast is refused). A refusal is another way to the same: a
   node that answers "already known" (line 8) holds the transaction, and it is taken for
   rejected. What the code does guarantee is TaskPromise: at most MAX_ATTEMPTS effects for each
   time the task is opened, each counted. A task of the canonical lane is opened again an
   hour after each quarantine, so that over its life it has no bound; its calls are ones that a
   contract accepts once.

6. **The fee of a sell the float paid** (LayerSolvency). `settle` lets the float pay a sell
   when `available >= net` (HubSettlement.sol:631) and then counts the fee as earned, though it
   is part of the proceeds that are still to return. With between net and net + fee available
   the hub owes more than it holds until they are back, for good if the route keeps a part,
   and `claimFees` can meanwhile take the difference from what is held for others. The
   invariant of the test suite (`test/v3/StockLayerInvariant.t.sol:243`) says that the balance
   covers escrow, fees and claims; its handler settles no sell with so little in the float.
   HubSolvent states what does hold: all is covered but for the fees of such sells.

7. **The treasury's money owed to a buyer** (no run of its own; seen while proving PaidOnce).
   A principal that comes back after its buy was filled is the treasury's, "never to a user who
   already has the stock" (comment of `_lateTo`, HubSettlement.sol:468). But when that
   payment fails, `_pay` books it as `owed` of the order (HubSettlement.sol:797), and `claim`
   pays what an order is owed to its user (SolonStockHub.sol:344). The treasury is taken
   to accept payments; the call can still fail when the hub's balance is short, after finding 6.
   The model follows the code: `late` counts such amounts, and PaidOnce allows for them.

## 6. Not modelled

* LayerZero's endpoints, CCTP, Iris, the Arbitrum outbox and Relay are outside; they appear as
  what they may do to the modelled parts.
* Stock pools, instant desk, float rebalancing, routers and quoters: the prices and amounts
  of pools are arithmetic over venues outside the repository; their control is a single call.
* Reward payout, eligibility, fee ledger, staking: planned (below). Their core is rounding
  over 256-bit products, which TLC only checks on toy widths.
* Launch and governance, the price oracle's contracts, V1, V2, Radian, mocks, deployment:
  V1 and Radian are superseded; the others are planned last.
* Of the keepers that are modelled: the relayer's deliver lane and `checkStale` (CanonicalKeepers),
  the manager's quarantine, cancelled and orphaned rounds (RoundKeeper), refusals of a
  push (OracleDemand), the lists' content (PushKeeper); see section 2.
* Desk, restock and ingress keepers: simpler users of the same sender. A hazard of the restock
  keeper (an intent that nothing reads back) is listed and open.

Further hazards no property covers, beside those listed open in the manifest:

* Contracts: `dispatch` is open to anyone, also for a funded reward buy, whose round manager
  then waits in its submit step (SolonStockAdapter.sol:226); `subsidize` accepts a closed order
  and nothing pays the amount out (HubSettlement.sol:478); a second `Deliver` overwrites the
  stored delivery of a ref (EthereumBridger.sol:107); an escalated sell answered after all is
  not in the list of open orders (HubExits.sol:47); the review window and the deque of
  unreconciled answers (SolonStockHub.sol:482).
* Keepers with fills that are plain transfers: a failed buy has no funding in the vault, so
  escalating it delivers nothing (launcher/keeper.mjs:10).
* Two waiting buys of one tick are judged by one reading of the float (vault/keeper.mjs:79); the
  second then fails and is tried again. VaultWorker's instance has one.
* Counts that lag a transaction in flight: the refund day's total (refund/keeper.mjs:146),
  the active rounds (round/keeper.mjs:444), the payout cursor after a receipt
  (push/keeper.mjs:317), the completed day of a batch that lands late (push/keeper.mjs:308).
* Work nobody comes back to: dispatchFunded after a failed try (launcher/keeper.mjs:155),
  a quarantined reconcile or executeFunded (canonical/keeper.mjs:119, vault/keeper.mjs:86),
  funding after a confirmed return (vault/keeper.mjs:133), days older than lookbackEpochs
  (round/keeper.mjs:174), fees of an expired plan (round/keeper.mjs:521).
* Two processes on one account: the scheduler lane in the launcher's journal
  (launcher/keeper.mjs:229), a lock taken over from a process that lives (lib/lock.mjs:28);
  a watcher that advances before its handler succeeds (oracle/watch.mjs:35).

## 7. Plan

1. Done: caps, vault, hub, layer and queues; the sender with its promise; the refund,
   launcher, canonical, vault, round, payout and price keepers.
2. Next: StockFloatMode (fills that are plain transfers), MintGuard (the unreconciled deque,
   the stale window, halting), the gate and bridger in the detail of their contracts, with
   StockLayer's "provable" and CanonicalKeepers' as abstractions; StockPromise, an abstract
   ledger (each order: waiting, stock, money back) that StockLayer refines; RewardRounds
   over the hub.
3. Then: payouts and expiry, V3FeeLedger, staking, desk, timelock, oracle contracts; the
   desk, restock and ingress keepers; V2 curve and graduation.
4. Proofs: every safety property of the runs is done. Next StockPromise, whose refinement is a
   matter of `MoneyInv`, and the theorems of what 2 and 3 add.
