----------------------------- MODULE VaultWorker -----------------------------
(* The reserve vault's worker (keepers/v3/vault/keeper.mjs): it follows    *)
(* the vault's events by a cursor in its journal, executes buys that       *)
(* waited for money once they can be paid, and sends what a settled ref    *)
(* still has in the vault back to the hub. The vault is seen as the worker *)
(* sees it: an order waits or is settled, and has money of its own. The    *)
(* events are read and noted one by one, then the cursor is saved; what    *)
(* was noted is looked up on the chain again before anything is sent.      *)
EXTENDS Integers, Sequences, TaskSender

CONSTANTS
  WaitBuys, SoldSells,  \* the orders that reach the vault
  BuyCost,        \* amountIn of a buy
  SaleMoney,      \* proceeds of a sell
  MinReturn,      \* minReturn6: less is left where it is
  FloatMoney,     \* the vault's free settlement at first
  TopUps,         \* bound: the money that arrives for orders or the float
  WorkerCrashes   \* bound: crashes

ASSUME WorkerAssumption ==
  /\ BuyCost \in Nat \ {0} /\ SaleMoney \in Nat /\ MinReturn \in Nat \ {0}
  /\ FloatMoney \in Nat /\ TopUps \in Nat /\ WorkerCrashes \in Nat
  /\ WaitBuys \cap SoldSells = {}

WorkRefs == WaitBuys \cup SoldSells

VARIABLES
  vaultOrder,    \* vault: each ref
  ownMoney,      \* vault: funding and proceeds of each ref
  freeMoney,     \* vault: freeSettlement
  topUps,        \* money that arrived
  events,        \* vault: the log
  scanned,       \* journal: the cursor
  waitList, returnList,   \* journal: 'waiting' and 'returnable'
  execTask,      \* journal: the executeFunded task of each ref
  returning,     \* the signed returns in flight, by amount
  job,           \* the worker's place in its tick
  workerCrashes

vaultSide == <<vaultOrder, ownMoney, freeMoney, events>>
journalSide == <<scanned, waitList, returnList>>
workerVars ==
  <<vaultSide, topUps, journalSide, execTask, returning, job, workerCrashes>>

NoJob == [at |-> "off"]

WorkerInit ==
  /\ vaultOrder = [r \in WorkRefs |-> "absent"]
  /\ ownMoney = [r \in WorkRefs |-> 0]
  /\ freeMoney = FloatMoney /\ topUps = 0
  /\ events = <<>>
  /\ scanned = 0 /\ waitList = {} /\ returnList = {}
  /\ execTask = [r \in WorkRefs |-> Unsent]
  /\ returning = {}
  /\ job = NoJob /\ workerCrashes = 0

---------------------------------------------------------------------------
(* The vault.                                                              *)

Missing(r) == IF ownMoney[r] < BuyCost THEN BuyCost - ownMoney[r] ELSE 0
\* _fundable: the order's own money, or the float, pays the whole of it.
PayableFrom(free, r) == ownMoney[r] >= BuyCost \/ free >= BuyCost

Emit(r, what) == events' = Append(events, <<r, what>>)

\* _settleAndSend of a buy: bought with its own money first, or failed with it untouched.
settleBuy(r) ==
  \/ /\ ownMoney' = [ownMoney EXCEPT ![r] = @ - (BuyCost - Missing(r))]
     /\ freeMoney' = freeMoney - Missing(r)
     /\ Emit(r, "bought")
  \/ Emit(r, "failed") /\ UNCHANGED <<ownMoney, freeMoney>>

executeFunded(r) ==
  /\ vaultOrder[r] = "waiting" /\ PayableFrom(freeMoney, r)
  /\ vaultOrder' = [vaultOrder EXCEPT ![r] = "settled"]
  /\ settleBuy(r)

\* The quote is signed for the amount owed; another amount reverts.
returnFunds(r, amount) ==
  /\ vaultOrder[r] = "settled" /\ ownMoney[r] = amount
  /\ ownMoney' = [ownMoney EXCEPT ![r] = 0]
  /\ UNCHANGED <<vaultOrder, freeMoney, events>>

---------------------------------------------------------------------------
(* scan: the logs of a range, then the cursor.                             *)

BeginWork ==
  /\ job = NoJob
  /\ job' = [at |-> "scan", seen |-> scanned, head |-> Len(events)]
  /\ UNCHANGED <<vaultSide, topUps, journalSide, execTask, returning, workerCrashes>>

\* Mutant: the cursor is saved before the events are noted.
NoteEventCursorFirst ==
  /\ job.at = "scan" /\ job.seen < job.head
  /\ LET event == events[job.seen + 1]
     IN /\ waitList' = IF event[2] = "waits" THEN waitList \cup {event[1]} ELSE waitList
        /\ returnList' = IF event[2] \in {"failed", "sold"} THEN returnList \cup {event[1]}
                                                            ELSE returnList
  /\ scanned' = job.head
  /\ job' = [job EXCEPT !.seen = @ + 1]
  /\ UNCHANGED <<vaultSide, topUps, execTask, returning, workerCrashes>>
NoteEvent ==
  /\ job.at = "scan" /\ job.seen < job.head
  /\ LET event == events[job.seen + 1]
     IN /\ waitList' = IF event[2] = "waits" THEN waitList \cup {event[1]} ELSE waitList
        /\ returnList' = IF event[2] \in {"failed", "sold"} THEN returnList \cup {event[1]}
                                                            ELSE returnList
  /\ job' = [job EXCEPT !.seen = @ + 1]
  /\ UNCHANGED <<vaultSide, topUps, scanned, execTask, returning, workerCrashes>>

\* The float is read once, for all the orders that wait.
SaveCursor ==
  /\ job.at = "scan" /\ job.seen = job.head
  /\ scanned' = job.head
  /\ job' = [at |-> "execute", todo |-> waitList, free |-> freeMoney]
  /\ UNCHANGED <<vaultSide, topUps, waitList, returnList, execTask, returning, workerCrashes>>

---------------------------------------------------------------------------
(* executeWaiting.                                                         *)

OnWaiting(r) == job.at = "execute" /\ r \in job.todo
NextWaiting(r) ==
  job' = IF job.todo = {r} THEN [at |-> "return", todo |-> returnList]
         ELSE [job EXCEPT !.todo = @ \ {r}]

ForgetSettled(r) ==
  /\ OnWaiting(r) /\ vaultOrder[r] # "waiting"
  /\ waitList' = waitList \ {r}
  /\ NextWaiting(r)
  /\ UNCHANGED <<vaultSide, topUps, scanned, returnList, execTask, returning, workerCrashes>>

DeferWaiting(r) ==
  /\ OnWaiting(r) /\ vaultOrder[r] = "waiting" /\ ~PayableFrom(job.free, r)
  /\ NextWaiting(r)
  /\ UNCHANGED <<vaultSide, topUps, journalSide, execTask, returning, workerCrashes>>

ExecuteConfirmed(r) ==
  /\ OnWaiting(r) /\ vaultOrder[r] = "waiting" /\ PayableFrom(job.free, r)
  /\ execTask[r].state = "open" /\ executeFunded(r)
  /\ execTask' = [execTask EXCEPT ![r] = Answered(@)]
  /\ waitList' = waitList \ {r}
  /\ NextWaiting(r)
  /\ UNCHANGED <<topUps, scanned, returnList, returning, workerCrashes>>
\* Also when another order took the float that was read.
ExecuteUnconfirmed(r) ==
  /\ OnWaiting(r) /\ vaultOrder[r] = "waiting" /\ PayableFrom(job.free, r)
  /\ \E s \in Unanswered(execTask[r]) : execTask' = [execTask EXCEPT ![r] = s]
  /\ NextWaiting(r)
  /\ UNCHANGED <<vaultSide, topUps, journalSide, returning, workerCrashes>>

NothingWaits ==
  /\ job.at = "execute" /\ job.todo = {}
  /\ job' = [at |-> "return", todo |-> returnList]
  /\ UNCHANGED <<vaultSide, topUps, journalSide, execTask, returning, workerCrashes>>

---------------------------------------------------------------------------
(* returnLiabilities.                                                      *)

OnReturn(r) == job.at = "return" /\ r \in job.todo
NextReturn(r) == job' = [job EXCEPT !.todo = @ \ {r}]

ForgetReturned(r) ==
  /\ OnReturn(r) /\ ownMoney[r] = 0
  /\ returnList' = returnList \ {r}
  /\ NextReturn(r)
  /\ UNCHANGED <<vaultSide, topUps, scanned, waitList, execTask, returning, workerCrashes>>

\* Too little, no quote or a bad one, or the send failed: its key is of this quote only.
LeaveReturn(r) ==
  /\ OnReturn(r) /\ ownMoney[r] > 0
  /\ NextReturn(r)
  /\ UNCHANGED <<vaultSide, topUps, journalSide, execTask, returning, workerCrashes>>

ReturnConfirmed(r) ==
  /\ OnReturn(r) /\ ownMoney[r] >= MinReturn
  /\ returnFunds(r, ownMoney[r])
  /\ returnList' = returnList \ {r}
  /\ NextReturn(r)
  /\ UNCHANGED <<topUps, scanned, waitList, execTask, returning, workerCrashes>>
ReturnInFlight(r) ==
  /\ OnReturn(r) /\ ownMoney[r] >= MinReturn
  /\ returning' = returning \cup {<<r, ownMoney[r]>>}
  /\ NextReturn(r)
  /\ UNCHANGED <<vaultSide, topUps, journalSide, execTask, workerCrashes>>

EndWork ==
  /\ job.at = "return" /\ job.todo = {}
  /\ job' = NoJob
  /\ UNCHANGED <<vaultSide, topUps, journalSide, execTask, returning, workerCrashes>>

---------------------------------------------------------------------------
(* The hub's orders, money, other callers, what lands late, crashes.       *)

OrderReaches(r) ==
  /\ vaultOrder[r] = "absent"
  /\ \/ /\ r \in SoldSells
        /\ vaultOrder' = [vaultOrder EXCEPT ![r] = "settled"]
        /\ \/ ownMoney' = [ownMoney EXCEPT ![r] = @ + SaleMoney] /\ Emit(r, "sold")
           \/ Emit(r, "failed") /\ UNCHANGED ownMoney
        /\ UNCHANGED freeMoney
     \/ /\ r \in WaitBuys /\ PayableFrom(freeMoney, r)
        /\ vaultOrder' = [vaultOrder EXCEPT ![r] = "settled"]
        /\ settleBuy(r)
     \/ /\ r \in WaitBuys /\ ~PayableFrom(freeMoney, r)
        /\ vaultOrder' = [vaultOrder EXCEPT ![r] = "waiting"]
        /\ Emit(r, "waits")
        /\ UNCHANGED <<ownMoney, freeMoney>>
  /\ UNCHANGED <<topUps, journalSide, execTask, returning, job, workerCrashes>>

\* A route's deposit for the buy, or a plain transfer into the float.
MoneyArrives(r) ==
  /\ topUps < TopUps /\ topUps' = topUps + 1
  /\ \/ ownMoney' = [ownMoney EXCEPT ![r] = @ + BuyCost] /\ UNCHANGED freeMoney
     \/ freeMoney' = freeMoney + BuyCost /\ UNCHANGED ownMoney
  /\ UNCHANGED <<vaultOrder, events, journalSide, execTask, returning, job, workerCrashes>>

OthersExecute(r) ==
  /\ executeFunded(r)
  /\ UNCHANGED <<topUps, journalSide, execTask, returning, job, workerCrashes>>

ExecuteLands(r) ==
  /\ execTask[r].state = "air" /\ executeFunded(r)
  /\ execTask' = [execTask EXCEPT ![r] = HasLanded(@)]
  /\ UNCHANGED <<topUps, journalSide, returning, job, workerCrashes>>
ReturnLands(r, amount) ==
  /\ <<r, amount>> \in returning /\ returnFunds(r, amount)
  /\ returning' = returning \ {<<r, amount>>}
  /\ UNCHANGED <<topUps, journalSide, execTask, job, workerCrashes>>
ReturnIsOver(r, amount) ==
  /\ <<r, amount>> \in returning
  /\ returning' = returning \ {<<r, amount>>}
  /\ UNCHANGED <<vaultSide, topUps, journalSide, execTask, job, workerCrashes>>
ExecuteReconcile(r) ==
  /\ job = NoJob
  /\ \E s \in Reconciled(execTask[r]) : execTask' = [execTask EXCEPT ![r] = s]
  /\ UNCHANGED <<vaultSide, topUps, journalSide, returning, job, workerCrashes>>
WorkerCrash ==
  /\ job # NoJob /\ workerCrashes < WorkerCrashes
  /\ workerCrashes' = workerCrashes + 1
  /\ job' = NoJob
  /\ UNCHANGED <<vaultSide, topUps, journalSide, execTask, returning>>

Working ==
  \/ BeginWork \/ NoteEvent \/ SaveCursor \/ NothingWaits \/ EndWork
  \/ \E r \in WorkRefs :
       \/ ForgetSettled(r) \/ DeferWaiting(r) \/ ExecuteUnconfirmed(r)
       \/ ForgetReturned(r) \/ LeaveReturn(r) \/ ReturnInFlight(r)
Executed == \E r \in WorkRefs : ExecuteConfirmed(r)
Returned == \E r \in WorkRefs : ReturnConfirmed(r)
WorkerNext ==
  \/ Working \/ Executed \/ Returned \/ WorkerCrash
  \/ \E r \in WorkRefs :
       \/ OrderReaches(r) \/ OthersExecute(r) \/ ExecuteLands(r) \/ ExecuteReconcile(r)
       \/ \E amount \in 1..(SaleMoney + TopUps * BuyCost) :
            ReturnLands(r, amount) \/ ReturnIsOver(r, amount)
  \/ \E r \in WaitBuys : MoneyArrives(r)

WorkerSpec == WorkerInit /\ [][WorkerNext]_workerVars

\* The loop goes on; the chain and Relay do not refuse an order for ever.
WorkerFairness ==
  /\ WF_workerVars(Working \/ Executed \/ Returned)
  /\ \A r \in WorkRefs :
       SF_workerVars(ExecuteConfirmed(r) \/ (ExecuteReconcile(r) /\ execTask' # execTask)
                       \/ ReturnConfirmed(r))
FairWorker == WorkerSpec /\ WorkerFairness

---------------------------------------------------------------------------
(* Properties.                                                             *)

WorkerTypeOK ==
  /\ vaultOrder \in [WorkRefs -> {"absent", "waiting", "settled"}]
  /\ \A r \in WorkRefs : ownMoney[r] \in Nat
  /\ freeMoney \in Nat /\ topUps \in 0..TopUps
  /\ scanned \in 0..Len(events)
  /\ waitList \subseteq WorkRefs /\ returnList \subseteq WorkRefs
  /\ execTask \in [WorkRefs -> SendType]

\* Again and again no money stays in the vault for want of the worker: a waiting buy that
\* can be paid with its own money is executed, and the proceeds of a sale are sent back,
\* whatever the events, the cursor, crashes and late confirmations did to its lists
\* (keeper.mjs:2-7); an executeFunded that was given up is left out.
MoneyMovesOn ==
  []<>(\A r \in WorkRefs :
         /\ vaultOrder[r] = "waiting" /\ ownMoney[r] >= BuyCost => execTask[r].state = "stopped"
         /\ r \in SoldSells => ownMoney[r] < MinReturn)

=============================================================================
