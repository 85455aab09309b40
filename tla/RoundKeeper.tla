----------------------------- MODULE RoundKeeper -----------------------------
(* The reward rounds' keeper (keepers/v3/round/keeper.mjs, decide.mjs)     *)
(* after the seal: it cuts each group's queue into rounds, plans an order  *)
(* (journal), deposits the Ops fees for it, starts it, has its funding     *)
(* dispatched once, and moves the round on until it is settled or          *)
(* refunded. Plans expire; starts and deposits may land late; the calls on *)
(* a round are open to anyone, so a round may be moved by others, too.     *)
(* Amounts are in USDC_GRID units.                                         *)
EXTENDS Integers, FiniteSets, FiniteSetsExt, Sequences, TaskSender

CONSTANTS
  EntryBudget,     \* the sealed entries' budgets, by entry id (a sequence)
  EntryGroup,      \* their groups
  RunLimit,        \* CapacityController.lRun, below maxRoundBudget18
  RoundMinimum,    \* RewardRoundManager.minimumBudget
  MaxActiveRounds,
  PlanBound,       \* bound: orders planned
  RoundCrashes     \* bound: crashes

ASSUME RoundAssumption ==
  /\ RunLimit \in Nat \ {0} /\ RoundMinimum \in Nat \ {0} /\ MaxActiveRounds \in Nat \ {0}
  /\ PlanBound \in Nat /\ RoundCrashes \in Nat
  /\ DOMAIN EntryBudget = DOMAIN EntryGroup

RoundEntries == DOMAIN EntryBudget
Groups == {EntryGroup[e] : e \in RoundEntries}

VARIABLES
  enqueued,    \* batcher: entries 1..enqueued are in their queues
  available,   \* manager: the budget of each entry no round has taken
  rounds,      \* manager, adapter and hub: each round
  orders,      \* journal and adapter: each order planned, its fees and its tasks
  roundRec,    \* journal: of each round
  batch,       \* the keeper's place in batchPhase
  roundCrashes

roundVars == <<enqueued, available, rounds, orders, roundRec, batch, roundCrashes>>

Active == {"Funding", "Funded", "Submitted"}
Outside == [step |-> "outside"]

RoundInit ==
  /\ enqueued = 0
  /\ available = [e \in RoundEntries |-> EntryBudget[e]]
  /\ rounds = <<>> /\ orders = <<>> /\ roundRec = <<>>
  /\ batch = Outside /\ roundCrashes = 0

ActiveRounds == {r \in DOMAIN rounds : rounds[r].status \in Active}
pending(e) == \E r \in ActiveRounds : orders[rounds[r].order].slices[e] > 0

---------------------------------------------------------------------------
(* RewardBatcher.previewBatch, roundCap, planBatch.                        *)

Takeable(g) ==
  {e \in 1..enqueued : EntryGroup[e] = g /\ available[e] > 0 /\ ~pending(e)}
AvailableIn(S) == MapThenSumSet(LAMBDA e : available[e], S)

previewBatch(g, cap) ==
  [e \in RoundEntries |->
     LET left == cap - AvailableIn({f \in Takeable(g) : f < e})
     IN IF e \notin Takeable(g) \/ left <= 0 THEN 0
        ELSE IF left < available[e] THEN left ELSE available[e]]
TotalOf(slices) == MapThenSumSet(LAMBDA e : slices[e], RoundEntries)

\* A queue above the limit is cut into near-equal rounds, unless one would be too small.
roundCap(queued) ==
  LET n == (queued + RunLimit - 1) \div RunLimit
      even == (queued + n - 1) \div n
      last == queued - (n - 1) * even
  IN IF queued <= RunLimit \/ even < RoundMinimum \/ last < RoundMinimum
       THEN RunLimit ELSE even

planBatch(g, cap, active) ==
  LET total == TotalOf(previewBatch(g, cap))
  IN active < MaxActiveRounds /\ total >= RoundMinimum /\ total <= RunLimit

---------------------------------------------------------------------------
(* The adapter and the manager.                                            *)

NotStarted(o) == \A r \in DOMAIN rounds : rounds[r].order # o

\* executeAndStart: the quote is for exactly these slices, which must head the queue.
\* The fees are at the order; the deadline has not passed.
Startable(o) ==
  LET order == orders[o]
  IN /\ order.clock # "over" /\ order.fees = "there"
     /\ previewBatch(order.group, order.cap) = order.slices
     /\ NotStarted(o)
executeAndStart(o) ==
  /\ Startable(o)
  /\ available' = [e \in RoundEntries |-> available[e] - orders[o].slices[e]]
  /\ rounds' = Append(rounds, [order |-> o, status |-> "Funding", funded |-> FALSE,
                               result |-> "none", paid |-> 0, tries |-> 0])
  /\ roundRec' = Append(roundRec, [dispatch |-> "none", terminal |-> FALSE])

Moves(r, status) == rounds' = [rounds EXCEPT ![r].status = status, ![r].tries = 0]

poke(r) ==
  /\ rounds[r].status = "Funding" /\ rounds[r].funded
  /\ Moves(r, "Funded") /\ UNCHANGED available
submit(r) ==
  /\ rounds[r].status = "Funded"
  /\ Moves(r, "Submitted") /\ UNCHANGED available
\* Mutant: a refunded round can be refunded again.
finalizeAgain(r) ==
  \/ /\ rounds[r].status = "Submitted" /\ rounds[r].result = "fill"
     /\ Moves(r, "Settled") /\ UNCHANGED available
  \/ /\ rounds[r].result = "refund"
     /\ Moves(r, "Refunded")
     /\ available' = [e \in RoundEntries |-> available[e] + orders[rounds[r].order].slices[e]]
\* Without a proven result it changes nothing. A refund puts the slices back.
finalize(r) ==
  \/ /\ rounds[r].status = "Submitted" /\ rounds[r].result = "fill"
     /\ Moves(r, "Settled") /\ UNCHANGED available
  \/ /\ rounds[r].status \in Active /\ rounds[r].result = "refund"
     /\ Moves(r, "Refunded")
     /\ available' = [e \in RoundEntries |-> available[e] + orders[rounds[r].order].slices[e]]

MoveRound(r) == poke(r) \/ submit(r) \/ finalize(r)

---------------------------------------------------------------------------
(* batchPhase.                                                             *)

\* enqueuePhase, or anyone.
enqueue ==
  /\ enqueued < Len(EntryBudget)
  /\ enqueued' = enqueued + 1
  /\ UNCHANGED <<available, rounds, orders, roundRec, batch, roundCrashes>>

\* roundsPhase counts the rounds it finds active.
BeginBatch ==
  /\ batch = Outside
  /\ batch' = [step |-> "group", active |-> Cardinality(ActiveRounds), todo |-> Groups]
  /\ UNCHANGED <<enqueued, available, rounds, orders, roundRec, roundCrashes>>

\* The rest of the groups, after this one; started counts.
AfterGroup(g, started) ==
  LET todo == batch.todo \ {g}
  IN IF todo = {} THEN Outside
     ELSE [step |-> "group", active |-> batch.active + (IF started THEN 1 ELSE 0), todo |-> todo]

OnGroup(g) == batch # Outside /\ batch.step = "group" /\ g \in batch.todo
CapOf(g) == roundCap(AvailableIn(Takeable(g)))

DeferGroup(g) ==
  /\ OnGroup(g)
  /\ batch' = AfterGroup(g, FALSE)
  /\ UNCHANGED <<enqueued, available, rounds, orders, roundRec, roundCrashes>>

\* The plan saved for these slices at this nonce: executionNonce grows when they start.
SavedPlans(g) ==
  {o \in DOMAIN orders :
     /\ orders[o].group = g /\ orders[o].slices = previewBatch(g, CapOf(g))
     /\ ~orders[o].expired /\ NotStarted(o)}
GoOnWith(g, o) ==
  batch' = [step |-> "fees", active |-> batch.active, todo |-> batch.todo, group |-> g, order |-> o]

\* flagStrandedFees: an order given up keeps the fees deposited for it.
Flagged(g) ==
  [o \in DOMAIN orders |-> [orders[o] EXCEPT !.expired = @ \/ o \in SavedPlans(g)]]

UsePlan(g, o) ==
  /\ OnGroup(g) /\ planBatch(g, CapOf(g), batch.active)
  /\ o \in SavedPlans(g) /\ orders[o].clock = "fresh"
  /\ GoOnWith(g, o)
  /\ UNCHANGED <<enqueued, available, rounds, orders, roundRec, roundCrashes>>

\* market, price, costs and checkAdapterQuote hold. An old plan is flagged and left.
NewPlan(g) ==
  LET order == [group |-> g, slices |-> previewBatch(g, CapOf(g)), cap |-> CapOf(g),
                clock |-> "fresh", expired |-> FALSE, fees |-> "none",
                start |-> Unsent]
  IN /\ OnGroup(g) /\ planBatch(g, CapOf(g), batch.active)
     /\ \A o \in SavedPlans(g) : orders[o].clock # "fresh"
     /\ Len(orders) < PlanBound
     /\ orders' = Append(Flagged(g), order)
     /\ GoOnWith(g, Len(orders'))
     /\ UNCHANGED <<enqueued, available, rounds, roundRec, roundCrashes>>

OnOrder(step) == batch # Outside /\ batch.step = step
GiveUpGroup == batch' = AfterGroup(batch.group, FALSE)

\* What is missing is deposited; the transaction may be left in flight.
DepositFees ==
  /\ OnOrder("fees")
  /\ \/ /\ orders' = [orders EXCEPT ![batch.order].fees = "there"]
        /\ batch' = [batch EXCEPT !.step = "start"]
     \/ /\ orders[batch.order].fees # "there"
        /\ \E fees \in {"none", "air"} : orders' = [orders EXCEPT ![batch.order].fees = fees]
        /\ GiveUpGroup
  /\ UNCHANGED <<enqueued, available, rounds, roundRec, roundCrashes>>

\* The start is mined while the keeper waits, or was before it asks again.
StartConfirmed ==
  LET o == batch.order
      task == orders[o].start
  IN /\ OnOrder("start")
     /\ \/ task.state = "open" /\ executeAndStart(o)
        \/ task.state \in {"landed", "done"} /\ UNCHANGED <<available, rounds, roundRec>>
     /\ orders' = [orders EXCEPT ![o].start = Answered(@)]
     /\ batch' = AfterGroup(batch.group, TRUE)
     /\ UNCHANGED <<enqueued, roundCrashes>>
\* onStartRejected, what a refused simulation does to the plan: it is tried again, given
\* up, or asks for more fees, which makes other tasks of its deposit and its start.
Replan(order) ==
  {order, [order EXCEPT !.expired = TRUE], [order EXCEPT !.fees = "none", !.start = Unsent]}
\* In flight, refused, or rejected in simulation.
StartUnconfirmed ==
  LET o == batch.order
      task == orders[o].start
  IN /\ OnOrder("start") /\ task.state \notin {"landed", "done"}
     /\ \E s \in Unanswered(task) :
          LET sent == [orders[o] EXCEPT !.start = s]
              refused == task.state = "open" /\ s.attempts > task.attempts
          IN \E order \in IF refused THEN Replan(sent) ELSE {sent} :
               orders' = [orders EXCEPT ![o] = order]
     /\ GiveUpGroup
     /\ UNCHANGED <<enqueued, available, rounds, roundRec, roundCrashes>>

---------------------------------------------------------------------------
(* progressRound, between batches.                                         *)

Handling(r) == batch = Outside /\ ~roundRec[r].terminal

\* nextRoundAction's calls; a key of five failures is not tried again.
ProgressRound(r) ==
  /\ Handling(r) /\ rounds[r].tries < SendAttempts
  /\ MoveRound(r)
  /\ UNCHANGED <<enqueued, orders, roundRec, batch, roundCrashes>>
ProgressFails(r) ==
  /\ Handling(r) /\ rounds[r].tries < SendAttempts /\ ENABLED MoveRound(r)
  /\ rounds' = [rounds EXCEPT ![r].tries = @ + 1]
  /\ UNCHANGED <<enqueued, available, orders, roundRec, batch, roundCrashes>>

\* Mutant: the lane is called without an intent on record.
DispatchUnrecorded(r) ==
  /\ Handling(r) /\ roundRec[r].dispatch = "none"
  /\ rounds[r].status = "Funding" /\ ~rounds[r].funded /\ rounds[r].result # "refund"
  /\ batch' = [step |-> "dispatch", round |-> r]
  /\ UNCHANGED <<enqueued, available, rounds, orders, roundRec, roundCrashes>>
\* dispatchFunding: the intent is written before the lane is called.
DispatchIntent(r) ==
  /\ Handling(r) /\ roundRec[r].dispatch = "none"
  /\ rounds[r].status = "Funding" /\ ~rounds[r].funded /\ rounds[r].result # "refund"
  /\ roundRec' = [roundRec EXCEPT ![r].dispatch = "intent"]
  /\ batch' = [step |-> "dispatch", round |-> r]
  /\ UNCHANGED <<enqueued, available, rounds, orders, roundCrashes>>
\* Paid, and the lane says so; or it fails with the outcome unknown.
DispatchSent ==
  LET r == batch.round
  IN /\ OnOrder("dispatch")
     /\ \E p \in {0, 1} : rounds' = [rounds EXCEPT ![r].paid = @ + p]
     /\ batch' = Outside
     /\ UNCHANGED <<enqueued, available, orders, roundRec, roundCrashes>>
\* definitelyNotSent: refused before anything was broadcast, or queued.
DispatchRefused ==
  /\ OnOrder("dispatch")
  /\ roundRec' = [roundRec EXCEPT ![batch.round].dispatch = "none"]
  /\ batch' = Outside
  /\ UNCHANGED <<enqueued, available, rounds, orders, roundCrashes>>

\* Mutant: a round counts as over once it is submitted.
CloseSubmitted(r) ==
  /\ Handling(r) /\ rounds[r].status \in {"Submitted", "Settled", "Refunded"}
  /\ roundRec' = [roundRec EXCEPT ![r].terminal = TRUE]
  /\ UNCHANGED <<enqueued, available, rounds, orders, batch, roundCrashes>>
CloseRound(r) ==
  /\ Handling(r) /\ rounds[r].status \in {"Settled", "Refunded"}
  /\ roundRec' = [roundRec EXCEPT ![r].terminal = TRUE]
  /\ UNCHANGED <<enqueued, available, rounds, orders, batch, roundCrashes>>

---------------------------------------------------------------------------
(* The clock, the chain, the bridges and the hub, other callers, crashes.  *)

\* deadline - 60, then the deadline, of an order that has not started.
PlanAges(o) ==
  /\ orders[o].clock # "over" /\ NotStarted(o)
  /\ orders' = [orders EXCEPT ![o].clock = IF @ = "fresh" THEN "closing" ELSE "over"]
  /\ UNCHANGED <<enqueued, available, rounds, roundRec, batch, roundCrashes>>

StartLands(o) ==
  /\ orders[o].start.state = "air" /\ executeAndStart(o)
  /\ orders' = [orders EXCEPT ![o].start = HasLanded(@)]
  /\ UNCHANGED <<enqueued, batch, roundCrashes>>
DepositLands(o) ==
  /\ orders[o].fees = "air"
  /\ orders' = [orders EXCEPT ![o].fees = "there"]
  /\ UNCHANGED <<enqueued, available, rounds, roundRec, batch, roundCrashes>>

FundingArrives(r) ==
  /\ rounds[r].status = "Funding" /\ rounds[r].paid > 0
  /\ ~rounds[r].funded /\ rounds[r].result = "none"
  /\ \/ rounds' = [rounds EXCEPT ![r].funded = TRUE]
     \/ rounds' = [rounds EXCEPT ![r].result = "refund"]
  /\ UNCHANGED <<enqueued, available, orders, roundRec, batch, roundCrashes>>
HubAnswers(r) ==
  /\ rounds[r].status = "Submitted" /\ rounds[r].result = "none"
  /\ \E result \in {"fill", "refund"} : rounds' = [rounds EXCEPT ![r].result = result]
  /\ UNCHANGED <<enqueued, available, orders, roundRec, batch, roundCrashes>>
OthersMove(r) ==
  /\ MoveRound(r)
  /\ UNCHANGED <<enqueued, orders, roundRec, batch, roundCrashes>>
RoundCrash ==
  /\ batch # Outside /\ roundCrashes < RoundCrashes
  /\ batch' = Outside /\ roundCrashes' = roundCrashes + 1
  /\ UNCHANGED <<enqueued, available, rounds, orders, roundRec>>

Batching ==
  \/ BeginBatch \/ DepositFees \/ StartConfirmed \/ StartUnconfirmed
  \/ \E g \in Groups :
       DeferGroup(g) \/ NewPlan(g) \/ \E o \in DOMAIN orders : UsePlan(g, o)
Progressing ==
  \/ DispatchSent \/ DispatchRefused
  \/ \E r \in DOMAIN rounds :
       ProgressRound(r) \/ ProgressFails(r) \/ DispatchIntent(r) \/ CloseRound(r)
Outer ==
  \/ \E o \in DOMAIN orders : PlanAges(o) \/ StartLands(o) \/ DepositLands(o)
  \/ \E r \in DOMAIN rounds : FundingArrives(r) \/ HubAnswers(r) \/ OthersMove(r)
RoundNext == enqueue \/ Batching \/ Progressing \/ Outer \/ RoundCrash

RoundSpec == RoundInit /\ [][RoundNext]_roundVars

\* Every tick passes over every round; the lane pays in the end, the bridge delivers or
\* refunds, and the hub answers.
RoundFairness ==
  /\ WF_roundVars(Batching)
  /\ SF_roundVars(DispatchSent)
  /\ SF_roundVars(\E r \in DOMAIN rounds : ProgressRound(r) \/ ProgressFails(r) \/ DispatchIntent(r))
  /\ WF_roundVars(\E r \in DOMAIN rounds : FundingArrives(r) \/ HubAnswers(r))
FairRound == RoundSpec /\ RoundFairness

---------------------------------------------------------------------------
(* Properties.                                                             *)

RoundTypeOK ==
  /\ enqueued \in 0..Len(EntryBudget)
  /\ \A e \in RoundEntries : available[e] \in 0..EntryBudget[e]
  /\ Len(orders) <= PlanBound /\ Len(roundRec) = Len(rounds)
  /\ \A r \in DOMAIN rounds :
       /\ rounds[r].order \in DOMAIN orders /\ rounds[r].tries \in 0..SendAttempts
       /\ rounds[r].status \in Active \cup {"Settled", "Refunded"}

\* keeper.mjs:330: a round's funding is paid at most once, though a crash may cut the
\* dispatch anywhere and the lane may fail with its outcome unknown.
DispatchedOnce == \A r \in DOMAIN rounds : rounds[r].paid <= 1

\* Again and again every started round is settled or refunded, unless one of its calls was given
\* up or its dispatch was lost between the intent and the payment (keeper.mjs:330).
RoundEnded(r) == rounds[r].status \in {"Settled", "Refunded"}
RoundStuck(r) ==
  /\ batch = Outside
  /\ \/ rounds[r].tries = SendAttempts
     \/ roundRec[r].dispatch = "intent" /\ rounds[r].paid = 0
RoundsEnd == []<>(\A r \in DOMAIN rounds : RoundEnded(r) \/ RoundStuck(r))

=============================================================================
