---------------------------- MODULE OrderScheduler ----------------------------
(***************************************************************************)
(* The launch queues (OrderScheduler.sol) in front of the hub: placed buys *)
(* wait in two first-in-first-out queues, public and reward; three public  *)
(* launches, then one reward launch; a queue with nothing launchable lends *)
(* its slot.  The queues drive the hub of StockHub: only launchNext calls  *)
(* the hub's launch.                                                       *)
(*                                                                         *)
(* Of the hub's other operations the ones that change what the queues look *)
(* at are here: placing, taking back, topping up, the failed answers that  *)
(* free capacity and the guardian's lowered limits.                        *)
(***************************************************************************)
EXTENDS StockHub, Sequences

CONSTANTS
  PublicPerReward,  \* PUBLIC_PER_REWARD (3)
  ScanBound,        \* closed entries a head scan passes (64)
  ExtraBound,       \* bound: reserve of an order after a subsidy
  QueueBound        \* bound: entries ever pushed to one queue

ASSUME SchedulerAssumption ==
  /\ PublicPerReward \in Nat \ {0} /\ ScanBound \in Nat \ {0}
  /\ ExtraBound \in Nat /\ QueueBound \in Nat

VARIABLES
  queue,         \* lane -> every id ever enqueued
  head,          \* lane -> entries taken or skipped (head0, head1)
  publicStreak,  \* public launches since the last reward launch (it saturates at 255)
  passedOver     \* history: public launches in a row with a reward order ready

Lanes == {0, 1}
queueVars == <<queue, head, publicStreak, passedOver>>
schedVars == <<hubVars, queueVars>>

SchedInit ==
  /\ HubInit
  /\ queue = [l \in Lanes |-> <<>>]
  /\ head = [l \in Lanes |-> 0]
  /\ publicStreak = 0 /\ passedOver = 0

\* scheduleInfo.
Pending(i) == Order(i).status = "Pending" /\ i \in Buys

Enqueued(q, l, i) == [q EXCEPT ![l] = Append(@, i)]

\* Mutant: the scan ends one entry early.
ScannedShort(l) == {n \in head[l] + 1 .. Len(queue[l]) : n < head[l] + ScanBound}

\* _head: the first pending entry within the scan, if there is one.
Scanned(l) == {n \in head[l] + 1 .. Len(queue[l]) : n <= head[l] + ScanBound}

\* Mutant: any pending entry of the scan, not the first.
PendingWithin(l) == {n \in Scanned(l) : Pending(queue[l][n])}

HeadsAt(l) ==
  {n \in Scanned(l) : /\ Pending(queue[l][n])
                      /\ \A m \in Scanned(l) : m < n => ~Pending(queue[l][m])}

\* Public needs capacity, reward reserved it already.
Ready(l) ==
  {n \in HeadsAt(l) : l = 1 \/ CanReserve(book, limits, 0, AmountIn(queue[l][n]))}

\* Mutant: the reward slot comes one launch late.
RewardTurnLate == publicStreak > PublicPerReward

\* nextLaunch: the lane of the next launch and its position, if any.
RewardTurn == publicStreak >= PublicPerReward
NextLaunch ==
  IF Ready(1) # {} /\ (RewardTurn \/ Ready(0) = {}) THEN {1} \X Ready(1)
  ELSE {0} \X Ready(0)

\* The hub defers a reward buy whose fee reserve is short: it is queued again.
Deferred(i, routeFee) == Lane(i) = 1 /\ Pending(i) /\ routeFee > Order(i).extra

-----------------------------------------------------------------------------

LaunchNext(routeFee) ==
  \E next \in NextLaunch :
    LET l == next[1]
        n == next[2]
        i == queue[l][n]
    IN /\ head' = [head EXCEPT ![l] = n]
       /\ publicStreak' = IF l = 0 THEN publicStreak + 1 ELSE 0
       /\ passedOver' = IF l = 0 /\ Ready(1) # {} THEN passedOver + 1 ELSE 0
       /\ \/ /\ Launch(i, routeFee)
             /\ UNCHANGED queue
          \/ /\ Deferred(i, routeFee)
             /\ Len(queue[1]) < QueueBound
             /\ queue' = Enqueued(queue, 1, i)
             /\ UNCHANGED hubVars

\* Mutant: pending entries are skipped too.
SkipAny(l) ==
  /\ head[l] < Len(queue[l])
  /\ head' = [head EXCEPT ![l] = @ + 1]
  /\ UNCHANGED <<hubVars, queue, publicStreak, passedOver>>

\* skipClosed, with the max a caller chooses.
SkipClosed(l) ==
  /\ \E n \in head[l] + 1 .. Len(queue[l]) :
       /\ \A m \in head[l] + 1 .. n : ~Pending(queue[l][m])
       /\ head' = [head EXCEPT ![l] = n]
  /\ UNCHANGED <<hubVars, queue, publicStreak, passedOver>>

Place(i) ==
  /\ RequestBuy(i) \/ BeginFunding(i)
  /\ queue' = Enqueued(queue, Lane(i), i)
  /\ UNCHANGED <<head, publicStreak, passedOver>>

\* The vault answers a dispatched buy with Failed: its reservation is freed.
FailedAnswer(i) ==
  /\ OrderMessage(i, Principal) \in lzOrdersSent
  /\ ReceiveResult([ref |-> i, outcome |-> "Failed", amountIn |-> Principal, amountOut |-> 0])
  /\ UNCHANGED queueVars

TakeBack(i) ==
  /\ CancelPending(i) \/ CancelReward(i)
  /\ UNCHANGED queueVars

Guardian(l) ==
  /\ l # limits /\ LowerLimits(l)
  /\ UNCHANGED <<hub, laneVars, floatEnabled, sentVars, queueVars>>

TopUp(i, amount) ==
  /\ Pending(i) /\ Order(i).extra + amount <= ExtraBound
  /\ Subsidize(i, amount)
  /\ UNCHANGED queueVars

SchedNext ==
  \/ \E routeFee \in RouteFees : LaunchNext(routeFee)
  \/ \E l \in Lanes : SkipClosed(l)
  \/ \E i \in Buys : Place(i) \/ TakeBack(i) \/ FailedAnswer(i)
  \/ \E i \in RewardBuys : ReserveReward(i) /\ UNCHANGED queueVars
  \/ \E i \in Buys, amount \in Subsidies : TopUp(i, amount)
  \/ \E l \in LimitChoices : Guardian(l)

SchedSpec == SchedInit /\ [][SchedNext]_schedVars

\* The launcher keeper asks nextLaunch on every tick and launches, with a quote the
\* order's reserve can pay; anyone may. Nobody is bound to call skipClosed.
Launching == \E routeFee \in RouteFees : LaunchNext(routeFee)
FairSched == SchedSpec /\ WF_schedVars(Launching)

-----------------------------------------------------------------------------
(* Properties.                                                             *)

\* No waiting order is ever lost: a pending buy is always ahead of its queue's head,
\* once, whatever was skipped, taken back, refunded or deferred around it.
PendingIsQueuedOnce ==
  \A i \in Buys :
    LET places == {n \in head[Lane(i)] + 1 .. Len(queue[Lane(i)]) : queue[Lane(i)][n] = i}
    IN Pending(i) => \E n \in places : places = {n}

\* A blocked public head is neither skipped nor reordered: no public order is funded,
\* or refunded for want of room, while one placed before it is still pending.
PublicOrderOfArrival ==
  [][\A m, n \in DOMAIN queue[0] :
       m < n /\ Pending(queue[0][m]) /\ Pending(queue[0][n]) /\ head'[0] # head[0]
         => head'[0] < n]_schedVars

\* The turn of a ready reward order comes: the public lane never takes
\* more than PUBLIC_PER_REWARD launches in a row past it, however the lent slots fall.
RewardTurnComes == passedOver <= PublicPerReward

\* As many closed entries as a scan passes lie ahead of the rest of the lane.
Blocked(l) ==
  /\ head[l] + ScanBound <= Len(queue[l])
  /\ \A n \in head[l] + 1 .. head[l] + ScanBound : ~Pending(queue[l][n])

\* Every order that waits is launched, refunded or taken back, when the capacity
\* suffices and routes cost what the orders can pay: orders that close in the queue are
\* passed by the scans, up to ScanBound of them in a row. A longer row must be skipped by
\* somebody (skipClosed), again and again.
EveryOrderLeaves ==
  \A i \in Buys : []<>~Blocked(Lane(i)) => (Pending(i) ~> ~Pending(i))

\* The comment of HubSettlement.launch (HubSettlement.sol:370): an order that no
\* longer fits the single-order limit is refunded instead of blocking the queue.
OversizedIsRefunded ==
  \A i \in PublicBuys : (Pending(i) /\ Principal > limits.lRun) ~> ~Pending(i)

=============================================================================
