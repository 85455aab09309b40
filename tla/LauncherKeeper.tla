--------------------------- MODULE LauncherKeeper ---------------------------
(* The launcher (keepers/v3/launcher/keeper.mjs): each tick it asks the    *)
(* scheduler for the order whose turn it is, quotes and signs a Relay      *)
(* deposit for it, writes the quote into the journal, sends launchNext and *)
(* checks the receipt; the Relay request it remembers is then watched      *)
(* until it is filled. Every attempt has a quote, hence a task key, of its *)
(* own. Reading the queue, recording the quote, sending and recording the  *)
(* launch are steps between which a transaction of an earlier tick may be  *)
(* mined, the buyer may leave, and the process may die.                    *)
EXTENDS Naturals, TaskSender

CONSTANTS
  LaunchIds,      \* order ids, in the order of their turns
  QuoteIds,       \* names for the quotes of an order that still matter
  LaunchCrashes   \* bound: crashes between two steps

ASSUME LaunchAssumption == LaunchIds \subseteq Nat /\ LaunchCrashes \in Nat

VARIABLES
  status,       \* hub: of each order
  deposit,      \* hub: the quote of its Relay deposit, or None
  fill,         \* Relay: is the deposit filled or refunded?
  launches,     \* journal: the record of each order
  txOf,         \* journal: the task of each order and quote
  next,         \* the keeper's next step
  launchCrashes

launchVars == <<status, deposit, fill, launches, txOf, next, launchCrashes>>
launchChain == <<status, deposit, fill>>

NoQuote == "none"
Between == [step |-> "tick"]

LaunchInit ==
  /\ status \in [LaunchIds -> {"Pending", "Cancelled"}]
  /\ deposit = [id \in LaunchIds |-> NoQuote]
  /\ fill = [id \in LaunchIds |-> "waiting"]
  /\ launches = [id \in LaunchIds |-> [request |-> NoQuote, launched |-> FALSE, fill |-> "waiting"]]
  /\ txOf = [t \in LaunchIds \X QuoteIds |-> Unsent]
  /\ next = Between
  /\ launchCrashes = 0

\* scheduler.nextLaunch: the order whose turn it is.
IsNext(id) ==
  /\ status[id] = "Pending"
  /\ \A other \in LaunchIds : status[other] = "Pending" => id <= other

\* launchNext: the order leaves the queue; refunded when it cannot be funded, else its
\* principal is deposited under the quote, and sent on if its reserve pays for that.
launchNext(id, quote) ==
  /\ IsNext(id)
  /\ \E result \in {"Cancelled", "Funded", "Dispatched"} :
       /\ status' = [status EXCEPT ![id] = result]
       /\ deposit' = [deposit EXCEPT ![id] = IF result = "Cancelled" THEN @ ELSE quote]
  /\ UNCHANGED fill

---------------------------------------------------------------------------
(* launchOne, step by step.                                                *)

\* plan: a quote without an error, within the order's reserve. The order was Pending.
Plan(id) ==
  /\ next = Between /\ IsNext(id)
  /\ next' = [step |-> "record", id |-> id]
  /\ UNCHANGED <<launchChain, launches, txOf, launchCrashes>>

\* Mutant: all quotes of an order share one task.
TaskOfOrder(id, quote) == <<id, CHOOSE q \in QuoteIds : TRUE>>
\* A fresh orderId; names of quotes whose task can no longer matter are used again.
TaskOf(id, quote) == <<id, quote>>
\* Mutant: the request of the first quote stays in the record.
RecordQuoteOnce(id, quote) ==
  /\ next = [step |-> "record", id |-> id]
  /\ txOf[TaskOf(id, quote)].state \in {"open", "stopped"}
  /\ txOf' = [txOf EXCEPT ![<<id, quote>>] = Unsent]
  /\ launches' = [launches EXCEPT ![id].request = IF @ = NoQuote THEN quote ELSE @]
  /\ next' = [step |-> "send", id |-> id, quote |-> quote]
  /\ UNCHANGED <<launchChain, launchCrashes>>
RecordQuote(id, quote) ==
  /\ next = [step |-> "record", id |-> id]
  /\ txOf[TaskOf(id, quote)].state \in {"open", "stopped"}
  /\ txOf' = [txOf EXCEPT ![<<id, quote>>] = Unsent]
  /\ launches' = [launches EXCEPT ![id].request = quote]
  /\ next' = [step |-> "send", id |-> id, quote |-> quote]
  /\ UNCHANGED <<launchChain, launchCrashes>>

\* plan, sign or the route's checks give up: nothing was recorded.
PlanFails ==
  /\ next.step = "record"
  /\ next' = Between
  /\ UNCHANGED <<launchChain, launches, txOf, launchCrashes>>

LaunchConfirmed(id, quote) ==
  LET task == TaskOf(id, quote)
  IN /\ next = [step |-> "send", id |-> id, quote |-> quote]
     /\ \/ txOf[task].state = "open" /\ launchNext(id, quote)
        \/ txOf[task].state \in {"landed", "done"} /\ UNCHANGED launchChain
     /\ txOf' = [txOf EXCEPT ![task] = Answered(@)]
     /\ next' = [step |-> "launched", id |-> id]
     /\ UNCHANGED <<launches, launchCrashes>>
LaunchUnconfirmed(id, quote) ==
  LET task == TaskOf(id, quote)
  IN /\ next = [step |-> "send", id |-> id, quote |-> quote]
     /\ txOf[task].state \notin {"landed", "done"}
     /\ \E s \in Unanswered(txOf[task]) : txOf' = [txOf EXCEPT ![task] = s]
     /\ next' = Between
     /\ UNCHANGED <<launchChain, launches, launchCrashes>>

RecordLaunch(id) ==
  /\ next = [step |-> "launched", id |-> id]
  /\ launches' = [launches EXCEPT ![id].launched = TRUE]
  /\ next' = IF status[id] = "Funded" THEN [step |-> "dispatch", id |-> id] ELSE Between
  /\ UNCHANGED <<launchChain, txOf, launchCrashes>>

\* dispatchFunded: tried once, with the keeper's own money for the LayerZero fee.
DispatchFunded(id) ==
  /\ next = [step |-> "dispatch", id |-> id]
  /\ \/ status[id] = "Funded" /\ status' = [status EXCEPT ![id] = "Dispatched"]
     \/ UNCHANGED status
  /\ next' = Between
  /\ UNCHANGED <<deposit, fill, launches, txOf, launchCrashes>>

\* watchFills: of the launches recorded, by the request recorded. Another request of
\* the same order was never paid for.
WatchFill(id) ==
  /\ next = Between
  /\ launches[id].launched /\ launches[id].fill = "waiting"
  /\ deposit[id] = launches[id].request /\ fill[id] # "waiting"
  /\ launches' = [launches EXCEPT ![id].fill = fill[id]]
  /\ UNCHANGED <<launchChain, txOf, next, launchCrashes>>

---------------------------------------------------------------------------
(* Between the keeper's steps.                                             *)

LaunchLands(id, quote) ==
  LET task == TaskOf(id, quote)
  IN /\ txOf[task].state = "air"
     /\ launchNext(id, quote)
     /\ txOf' = [txOf EXCEPT ![task] = HasLanded(@)]
     /\ UNCHANGED <<launches, next, launchCrashes>>

\* reconcileAll, at the start of a tick; a launch of an order that has left reverts.
LaunchReconcile(id, quote) ==
  LET task == TaskOf(id, quote)
  IN /\ next = Between
     /\ \E s \in Reconciled(txOf[task]) : txOf' = [txOf EXCEPT ![task] = s]
     /\ UNCHANGED <<launchChain, launches, next, launchCrashes>>

LaunchCrash ==
  /\ next # Between /\ launchCrashes < LaunchCrashes
  /\ launchCrashes' = launchCrashes + 1
  /\ next' = Between
  /\ UNCHANGED <<launchChain, launches, txOf>>

BuyerLeaves(id) ==
  /\ status[id] = "Pending"
  /\ status' = [status EXCEPT ![id] = "Cancelled"]
  /\ UNCHANGED <<deposit, fill, launches, txOf, next, launchCrashes>>

RelayAnswers(id) ==
  /\ deposit[id] # NoQuote /\ fill[id] = "waiting"
  /\ fill' = [fill EXCEPT ![id] = "over"]
  /\ UNCHANGED <<status, deposit, launches, txOf, next, launchCrashes>>

LaunchStep(id) ==
  \/ Plan(id) \/ RecordLaunch(id) \/ DispatchFunded(id)
  \/ \E quote \in QuoteIds :
       \/ RecordQuote(id, quote) \/ LaunchConfirmed(id, quote) \/ LaunchUnconfirmed(id, quote)
LaunchNext ==
  \/ \E id \in LaunchIds :
       \/ LaunchStep(id) \/ WatchFill(id) \/ BuyerLeaves(id) \/ RelayAnswers(id)
       \/ \E quote \in QuoteIds : LaunchLands(id, quote) \/ LaunchReconcile(id, quote)
  \/ PlanFails \/ LaunchCrash

LaunchSpec == LaunchInit /\ [][LaunchNext]_launchVars

\* The loop goes on; Relay's quotes and the chain do not refuse it for ever; what is in
\* flight is mined or given up.
LaunchFairness ==
  /\ WF_launchVars((\E id \in LaunchIds : LaunchStep(id)) \/ PlanFails)
  /\ SF_launchVars(\E id \in LaunchIds, quote \in QuoteIds : RecordQuote(id, quote))
  /\ SF_launchVars(\E id \in LaunchIds, quote \in QuoteIds : LaunchConfirmed(id, quote))
  /\ SF_launchVars(\E id \in LaunchIds, quote \in QuoteIds : LaunchReconcile(id, quote))
  /\ WF_launchVars(\E id \in LaunchIds : WatchFill(id))
FairLaunch == LaunchSpec /\ LaunchFairness

---------------------------------------------------------------------------
(* Properties.                                                             *)

LaunchTypeOK ==
  /\ status \in [LaunchIds -> {"Pending", "Funded", "Dispatched", "Cancelled"}]
  /\ deposit \in [LaunchIds -> QuoteIds \cup {NoQuote}]
  /\ fill \in [LaunchIds -> {"waiting", "over"}]
  /\ launches \in [LaunchIds -> [request : QuoteIds \cup {NoQuote}, launched : BOOLEAN,
                                 fill : {"waiting", "over"}]]
  /\ txOf \in [LaunchIds \X QuoteIds -> SendType]

\* What the journal says of a launch is what the chain did: the request it watches is
\* the one that was paid, however many quotes of the order were sent, timed out and
\* landed late (keeper.mjs:143-150, one task key per quote).
LaunchRecordIsDeposit ==
  \A id \in LaunchIds :
    launches[id].launched =>
      /\ status[id] # "Pending"
      /\ deposit[id] \in {NoQuote, launches[id].request}

\* No attempt that failed, timed out or died keeps the head of the queue from being
\* tried again with a new quote: every order leaves the queue.
LaunchGoesOn == []<>(\A id \in LaunchIds : status[id] # "Pending")

=============================================================================
