----------------------------- MODULE MCKeepers -----------------------------
(* The sender of transactions and the keepers of orders and money for TLC, *)
(* side by side: they share no state, so each behaviour has one of them at *)
(* work, named by part, and the others rest in an initial state. Their     *)
(* fairness is that of their modules, or less, in the same order; only one *)
(* part of a disjunction is ever enabled in a behaviour.                   *)
EXTENDS RefundKeeper, LauncherKeeper, CanonicalKeepers, VaultWorker, TxJournal

CONSTANT SignedOnce   \* the key of the sender that is signed once, next to one that is retried

VARIABLE part

keeperVars == <<part, refundVars, launchVars, laneVars, workerVars, txVars>>

\* One order is open at the refund keeper, or two in a quiet crowd; the queue of a launcher
\* that rests is empty.
KeeperInit ==
  /\ part \in {"refund", "crowd", "launch", "lane", "worker", "sender"}
  /\ RefundInit /\ LaunchInit /\ LaneInit /\ WorkerInit /\ TxInit
  /\ CASE part = "refund" -> Cardinality(open) = 1
       [] part = "crowd" -> open = Refundable
       [] OTHER -> open = FailedBuys
  /\ \A id \in LaunchIds : status[id] = IF part = "launch" THEN "Pending" ELSE "Cancelled"

Refunds(A) == part \in {"refund", "crowd"} /\ A /\ UNCHANGED <<part, launchVars, laneVars, workerVars, txVars>>
Launches(A) == part = "launch" /\ A /\ UNCHANGED <<part, refundVars, laneVars, workerVars, txVars>>
Proves(A) == part = "lane" /\ A /\ UNCHANGED <<part, refundVars, launchVars, workerVars, txVars>>
Works(A) == part = "worker" /\ A /\ UNCHANGED <<part, refundVars, launchVars, laneVars, txVars>>

Sends(A) == part = "sender" /\ A /\ UNCHANGED <<part, refundVars, launchVars, laneVars, workerVars>>

OneQuote == CHOOSE q \in QuoteIds : TRUE
\* The second key is signed once, and the node keeps what it took; the sender dies only
\* with the last attempt of the other key signed and not broadcast. A task is opened again
\* while the second key is untouched, and then signed once more.
Untouched(k) == task[k] = [state |-> "Ready", attempts |-> 0, opened |-> 0]
SecondKey ==
  /\ txs'[<<SignedOnce, 0, 1>>].status \notin {"hidden", "rejected", "reverted"}
  /\ \A s \in Slots : (s[1] = SignedOnce \/ s[2] > 0) /\ s[3] > 1 => txs'[s].status = "none"
  /\ aborts' # aborts => /\ pc.at = "broadcast" /\ pc.key # SignedOnce
                         /\ task[pc.key].attempts = MaxAttempts - 1
  /\ (\E k \in Keys : task'[k].opened > 0) => Untouched(SignedOnce)'

\* Only the first order is quoted anew; the worker dies between an event noted and its
\* cursor saved.
SecondLaunch == \A id \in LaunchIds \ {1} : launches'[id].request \in {NoQuote, OneQuote}
ScanCrash == workerCrashes' # workerCrashes => job.at = "scan"

\* While the keeper walks over the results only the hub and the gate change; it dies after
\* the first checkpoint or all results, and only the first result is given up.
WalkAlone ==
  walk # Resting =>
    UNCHANGED <<made, sends, settledSends, accepted, burnt, usdc, executed, relayed>>
LateCrash == laneCrashes' # laneCrashes => walk.cp > 1 \/ walk.seq > Results
FirstFails == \A s \in 2..Results : failures'[s] = 0

\* In the crowd nobody dies, no day ends and no dust comes; the proceeds of the sells are
\* back once a withdrawal for a buy is on record, so that the day's cap defers them.
QuietCrowd ==
  part = "crowd" =>
    /\ days' = 0 /\ crashes' = 0 /\ held' \in [Refundable -> {0, RefundDue}]
    /\ proceeds' # proceeds => used > 0

KeeperNext ==
  \/ Refunds(RefundNext /\ QuietCrowd)
  \/ Launches(LaunchNext /\ SecondLaunch)
  \/ Proves(LaneNext /\ FirstFails /\ LateCrash /\ WalkAlone)
  \/ Works(WorkerNext /\ ScanCrash)
  \/ Sends(TxNext /\ SecondKey)

KeeperSpec == KeeperInit /\ [][KeeperNext]_keeperVars

Launching == (\E id \in LaunchIds : LaunchStep(id)) \/ PlanFails
Quoted == \E id \in LaunchIds, quote \in QuoteIds : RecordQuote(id, quote)
Confirmed == \E id \in LaunchIds, quote \in QuoteIds : LaunchConfirmed(id, quote)
Cleared == \E id \in LaunchIds, quote \in QuoteIds : LaunchReconcile(id, quote)
Watched == \E id \in LaunchIds : WatchFill(id)
\* Weaker than the fairness of each task: each is reconciled finitely often.
Reconciling == \E o \in Refundable, step \in RefundSteps : RefundReconcile(o, step)
Counted == Proving \/ (Walking /\ failures' # failures)
\* The instance has one ref of each kind.
Moved(r) ==
  \/ ExecuteConfirmed(r) \/ ReturnConfirmed(r)
  \/ (ExecuteReconcile(r) /\ execTask' # execTask)
Others == Keys \ {SignedOnce}
KeeperFairness ==
  /\ SF_keeperVars(\/ Refunds(Reconciling) \/ Launches(Quoted) \/ Proves(checkpointPhase)
                   \/ Works(\E r \in WaitBuys : Moved(r)) \/ Sends(ReadReceipt(SignedOnce)))
  /\ SF_keeperVars(\/ Launches(Confirmed) \/ Proves(Counted)
                   \/ Works(\E r \in SoldSells : Moved(r))
                   \/ Sends(\E k \in Others : ReadReceipt(k)))
  /\ SF_keeperVars(Launches(Cleared))
  /\ WF_keeperVars(\/ Refunds(RefundTick) \/ Launches(Launching) \/ Proves(StartReconcile)
                   \/ Works(Working \/ Executed \/ Returned) \/ Sends(Resolving(SignedOnce)))
  /\ WF_keeperVars(\/ Launches(Watched) \/ Proves(Walking \/ Proving)
                   \/ Sends(\E k \in Others : Resolving(k)))
  /\ WF_keeperVars(Proves(Executing) \/ Sends(GrowOld(SignedOnce)))
  /\ WF_keeperVars(Proves(forwardPhase) \/ Sends(\E k \in Others : GrowOld(k)))
  /\ WF_keeperVars(Proves(Relaying))
  /\ WF_keeperVars(Proves(RollupConfirms))
  /\ WF_keeperVars(Proves(Fund))
FairKeepers == KeeperSpec /\ KeeperFairness

KeeperTypeOK == RefundTypeOK /\ LaunchTypeOK /\ LaneTypeOK /\ WorkerTypeOK /\ TxTypeOK
=============================================================================
