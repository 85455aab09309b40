-------------------------- MODULE CanonicalKeepers --------------------------
(* The three processes that carry the canonical proof of every vault       *)
(* result to Arc (keepers/v3/canonical): keeper.mjs checkpoints results on *)
(* Robinhood Chain and proves each one to the hub at the other end;        *)
(* outbox-executor.mjs executes the checkpoint's message on Ethereum once  *)
(* the rollup has confirmed it and has the bridger forward it;             *)
(* cctp-relayer.mjs takes the attested burn to the gate. Every call is     *)
(* open to anyone, so an effect may also come from somebody else or from a *)
(* transaction of an earlier tick: Anyone stands for both.                 *)
(*                                                                         *)
(* Left out: the pace of checkpoints (checkpointEverySec, checkpointBatch), *)
(* the watches, the hub's checkStale after a reconcile, and the relayer's  *)
(* other lane, which takes the hub's delivery messages to Ethereum.        *)
EXTENDS Integers, FiniteSets, Sequences, TaskSender

CONSTANTS
  Results,        \* vault results: sequence numbers 1..Results
  Foreign,        \* those whose ref is not an order of the hub (migrations)
  ReconcileMax,   \* maxReconcilePerTick
  LaneCrashes     \* bound: crashes and errors that end a tick

ASSUME LaneAssumption ==
  /\ Results \in Nat /\ Foreign \subseteq 1..Results
  /\ ReconcileMax \in Nat \ {0} /\ LaneCrashes \in Nat

VARIABLES
  made,         \* vault: results so far
  sends,        \* vault: the checkpoints sent, each a range of results
  settledSends, \* rollup: how many sends are confirmed on Ethereum
  accepted,     \* bridger: executed sends, in the order of execution
  burnt,        \* bridger: checkpoints forwarded, by burn transaction
  usdc,         \* bridger: dollars for forwarding, one each
  gate,         \* gate: the checkpoints that arrived, in order of arrival
  proven,       \* hub: results reconciled
  executed,     \* executor's journal: the sends it found and calls done
  relayed,      \* relayer's journal: the burn transactions it calls done
  cursor,       \* keeper's journal: checkpoints fully reconciled
  cpSend,       \* keeper's journal: the task checkpoint:through:n of the present range
  failures,     \* keeper's journal: failed attempts of each result's reconcile
  walk,         \* keeper: where reconcilePhase is
  laneCrashes

ends == <<made, sends, proven>>
middle == <<settledSends, accepted, burnt, usdc, gate>>
journals == <<executed, relayed, cursor, failures>>
laneVars == <<ends, middle, journals, cpSend, walk, laneCrashes>>

Resting == [at |-> "rest"]

LaneInit ==
  /\ made = 0 /\ sends = <<>> /\ settledSends = 0
  /\ accepted = <<>> /\ burnt = <<>> /\ usdc = 0
  /\ gate = <<>> /\ proven = {}
  /\ executed = {} /\ relayed = {}
  /\ cursor = 0 /\ cpSend = Unsent /\ failures = [s \in 1..Results |-> 0]
  /\ walk = Resting /\ laneCrashes = 0

Elements(seq) == {seq[i] : i \in DOMAIN seq}
Burns == UNION Elements(burnt)
through == IF sends = <<>> THEN 0 ELSE sends[Len(sends)].to

---------------------------------------------------------------------------
(* The contracts' calls.                                                   *)

\* ReserveVault.checkpoint
checkpoint ==
  /\ through < made
  /\ sends' = Append(sends, [from |-> through + 1, to |-> made])
  /\ UNCHANGED <<made, proven, middle>>

\* EthereumBridger._forward: all that is pending in one transaction, or none.
Pending(acc) == Elements(acc) \ Burns
forwardOf(acc) ==
  /\ usdc >= Cardinality(Pending(acc))
  /\ burnt' = Append(burnt, Pending(acc))
  /\ usdc' = usdc - Cardinality(Pending(acc))

\* Outbox.executeTransaction -> acceptCheckpoint, which forwards if there is a dollar.
executeTransaction(pos) ==
  /\ pos <= settledSends /\ pos \notin Elements(accepted)
  /\ accepted' = Append(accepted, pos)
  /\ IF usdc >= 1 THEN forwardOf(accepted') ELSE UNCHANGED <<burnt, usdc>>
  /\ UNCHANGED <<ends, settledSends, gate>>

forward ==
  /\ Pending(accepted) # {} /\ forwardOf(accepted)
  /\ UNCHANGED <<ends, settledSends, accepted, gate>>

\* CanonicalGate.relay of a message of a burn transaction, once Iris has attested it.
relay(tx, pos) ==
  /\ pos \in burnt[tx] /\ pos \notin Elements(gate)
  /\ gate' = Append(gate, pos)
  /\ UNCHANGED <<ends, settledSends, accepted, burnt, usdc>>

\* hub.reconcile, by a proof under a checkpoint of the gate.
reconcile(s) ==
  /\ s \notin proven \cup Foreign
  /\ \E pos \in Elements(gate) : s \in sends[pos].from..sends[pos].to
  /\ proven' = proven \cup {s}
  /\ UNCHANGED <<made, sends, middle>>

Anyone ==
  /\ \/ checkpoint \/ forward
     \/ \E pos \in DOMAIN sends : executeTransaction(pos)
     \/ \E s \in 1..Results : reconcile(s)
  /\ cpSend' = IF sends' # sends THEN Unsent ELSE cpSend
  /\ UNCHANGED <<journals, walk, laneCrashes>>

---------------------------------------------------------------------------
(* CanonicalKeeper.                                                        *)

\* Confirmed now; or in flight, failed or quarantined, until a new result gives the task
\* another key.
checkpointPhase ==
  /\ walk = Resting /\ through < made
  /\ \/ cpSend.state = "open" /\ checkpoint /\ cpSend' = Unsent
     \/ cpSend' \in Unanswered(cpSend) /\ UNCHANGED <<ends, middle>>
  /\ UNCHANGED <<journals, walk, laneCrashes>>

\* reconcilePhase: from the cursor over the checkpoints the gate held at the start.
RangeOf(i) == sends[gate[i]]
Enter(i, b, count) ==
  [at |-> "result", cp |-> i, seq |-> RangeOf(i).from, unproven |-> 0, budget |-> b, count |-> count]
StartReconcile ==
  /\ walk = Resting /\ cursor < Len(gate)
  /\ walk' = Enter(cursor + 1, ReconcileMax, Len(gate))
  /\ UNCHANGED <<ends, middle, journals, cpSend, laneCrashes>>

OnResult(s) ==
  walk # Resting /\ walk.seq = s /\ s <= RangeOf(walk.cp).to /\ walk.budget > 0
SkipResult(s) ==
  /\ OnResult(s) /\ s \in proven \cup Foreign
  /\ walk' = [walk EXCEPT !.seq = @ + 1]
  /\ UNCHANGED <<ends, middle, journals, cpSend, laneCrashes>>
ProveResult(s) ==
  /\ OnResult(s) /\ failures[s] < SendAttempts
  /\ reconcile(s)
  /\ walk' = [walk EXCEPT !.seq = @ + 1, !.budget = @ - 1]
  /\ UNCHANGED <<journals, cpSend, laneCrashes>>
\* Failed, in flight or quarantined: the checkpoint stays open.
LeaveResult(s) ==
  /\ OnResult(s) /\ s \notin proven \cup Foreign
  /\ walk' = [walk EXCEPT !.seq = @ + 1, !.budget = @ - 1, !.unproven = @ + 1]
  /\ \/ failures[s] < SendAttempts /\ failures' = [failures EXCEPT ![s] = @ + 1]
     \/ UNCHANGED failures
  /\ UNCHANGED <<ends, middle, executed, relayed, cursor, cpSend, laneCrashes>>

\* Mutant: what is not proven yet does not hold the cursor.
EndCheckpointUnproven ==
  /\ walk # Resting /\ (walk.seq > RangeOf(walk.cp).to \/ walk.budget = 0)
  /\ cursor' = IF walk.budget > 0 /\ walk.cp = cursor + 1 THEN cursor + 1 ELSE cursor
  /\ walk' = IF walk.cp < walk.count /\ walk.budget > 0
               THEN Enter(walk.cp + 1, walk.budget, walk.count) ELSE Resting
  /\ UNCHANGED <<ends, middle, executed, relayed, failures, cpSend, laneCrashes>>
EndCheckpoint ==
  /\ walk # Resting /\ (walk.seq > RangeOf(walk.cp).to \/ walk.budget = 0)
  /\ cursor' = IF walk.unproven = 0 /\ walk.budget > 0 /\ walk.cp = cursor + 1
                 THEN cursor + 1 ELSE cursor
  /\ walk' = IF walk.cp < walk.count /\ walk.budget > 0
               THEN Enter(walk.cp + 1, walk.budget, walk.count) ELSE Resting
  /\ UNCHANGED <<ends, middle, executed, relayed, failures, cpSend, laneCrashes>>

---------------------------------------------------------------------------
(* OutboxExecutor.                                                         *)

\* scan finds every send, from a cursor saved after them. executePhase: already spent, or executed and confirmed now.
ExecuteSend(pos) ==
  /\ pos \notin executed
  /\ \/ pos \in Elements(accepted) /\ UNCHANGED <<ends, middle>>
     \/ executeTransaction(pos)
  /\ executed' = executed \cup {pos}
  /\ UNCHANGED <<relayed, cursor, failures, walk, cpSend, laneCrashes>>

forwardPhase ==
  /\ usdc >= 1 /\ forward
  /\ UNCHANGED <<journals, walk, cpSend, laneCrashes>>

---------------------------------------------------------------------------
(* CctpRelayer, lane "checkpoint".                                         *)

\* relayLane: a message of a complete transaction, not yet received.
RelayMessage(tx, pos) ==
  /\ tx \notin relayed
  /\ relay(tx, pos)
  /\ UNCHANGED <<journals, walk, cpSend, laneCrashes>>

\* Mutant: a source is done with the first of its messages.
SourceDoneEarly(tx) ==
  /\ tx \notin relayed
  /\ burnt[tx] \cap Elements(gate) # {}
  /\ relayed' = relayed \cup {tx}
  /\ UNCHANGED <<ends, middle, executed, cursor, failures, walk, cpSend, laneCrashes>>
\* Every message of it was found received or was confirmed in this pass.
SourceDone(tx) ==
  /\ tx \notin relayed
  /\ burnt[tx] \subseteq Elements(gate)
  /\ relayed' = relayed \cup {tx}
  /\ UNCHANGED <<ends, middle, executed, cursor, failures, walk, cpSend, laneCrashes>>

---------------------------------------------------------------------------
(* The vault, the rollup, Iris, Ops, crashes.                              *)

VaultSettles ==
  /\ made < Results /\ made' = made + 1 /\ cpSend' = Unsent
  /\ UNCHANGED <<sends, proven, middle, journals, walk, laneCrashes>>
RollupConfirms ==
  /\ settledSends < Len(sends) /\ settledSends' = settledSends + 1
  /\ UNCHANGED <<ends, accepted, burnt, usdc, gate, journals, cpSend, walk, laneCrashes>>
\* After the alert of forwardPhase; never more than what waits.
Fund ==
  /\ usdc < Cardinality(Pending(accepted)) /\ usdc' = usdc + 1
  /\ UNCHANGED <<ends, settledSends, accepted, burnt, gate, journals, cpSend, walk, laneCrashes>>
KeeperCrash ==
  /\ walk # Resting /\ laneCrashes < LaneCrashes
  /\ laneCrashes' = laneCrashes + 1
  /\ walk' = Resting
  /\ UNCHANGED <<ends, middle, journals, cpSend>>

Walking == EndCheckpoint \/ \E s \in 1..Results : SkipResult(s) \/ LeaveResult(s)
Proving == \E s \in 1..Results : ProveResult(s)
Executing == \E pos \in DOMAIN sends : ExecuteSend(pos)
Relaying == \E tx \in DOMAIN burnt : SourceDone(tx) \/ \E pos \in burnt[tx] : RelayMessage(tx, pos)
LaneNext ==
  \/ Anyone
  \/ checkpointPhase \/ StartReconcile \/ Walking \/ Proving
  \/ Executing \/ forwardPhase \/ Relaying
  \/ VaultSettles \/ RollupConfirms \/ Fund \/ KeeperCrash

LaneSpec == LaneInit /\ [][LaneNext]_laneVars

\* The loops go on; a task is answered, fails or is found in flight until its attempts
\* are used up; the rollup and Iris confirm what was sent, and Ops funds the bridger when
\* it is alerted. Executor and relayer reopen a quarantined task every hour; the keeper
\* does not.
LaneFairness ==
  /\ SF_laneVars(checkpointPhase) /\ WF_laneVars(StartReconcile) /\ WF_laneVars(Walking \/ Proving)
  /\ WF_laneVars(Executing) /\ WF_laneVars(forwardPhase) /\ WF_laneVars(Relaying)
  /\ SF_laneVars(Proving \/ (Walking /\ failures' # failures))
  /\ WF_laneVars(RollupConfirms) /\ WF_laneVars(Fund)
FairLane == LaneSpec /\ LaneFairness

---------------------------------------------------------------------------
(* Properties.                                                             *)

LaneTypeOK ==
  /\ made \in 0..Results /\ settledSends \in 0..Len(sends)
  /\ sends \in Seq([from : 1..Results, to : 1..Results])
  /\ accepted \in Seq(DOMAIN sends) /\ gate \in Seq(DOMAIN sends)
  /\ burnt \in Seq(SUBSET DOMAIN sends)
  /\ usdc \in Nat /\ proven \subseteq 1..Results
  /\ executed \subseteq DOMAIN sends /\ relayed \subseteq DOMAIN burnt
  /\ cursor \in 0..Len(gate) /\ cpSend \in SendType
  /\ failures \in [1..Results -> 0..SendAttempts]

\* What a journal calls done has happened, so that skipping it in every later tick loses
\* nothing: sends called done are executed, sources called done have all their messages
\* at the gate, and every hub result of the checkpoints below the cursor is proven,
\* whichever of them arrived first and wherever a tick ran out of its budget.
JournalsAreBehind ==
  /\ executed \subseteq Elements(accepted)
  /\ \A tx \in relayed : burnt[tx] \subseteq Elements(gate)
  /\ \A i \in 1..cursor : (RangeOf(i).from..RangeOf(i).to) \ Foreign \subseteq proven

\* keeper.mjs:1: every settlement of the hub is proven canonically, whichever process did
\* each step and however often they died, but for the results whose checkpoint or whose
\* reconcile is quarantined, as long as fewer than maxReconcilePerTick reconciles are
\* (each still takes its place in every tick).
Quarantined == {s \in 1..Results : failures[s] = SendAttempts}
NotCheckpointed == IF cpSend.state = "stopped" THEN through + 1 .. made ELSE {}
EveryResultProven ==
  []<>(\A s \in (1..made) \ Foreign :
         \/ s \in proven \cup Quarantined \cup NotCheckpointed
         \/ Cardinality(Quarantined) >= ReconcileMax)
=============================================================================
