----------------------------- MODULE TxJournal -----------------------------
(* TxSender (keepers/v3/lib/tx.mjs) over the Journal (lib/journal.mjs): how *)
(* the tasks of one signing account become transactions. The holder of the *)
(* account's lock simulates, signs with the node's pending nonce, writes   *)
(* the task as Sent, broadcasts and waits; a task found Sent is reconciled *)
(* from a receipt read, then a nonce read, then its age. Each await is a   *)
(* step between which blocks are mined and the process may die; every      *)
(* journal write is on disk when the call returns.                         *)
(*                                                                         *)
(* A quarantined task is left alone, unless it is one of those that the    *)
(* canonical lane opens again (reopenQuarantined), with no attempts.       *)
(*                                                                         *)
(* A key's signature in its opening o is the slot <<key, o, n>>:           *)
(* markFailure counts every attempt that ended, so the current one has     *)
(* number attempts + 1. Delays are left out: a Retryable task is retried,  *)
(* and a quarantined one opened again, at any later time.                  *)
EXTENDS Integers

CONSTANTS Keys,         \* the tasks of one signing account
          MaxAttempts,  \* MAX_ATTEMPTS of the journal
          Reopenable,   \* the tasks of the canonical lane, opened again by themselves
          MaxReopens,   \* bound: times a task is opened again
          NonceBound,   \* bound: nonces are 0..NonceBound
          MaxAborts,    \* bound: crashes, and errors that end a tick
          Slow          \* may a transaction stay unmined for giveUpMs?

ASSUME TxAssumption ==
  /\ MaxAttempts \in Nat \ {0} /\ MaxReopens \in Nat /\ Reopenable \subseteq Keys
  /\ NonceBound \in Nat /\ MaxAborts \in Nat
  /\ Slow \in BOOLEAN

VARIABLES
  task,    \* the journal's tasks: state, failed attempts, and the times opened again
  txs,     \* what became of each signature
  latest,  \* the account's nonce on chain: transactions mined
  pc,      \* where the lock holder is, and at which key
  old,     \* the tasks sent more than giveUpMs ago
  aborts

txVars == <<task, txs, latest, pc, old, aborts>>

Attempts == 1..MaxAttempts
Openings == 0..MaxReopens
Slots == Keys \X Openings \X Attempts

\* none: not signed; signed: in the journal only; air: in the node's mempool;
\* hidden: dropped by the node, still held by others; rejected: refused by the node.
TxStatus == {"none", "signed", "air", "hidden", "landed", "reverted", "rejected"}
TaskState == {"Ready", "Sent", "Confirmed", "Retryable", "Quarantined"}

Idle == [at |-> "idle"]
PcType == {Idle} \cup [at : {"broadcast", "wait", "nonce"}, key : Keys]

Current(k) == <<k, task[k].opened, task[k].attempts + 1>>
Mempool == {s \in Slots : txs[s].status = "air" /\ txs[s].nonce >= latest}

\* getTransactionCount(from, 'pending'): the first nonce the node has no transaction for.
IsPending(n) ==
  /\ n >= latest
  /\ \A s \in Mempool : txs[s].nonce # n
  /\ \A m \in latest..(n - 1) : \E s \in Mempool : txs[s].nonce = m

\* Mutants: the last attempt is counted one too late; an attempt is not counted.
FailedLate(t) ==
  [t EXCEPT !.state = IF t.attempts >= MaxAttempts THEN "Quarantined" ELSE "Retryable",
            !.attempts = @ + 1]
FailedUncounted(t) == [t EXCEPT !.state = "Retryable"]
\* markFailure: count the attempt; the last one quarantines the task.
Failed(t) ==
  [t EXCEPT !.state = IF t.attempts + 1 >= MaxAttempts THEN "Quarantined" ELSE "Retryable",
            !.attempts = @ + 1]

markFailure(k) == task' = [task EXCEPT ![k] = Failed(@)]
markConfirmed(k) == task' = [task EXCEPT ![k].state = "Confirmed"]

\* taskGate: a fresh, reopened or failed task may be attempted.
MayAttempt(k) == task[k].state \in {"Ready", "Retryable"}

TxInit ==
  /\ task = [k \in Keys |-> [state |-> "Ready", attempts |-> 0, opened |-> 0]]
  /\ txs = [s \in Slots |-> [status |-> "none", nonce |-> 0]]
  /\ latest = 0
  /\ pc = Idle
  /\ old = {}
  /\ aborts = 0

\* reopenQuarantined: before it calls a task of the canonical lane.
Reopen(k) ==
  /\ pc = Idle /\ k \in Reopenable
  /\ task[k].state = "Quarantined" /\ task[k].opened < MaxReopens
  /\ task' = [task EXCEPT ![k] = [state |-> "Ready", attempts |-> 0, opened |-> @.opened + 1]]
  /\ UNCHANGED <<txs, latest, pc, old, aborts>>

---------------------------------------------------------------------------
(* send: simulate, sign and journal, broadcast, wait for the receipt.      *)

\* provider.call throws: a revert, or an RPC that does not answer, counts an attempt.
SimulationFails(k) ==
  /\ pc = Idle /\ MayAttempt(k)
  /\ markFailure(k)
  /\ UNCHANGED <<txs, latest, pc, old, aborts>>

Sign(k) ==
  /\ pc = Idle /\ MayAttempt(k)
  /\ \E n \in 0..NonceBound :
       /\ IsPending(n)
       /\ txs' = [txs EXCEPT ![Current(k)] = [status |-> "signed", nonce |-> n]]
  /\ task' = [task EXCEPT ![k].state = "Sent"]
  /\ pc' = [at |-> "broadcast", key |-> k]
  /\ old' = old \ {k}
  /\ UNCHANGED <<latest, aborts>>

Accepted(k) ==
  /\ pc = [at |-> "broadcast", key |-> k]
  /\ txs[Current(k)].nonce >= latest
  /\ txs' = [txs EXCEPT ![Current(k)].status = "air"]
  /\ pc' = [at |-> "wait", key |-> k]
  /\ UNCHANGED <<task, latest, old, aborts>>

\* An error that names a refusal (REJECTED): the task has failed. The answer
\* "already known" is one of them, although the node holds the transaction.
Rejected(k) ==
  /\ pc = [at |-> "broadcast", key |-> k]
  /\ \/ txs' = [txs EXCEPT ![Current(k)].status = "rejected"]
     \/ /\ txs[Current(k)].nonce >= latest
        /\ txs' = [txs EXCEPT ![Current(k)].status = "air"]
  /\ markFailure(k)
  /\ pc' = Idle
  /\ UNCHANGED <<latest, old, aborts>>

\* Any other error: the node may or may not have taken it; the task stays Sent.
Ambiguous(k) ==
  /\ pc = [at |-> "broadcast", key |-> k]
  /\ \/ /\ txs[Current(k)].nonce >= latest
        /\ txs' = [txs EXCEPT ![Current(k)].status = "air"]
     \/ UNCHANGED txs
  /\ pc' = Idle
  /\ UNCHANGED <<task, latest, old, aborts>>

ReceiptSeen(k) ==
  /\ pc = [at |-> "wait", key |-> k]
  /\ \/ txs[Current(k)].status = "landed" /\ markConfirmed(k)
     \/ txs[Current(k)].status = "reverted" /\ markFailure(k)
  /\ pc' = Idle
  /\ UNCHANGED <<txs, latest, old, aborts>>

\* No receipt in confirmTimeoutMs, nor in the read that follows: in flight.
WaitTimesOut(k) ==
  /\ pc = [at |-> "wait", key |-> k]
  /\ txs[Current(k)].status \notin {"landed", "reverted"}
  /\ pc' = Idle
  /\ UNCHANGED <<task, txs, latest, old, aborts>>

---------------------------------------------------------------------------
(* reconcile, by reconcileAll at the start of a tick or by send.           *)

\* Mutant: any receipt confirms.
ReadReceiptAny(k) ==
  /\ pc = Idle /\ task[k].state = "Sent"
  /\ \/ txs[Current(k)].status \in {"landed", "reverted"} /\ markConfirmed(k) /\ UNCHANGED pc
     \/ /\ txs[Current(k)].status \notin {"landed", "reverted"}
        /\ pc' = [at |-> "nonce", key |-> k]
        /\ UNCHANGED task
  /\ UNCHANGED <<txs, latest, old, aborts>>
ReadReceipt(k) ==
  /\ pc = Idle /\ task[k].state = "Sent"
  /\ \/ /\ txs[Current(k)].status = "landed"
        /\ markConfirmed(k) /\ UNCHANGED pc
     \/ /\ txs[Current(k)].status = "reverted"
        /\ markFailure(k) /\ UNCHANGED pc
     \/ /\ txs[Current(k)].status \notin {"landed", "reverted"}
        /\ pc' = [at |-> "nonce", key |-> k]
        /\ UNCHANGED task
  /\ UNCHANGED <<txs, latest, old, aborts>>

\* Mutant: nothing is given up for its age.
ReadNoncePatient(k) ==
  /\ pc = [at |-> "nonce", key |-> k]
  /\ \/ latest > txs[Current(k)].nonce /\ markFailure(k) /\ UNCHANGED txs
     \/ /\ latest <= txs[Current(k)].nonce
        /\ txs' = [txs EXCEPT ![Current(k)].status = "air"]
        /\ UNCHANGED task
  /\ pc' = Idle
  /\ UNCHANGED <<latest, old, aborts>>
\* No receipt a moment ago: a nonce that is used up or a task that is too old has
\* failed, otherwise the journalled transaction is broadcast again.
ReadNonce(k) ==
  /\ pc = [at |-> "nonce", key |-> k]
  /\ \/ /\ latest > txs[Current(k)].nonce \/ k \in old
        /\ markFailure(k) /\ UNCHANGED txs
     \/ /\ latest <= txs[Current(k)].nonce /\ k \notin old
        /\ \/ txs' = [txs EXCEPT ![Current(k)].status = "air"]
           \/ UNCHANGED txs
        /\ UNCHANGED task
  /\ pc' = Idle
  /\ UNCHANGED <<latest, old, aborts>>

\* The process dies, or an unexpected error ends its tick.
Abort ==
  /\ pc # Idle /\ aborts < MaxAborts
  /\ aborts' = aborts + 1
  /\ pc' = Idle
  /\ UNCHANGED <<task, txs, latest, old>>

---------------------------------------------------------------------------
(* The chain and the clock.                                                *)

Mine(s) ==
  /\ txs[s].status \in {"air", "hidden"} /\ txs[s].nonce = latest
  /\ \E outcome \in {"landed", "reverted"} : txs' = [txs EXCEPT ![s].status = outcome]
  /\ latest' = latest + 1
  /\ UNCHANGED <<task, pc, old, aborts>>

Evict(s) ==
  /\ txs[s].status = "air"
  /\ txs' = [txs EXCEPT ![s].status = "hidden"]
  /\ UNCHANGED <<task, latest, pc, old, aborts>>

GrowOld(k) ==
  /\ Slow /\ task[k].state = "Sent" /\ k \notin old
  /\ old' = old \cup {k}
  /\ UNCHANGED <<task, txs, latest, pc, aborts>>

Keeper(k) ==
  \/ Reopen(k)
  \/ SimulationFails(k) \/ Sign(k) \/ Accepted(k) \/ Rejected(k) \/ Ambiguous(k)
  \/ ReceiptSeen(k) \/ WaitTimesOut(k) \/ ReadReceipt(k) \/ ReadNonce(k)

TxNext ==
  \/ \E k \in Keys : Keeper(k) \/ GrowOld(k)
  \/ Abort
  \/ \E s \in Slots : Mine(s) \/ Evict(s)

TxSpec == TxInit /\ [][TxNext]_txVars

\* The same against a node that refuses no broadcast.
Refused == \E k \in Keys : Rejected(k)
UnrefusedSpec == TxInit /\ [][TxNext /\ ~Refused]_txVars

\* The loop goes on and reconciles every Sent task in every tick, and time passes;
\* nothing is assumed of the chain.
Resolving(k) ==
  \/ Accepted(k) \/ Rejected(k) \/ Ambiguous(k) \/ ReceiptSeen(k) \/ WaitTimesOut(k)
  \/ ReadNonce(k)
TxFairness ==
  \A k \in Keys :
    /\ WF_txVars(Resolving(k)) /\ SF_txVars(ReadReceipt(k)) /\ WF_txVars(GrowOld(k))
FairTx == TxSpec /\ TxFairness

---------------------------------------------------------------------------
(* Properties.                                                             *)

TxTypeOK ==
  /\ task \in [Keys -> [state : TaskState, attempts : 0..MaxAttempts, opened : Openings]]
  /\ txs \in [Slots -> [status : TxStatus, nonce : Nat]]
  /\ latest \in Nat
  /\ pc \in PcType
  /\ old \subseteq Keys
  /\ aborts \in Nat

\* Every signature a key ever had is one the journal counts: of an earlier opening, as a
\* failed attempt of this one, or as the one it holds as Sent or Confirmed (journal.mjs:2,
\* written before the broadcast). So no crash and no retry signs a key more than
\* MaxAttempts times in one opening, and only a reopening starts the count again.
SignaturesAreCounted ==
  \A s \in Slots :
    txs[s].status # "none" =>
      LET t == task[s[1]]
      IN \/ s[2] < t.opened
         \/ /\ s[2] = t.opened
            /\ s[3] <= t.attempts + (IF t.state \in {"Sent", "Confirmed"} THEN 1 ELSE 0)

\* What the journal calls Confirmed has run on the chain (markConfirmed is only
\* called on a receipt), whatever was replaced, evicted or retried before.
ConfirmedHasLanded ==
  \A k \in Keys : task[k].state = "Confirmed" => txs[Current(k)].status = "landed"

\* The sender implements what keepers count on.
AnswerOf(k) ==
  CASE task[k].state = "Confirmed" -> "done"
    [] task[k].state = "Quarantined" -> "stopped"
    [] OTHER -> "open"
LandedAttempts(k) == {e \in Openings \X Attempts : txs[<<k, e[1], e[2]>>].status = "landed"}
Promise == INSTANCE TaskPromise WITH
  opened <- [k \in Keys |-> task[k].opened],
  answer <- [k \in Keys |-> AnswerOf(k)],
  effects <- [k \in Keys |-> LandedAttempts(k)]
KeepsPromise == Promise!PromiseSpec

\* A task that was sent is resolved: no transaction that is never mined holds its
\* task for ever (the give-up of tx.mjs:34).
SentIsResolved == \A k \in Keys : (task[k].state = "Sent") ~> (task[k].state # "Sent")

\* tx.mjs:3: "Nothing is re-signed for a key whose earlier tx might still land": at no
\* time two signatures of a key can both still land.
MayLand(s) == txs[s].status \in {"air", "hidden"} /\ txs[s].nonce >= latest
NothingResignedInFlight ==
  \A s, t \in Slots : s[1] = t[1] /\ s # t => ~ (MayLand(s) /\ MayLand(t))
=============================================================================
