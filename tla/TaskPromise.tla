---------------------------- MODULE TaskPromise ----------------------------
(* What a keeper may count on when it sends the transaction of a task      *)
(* through TxSender: the answer is given once, "done" means the chain ran  *)
(* the transaction, and however often the sending is retried, by the same  *)
(* process or after a crash, the chain runs it at most MaxAttempts times.  *)
(* It may still run after the keeper was told that the task has stopped.   *)
(* A stopped task of the canonical lane may be opened again: each opening  *)
(* has its own MaxAttempts.                                                *)
EXTENDS Naturals

CONSTANTS Keys,         \* the tasks of one signing account
          Reopenable,   \* the tasks of the canonical lane
          MaxAttempts   \* MAX_ATTEMPTS of lib/journal.mjs

VARIABLES answer,       \* what the keeper has been told of each task
          opened,       \* how often it was opened again
          effects       \* which attempts of which opening the chain has run

promiseVars == <<answer, opened, effects>>

PromiseInit ==
  /\ answer = [k \in Keys |-> "open"]
  /\ opened = [k \in Keys |-> 0]
  /\ effects = [k \in Keys |-> {}]

Effect(k) ==
  /\ \E e \in ((0..opened[k]) \X (1..MaxAttempts)) \ effects[k] :
        effects' = [effects EXCEPT ![k] = @ \cup {e}]
  /\ UNCHANGED <<answer, opened>>

Done(k) ==
  /\ answer[k] = "open" /\ effects[k] # {}
  /\ answer' = [answer EXCEPT ![k] = "done"]
  /\ UNCHANGED <<opened, effects>>

Stop(k) ==
  /\ answer[k] = "open"
  /\ answer' = [answer EXCEPT ![k] = "stopped"]
  /\ UNCHANGED <<opened, effects>>

Reopen(k) ==
  /\ k \in Reopenable /\ answer[k] = "stopped"
  /\ answer' = [answer EXCEPT ![k] = "open"]
  /\ opened' = [opened EXCEPT ![k] = @ + 1]
  /\ UNCHANGED effects

PromiseNext == \E k \in Keys : Effect(k) \/ Done(k) \/ Stop(k) \/ Reopen(k)

PromiseSpec == PromiseInit /\ [][PromiseNext]_promiseVars
=============================================================================
