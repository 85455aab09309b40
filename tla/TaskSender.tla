----------------------------- MODULE TaskSender -----------------------------
(* TxSender as the keepers' models see it: what a send of one task may     *)
(* answer. It is TxJournal without its nonces, under the promise of        *)
(* keepers/v3/lib/tx.mjs:3, that a task's transaction runs at most once:   *)
(* a call is answered "confirmed", or not yet (in flight), or failed; the  *)
(* last failed attempt stops the task for good (but for those of the       *)
(* canonical lane's executor and relayer, which are opened again, TxJournal *)
(* has them). A transaction in flight is mined (landed) before the keeper  *)
(* asks again, or has failed.                                              *)
EXTENDS Naturals

CONSTANT SendAttempts    \* MAX_ATTEMPTS of lib/journal.mjs

ASSUME SenderAssumption == SendAttempts \in Nat \ {0}

SendType ==
  [state : {"open", "air", "landed", "done", "stopped"}, attempts : 0..SendAttempts]

Unsent == [state |-> "open", attempts |-> 0]

\* markFailure
AttemptFailed(s) ==
  [state |-> IF s.attempts + 1 >= SendAttempts THEN "stopped" ELSE "open",
   attempts |-> s.attempts + 1]

InFlight(s) == [s EXCEPT !.state = "air"]
HasLanded(s) == [s EXCEPT !.state = "landed"]
Answered(s) == [s EXCEPT !.state = "done"]

\* The answers of send other than "confirmed": retry-later and the refusals count an
\* attempt, inflight keeps or makes a transaction that may still land.
Unanswered(s) ==
  CASE s.state = "open" -> {InFlight(s), AttemptFailed(s)}
    [] s.state = "air" -> {s, AttemptFailed(s)}
    [] OTHER -> {s}

\* reconcileAll: the receipt is read, or the attempt has failed.
Reconciled(s) ==
  CASE s.state = "landed" -> {Answered(s)}
    [] s.state = "air" -> {s, AttemptFailed(s)}
    [] OTHER -> {s}
=============================================================================
