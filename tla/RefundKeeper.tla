---------------------------- MODULE RefundKeeper ----------------------------
(* The refund keeper (keepers/v3/refund/keeper.mjs): for a failed buy in    *)
(* Returning and a sell in Proceeds it withdraws what is missing from the  *)
(* hub's float to its own wallet and credits it back for the order, which  *)
(* closes once half of what is due is back; a withdrawal whose order no    *)
(* longer needs it is paid back into the float. The three transactions go  *)
(* through TxSender, here by its promise: an answer, or none until the     *)
(* task is reconciled; each runs at most once. The record of a refund, the *)
(* day's total and the sends are separate steps; a crash may end the tick  *)
(* between any two, and the orders change meanwhile. A tick has slots for  *)
(* maxPerTick orders; one that cap or float defers takes a slot too.       *)
EXTENDS Integers, FiniteSets, TaskSender

CONSTANTS
  FailedBuys, UnpaidSells,  \* the open orders, by what they wait for
  RefundDue,      \* what each order is owed: its principal, or its proceeds
  RefundFloat,    \* the hub's float at first
  RefundPurse,    \* the keeper's own money (Arc pays gas in the same USDC)
  RefundCap,      \* dailyCap18
  MaxPerTick,     \* maxPerTick (4)
  RefundDays,     \* bound: days that pass
  RefundCrashes   \* bound: crashes between two steps

ASSUME RefundAssumption ==
  /\ RefundDue \in Nat \ {0} /\ RefundFloat \in Nat /\ RefundPurse \in Nat
  /\ RefundCap \in Nat /\ MaxPerTick \in Nat \ {0}
  /\ RefundDays \in Nat /\ RefundCrashes \in Nat
  /\ FailedBuys \cap UnpaidSells = {}

Due == RefundDue
Refundable == FailedBuys \cup UnpaidSells
RefundSteps == {"withdraw", "credit", "refill"}

VARIABLES
  open, held,       \* hub: the open orders, what was credited for each
  proceeds,         \* vault: the sells whose proceeds are still there
  float, wallet,    \* money: of the hub, of the keeper
  sent,             \* journal: each task
  rec, used,        \* journal: each refund's record, the day's total
  at,               \* the keeper's next step in its tick
  tick,             \* the orders this tick has handled, the slots they took
  signed,           \* the amount of a withdrawal in flight
  taken, credited, refilled,  \* what the transactions moved, by order
  days, crashes

chainVars == <<open, held, float, wallet, taken, credited, refilled>>
boundVars == <<days, crashes>>
refundVars == <<chainVars, proceeds, sent, signed, rec, used, at, tick, boundVars>>

BetweenSteps == [step |-> "idle"]
FreshTick == [handled |-> {}, slots |-> 0]

RefundInit ==
  /\ open \in SUBSET Refundable \ {{}}
  /\ held = [o \in Refundable |-> 0]
  /\ proceeds = UnpaidSells \cap open
  /\ float = RefundFloat /\ wallet = RefundPurse
  /\ sent = [t \in Refundable \X RefundSteps |-> Unsent]
  /\ signed = [o \in Refundable |-> 0]
  /\ rec = [o \in Refundable |-> [withdrawn |-> 0, done |-> FALSE, returned |-> FALSE]]
  /\ used = 0
  /\ at = BetweenSteps /\ tick = FreshTick
  /\ taken = [o \in Refundable |-> 0] /\ credited = taken /\ refilled = taken
  /\ days = 0 /\ crashes = 0

\* HubSettlement.isBack
half(got) == got * 2 >= Due /\ got # 0

\* refundNeed: what an open order misses; 0 when it needs nothing.
refundNeed(o) == IF o \in open /\ ~half(held[o]) THEN Due - held[o] ELSE 0

---------------------------------------------------------------------------
(* What the transactions do when they run.                                 *)

withdrawFloat(o, amount) ==
  /\ float >= amount
  /\ float' = float - amount /\ wallet' = wallet + amount
  /\ taken' = [taken EXCEPT ![o] = @ + amount]
  /\ UNCHANGED <<open, held, credited, refilled>>

\* Money for a closed order is paid out to its user.
receiveReturnFor(o, amount) ==
  /\ wallet >= amount /\ wallet' = wallet - amount
  /\ held' = [held EXCEPT ![o] = @ + (IF o \in open THEN amount ELSE 0)]
  /\ open' = IF half(held'[o]) THEN open \ {o} ELSE open
  /\ credited' = [credited EXCEPT ![o] = @ + amount]
  /\ UNCHANGED <<float, taken, refilled>>

fundFloat(o, amount) ==
  /\ wallet >= amount
  /\ wallet' = wallet - amount /\ float' = float + amount
  /\ refilled' = [refilled EXCEPT ![o] = @ + amount]
  /\ UNCHANGED <<open, held, taken, credited>>

Runs(o, step, amount) ==
  \/ step = "withdraw" /\ withdrawFloat(o, amount)
  \/ step = "credit" /\ receiveReturnFor(o, amount)
  \/ step = "refill" /\ fundFloat(o, amount)

---------------------------------------------------------------------------
(* TxSender: send, and what becomes of a transaction in flight.            *)

Becomes(o, step, s) == sent' = [sent EXCEPT ![<<o, step>>] = s]

RefundConfirms(o, step, amount) ==
  /\ \/ sent[<<o, step>>].state = "open" /\ Runs(o, step, amount)
     \/ sent[<<o, step>>].state \in {"landed", "done"} /\ UNCHANGED chainVars
  /\ Becomes(o, step, Answered(sent[<<o, step>>]))
RefundUnconfirmed(o, step) ==
  /\ \E s \in Unanswered(sent[<<o, step>>]) : Becomes(o, step, s)
  /\ sent[<<o, step>>].state \notin {"landed", "done"}
  /\ UNCHANGED chainVars

Land(o, step) ==
  /\ sent[<<o, step>>].state = "air"
  /\ Runs(o, step, IF step = "withdraw" THEN signed[o] ELSE rec[o].withdrawn)
  /\ Becomes(o, step, HasLanded(sent[<<o, step>>]))
  /\ UNCHANGED <<proceeds, signed, rec, used, at, tick, boundVars>>

\* reconcileAll, at the start of a tick.
RefundReconcile(o, step) ==
  /\ at = BetweenSteps /\ tick = FreshTick
  /\ \E s \in Reconciled(sent[<<o, step>>]) : Becomes(o, step, s)
  /\ UNCHANGED <<chainVars, proceeds, signed, rec, used, at, tick, boundVars>>

---------------------------------------------------------------------------
(* The tick: finishPending, then handle for the open orders that need a    *)
(* refund, while there are slots. The slot is counted when handle returns. *)

InNeed(o) == refundNeed(o) > 0 /\ o \notin proceeds
MayHandle(o) ==
  /\ at = BetweenSteps /\ InNeed(o)
  /\ o \notin tick.handled /\ tick.slots < MaxPerTick
TakesSlot(o) == tick' = [handled |-> tick.handled \cup {o}, slots |-> tick.slots + 1]

Resuming(o) == sent[<<o, "withdraw">>].state \in {"air", "landed", "done"}
Allowed(o) == used + refundNeed(o) <= RefundCap /\ refundNeed(o) <= float

\* Mutant: a resumed withdrawal has to fit cap and float again.
WithdrawRechecked(o) ==
  LET need == refundNeed(o)
  IN /\ MayHandle(o) /\ rec[o].withdrawn = 0
     /\ used + need <= RefundCap /\ need <= float
     /\ signed' = [signed EXCEPT ![o] = need]
     /\ \/ /\ RefundConfirms(o, "withdraw", need)
           /\ at' = [step |-> "record", order |-> o, need |-> need]
           /\ UNCHANGED tick
        \/ RefundUnconfirmed(o, "withdraw") /\ TakesSlot(o) /\ UNCHANGED at
     /\ UNCHANGED <<proceeds, rec, used, boundVars>>
\* credit, first half. A withdrawal already sent skips the checks of cap and float.
Withdraw(o) ==
  LET need == refundNeed(o)
  IN /\ MayHandle(o) /\ rec[o].withdrawn = 0
     /\ Resuming(o) \/ Allowed(o)
     /\ signed' = IF Resuming(o) THEN signed ELSE [signed EXCEPT ![o] = need]
     /\ \/ /\ RefundConfirms(o, "withdraw", need)
           /\ at' = [step |-> "record", order |-> o, need |-> need]
           /\ UNCHANGED tick
        \/ RefundUnconfirmed(o, "withdraw") /\ TakesSlot(o) /\ UNCHANGED at
     /\ UNCHANGED <<proceeds, rec, used, boundVars>>

\* The day's cap is reached or the float is short: nothing but a slot taken.
Deferred(o) ==
  /\ MayHandle(o) /\ rec[o].withdrawn = 0
  /\ ~Resuming(o) /\ ~Allowed(o)
  /\ TakesSlot(o)
  /\ UNCHANGED <<chainVars, proceeds, sent, signed, rec, used, at, boundVars>>

RecordWithdrawn(o) ==
  /\ at.step = "record" /\ at.order = o
  /\ rec' = [rec EXCEPT ![o].withdrawn = at.need]
  /\ at' = [at EXCEPT !.step = "day"]
  /\ UNCHANGED <<chainVars, proceeds, sent, signed, used, tick, boundVars>>

RecordDay(o) ==
  /\ at.step = "day" /\ at.order = o
  /\ used' = used + at.need
  /\ at' = [step |-> "credit", order |-> o]
  /\ UNCHANGED <<chainVars, proceeds, sent, signed, rec, tick, boundVars>>

\* Mutant: all that is due is credited, not what was withdrawn.
CreditBackWhole(o) ==
  /\ \/ at = [step |-> "credit", order |-> o]
     \/ MayHandle(o) /\ rec[o].withdrawn > 0
  /\ \/ /\ RefundConfirms(o, "credit", Due)
        /\ at' = [step |-> "close", order |-> o] /\ UNCHANGED tick
     \/ RefundUnconfirmed(o, "credit") /\ at' = BetweenSteps /\ TakesSlot(o)
  /\ UNCHANGED <<proceeds, signed, rec, used, boundVars>>
\* credit, second half: right after the withdrawal, or resumed by a later tick.
CreditBack(o) ==
  /\ \/ at = [step |-> "credit", order |-> o]
     \/ MayHandle(o) /\ rec[o].withdrawn > 0
  /\ \/ /\ RefundConfirms(o, "credit", rec[o].withdrawn)
        /\ at' = [step |-> "close", order |-> o] /\ UNCHANGED tick
     \/ RefundUnconfirmed(o, "credit") /\ at' = BetweenSteps /\ TakesSlot(o)
  /\ UNCHANGED <<proceeds, signed, rec, used, boundVars>>

RecordDone(o) ==
  /\ at = [step |-> "close", order |-> o]
  /\ rec' = [rec EXCEPT ![o].done = TRUE]
  /\ at' = BetweenSteps /\ TakesSlot(o)
  /\ UNCHANGED <<chainVars, proceeds, sent, signed, used, boundVars>>

\* The orders that are left need nothing, or find no slot: the next tick begins.
EndTick ==
  /\ at = BetweenSteps /\ tick # FreshTick
  /\ \A o \in Refundable : ~MayHandle(o)
  /\ tick' = FreshTick
  /\ UNCHANGED <<chainVars, proceeds, sent, signed, rec, used, at, boundVars>>

finishPending(o) ==
  /\ at = BetweenSteps /\ tick = FreshTick
  /\ rec[o].withdrawn > 0 /\ ~rec[o].done /\ ~rec[o].returned
  /\ refundNeed(o) = 0
  /\ \/ /\ RefundConfirms(o, "refill", rec[o].withdrawn)
        /\ rec' = [rec EXCEPT ![o].returned = TRUE]
     \/ RefundUnconfirmed(o, "refill") /\ UNCHANGED rec
  /\ UNCHANGED <<proceeds, signed, used, at, tick, boundVars>>

\* The process dies; or an error ends handle, and the next order's turn comes.
Crash ==
  /\ at # BetweenSteps /\ crashes < RefundCrashes
  /\ crashes' = crashes + 1
  /\ at' = BetweenSteps
  /\ tick' \in {FreshTick, [tick EXCEPT !.handled = @ \cup {at.order}]}
  /\ UNCHANGED <<chainVars, proceeds, sent, signed, rec, used, days>>

---------------------------------------------------------------------------
(* The others: bridges, Ops, the hub's users.                              *)

\* A route cost or dust comes back for the order: less than half of what is due.
Dust(o) ==
  /\ o \in open /\ ~half(held[o] + 1)
  /\ held' = [held EXCEPT ![o] = @ + 1]
  /\ UNCHANGED <<open, float, wallet, taken, credited, refilled>>
  /\ UNCHANGED <<proceeds, sent, signed, rec, used, at, tick, boundVars>>

\* Escalated and delivered, or the principal itself comes back.
CloseElsewhere(o) ==
  /\ o \in open
  /\ open' = open \ {o}
  /\ UNCHANGED <<held, float, wallet, taken, credited, refilled>>
  /\ UNCHANGED <<proceeds, sent, signed, rec, used, at, tick, boundVars>>

\* A sell's proceeds return to Arc as plain money: into the float.
ProceedsReturn(o) ==
  /\ o \in proceeds
  /\ proceeds' = proceeds \ {o}
  /\ float' = float + Due
  /\ UNCHANGED <<open, held, wallet, taken, credited, refilled>>
  /\ UNCHANGED <<sent, signed, rec, used, at, tick, boundVars>>

NewDay ==
  /\ days < RefundDays
  /\ days' = days + 1
  /\ used' = 0
  /\ UNCHANGED <<chainVars, proceeds, sent, signed, rec, at, tick, crashes>>

Handling(o) ==
  \/ Withdraw(o) \/ Deferred(o) \/ RecordWithdrawn(o) \/ RecordDay(o) \/ CreditBack(o)
  \/ RecordDone(o)

RefundNext ==
  \/ \E o \in Refundable :
       \/ Handling(o) \/ finishPending(o)
       \/ Dust(o) \/ CloseElsewhere(o) \/ ProceedsReturn(o)
       \/ \E step \in RefundSteps : RefundReconcile(o, step) \/ Land(o, step)
  \/ EndTick \/ Crash \/ NewDay

RefundSpec == RefundInit /\ [][RefundNext]_refundVars

\* The loop goes on, and every tick reads what became of each task in flight. A
\* transaction that is never mined is given up (TxJournal's SentIsResolved).
RefundTick == (\E o \in Refundable : Handling(o)) \/ EndTick
RefundFairness ==
  /\ WF_refundVars(RefundTick)
  /\ \A o \in Refundable, step \in RefundSteps : SF_refundVars(RefundReconcile(o, step))
FairRefund == RefundSpec /\ RefundFairness

---------------------------------------------------------------------------
(* Properties.                                                             *)

RefundTypeOK ==
  /\ open \subseteq Refundable /\ proceeds \subseteq UnpaidSells
  /\ float \in Nat /\ wallet \in Nat /\ used \in Nat
  /\ sent \in [Refundable \X RefundSteps -> SendType]
  /\ tick \in [handled : SUBSET Refundable, slots : Nat]
  /\ \A o \in Refundable :
       /\ held[o] \in Nat /\ signed[o] \in Nat /\ taken[o] \in Nat
       /\ credited[o] \in Nat /\ refilled[o] \in Nat
       /\ rec[o] \in [withdrawn : Nat, done : BOOLEAN, returned : BOOLEAN]

\* However its steps are cut by crashes, late confirmations and dust arriving between
\* them, an order is never credited, nor the float refilled, with more than was
\* withdrawn for it (keeper.mjs:7, "takes exactly the missing amount ... and credits it").
WithinWithdrawal ==
  \A o \in Refundable : credited[o] <= taken[o] /\ refilled[o] <= taken[o]

\* Money withdrawn for an order closes it, unless a transaction was given up or other
\* orders may take every slot of a tick: no crash and no confirmation read too late leaves
\* the order open with its money withdrawn (keeper.mjs:139, the resumed withdrawal).
RefundGivenUp(o) == \E step \in RefundSteps : sent[<<o, step>>].state = "stopped"
Crowded(o) == Cardinality({u \in Refundable \ {o} : InNeed(u)}) >= MaxPerTick
WithdrawnCloses ==
  []<>(\A o \in Refundable : taken[o] > 0 => o \notin open \/ RefundGivenUp(o) \/ Crowded(o))

=============================================================================
