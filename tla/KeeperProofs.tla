------------------------------ MODULE KeeperProofs ------------------------------
(***************************************************************************)
(* What TLAPS proves of the keepers of orders and money. RefundKeeper, for *)
(* every set of orders, amount due, cap and number of attempts, days and   *)
(* crashes: its types, and that no order is credited, nor the float        *)
(* refilled, with more than was withdrawn for it. LauncherKeeper, for any  *)
(* orders, quotes and crashes: the request on record is the one that was   *)
(* paid. CanonicalKeepers, for any number of results, any budget of a tick *)
(* and any number of crashes: the three journals stay behind the chains.   *)
(* TxJournal, for every set of keys, every number of attempts, every run   *)
(* of crashes and however often the canonical lane opens its tasks again:  *)
(* its types and bounds, that it counts every signature of every opening,  *)
(* and that the sender implements TaskPromise.                             *)
(* What rests on fairness is left to TLC.                                  *)
(***************************************************************************)
EXTENDS RefundKeeper, LauncherKeeper, CanonicalKeepers, TxJournal,
        TLAPS, SequenceTheorems

-----------------------------------------------------------------------------
(* TaskSender: what becomes of the task of one transaction.                *)

\* A task that may still be sent has an attempt left.
SendOK(s) == s \in SendType /\ (s.state \in {"open", "air"} => s.attempts < SendAttempts)

\* Whatever becomes of a task, it keeps its type, and it runs only by landing or by
\* an answer.
LEMMA SendSteps ==
  ASSUME NEW s \in SendType, SendOK(s)
  PROVE  /\ SendOK(Answered(s)) /\ Answered(s).state = "done"
         /\ SendOK(HasLanded(s)) /\ HasLanded(s).state = "landed"
         /\ \A u \in Unanswered(s) \cup Reconciled(s) :
              /\ SendOK(u)
              /\ u.state \in {"landed", "done"} => s.state \in {"landed", "done"}
              /\ s.state \in {"landed", "done"} => u.state \in {"landed", "done"}
         /\ \A u \in Reconciled(s) :
              u.state = "air" => s.state = "air"
         /\ \A u \in Unanswered(s) :
              u.state = "air" => s.state \in {"open", "air"}
<1>1. SendAttempts \in Nat \ {0}  BY SenderAssumption
<1>2. s.attempts \in 0..SendAttempts /\ s.attempts \in Nat
      /\ s.state \in {"open", "air", "landed", "done", "stopped"}
      /\ s = [state |-> s.state, attempts |-> s.attempts]
  BY <1>1 DEF SendType
<1>3. SendOK(Answered(s)) /\ Answered(s).state = "done"
      /\ SendOK(HasLanded(s)) /\ HasLanded(s).state = "landed"
  BY <1>1, <1>2 DEF SendOK, SendType, Answered, HasLanded
<1>4. ASSUME s.state \in {"open", "air"}
      PROVE  /\ SendOK(InFlight(s)) /\ InFlight(s).state = "air"
             /\ SendOK(AttemptFailed(s)) /\ AttemptFailed(s).state \in {"open", "stopped"}
  BY <1>1, <1>2, <1>4 DEF SendOK, SendType, InFlight, AttemptFailed
<1>5. /\ Unanswered(s) \subseteq {s} \cup
           (IF s.state \in {"open", "air"} THEN {InFlight(s), AttemptFailed(s)} ELSE {})
      /\ Reconciled(s) \subseteq {s} \cup
           (IF s.state = "landed" THEN {Answered(s)} ELSE {}) \cup
           (IF s.state = "air" THEN {AttemptFailed(s)} ELSE {})
  BY <1>2 DEF Unanswered, Reconciled
<1> QED  BY <1>2, <1>3, <1>4, <1>5

-----------------------------------------------------------------------------
(* RefundKeeper: the inductive invariant.                                  *)

RefundTasks == Refundable \X RefundSteps
RecType == [withdrawn : Nat, done : BOOLEAN, returned : BOOLEAN]
PlaceType ==
  {BetweenSteps}
    \cup [step : {"record", "day"}, order : Refundable, need : Nat]
    \cup [step : {"credit", "close"}, order : Refundable]

\* A task that may still be sent has an attempt left.
SendsOK == sent \in [RefundTasks -> SendType] /\ \A t \in RefundTasks : SendOK(sent[t])

MoneyOK ==
  /\ open \subseteq Refundable /\ proceeds \subseteq UnpaidSells
  /\ float \in Nat /\ wallet \in Nat /\ used \in Nat
  /\ held \in [Refundable -> Nat] /\ signed \in [Refundable -> Nat]
  /\ taken \in [Refundable -> Nat] /\ credited \in [Refundable -> Nat]
  /\ refilled \in [Refundable -> Nat]
  /\ rec \in [Refundable -> RecType]
  /\ at \in PlaceType

\* Only a transaction that ran has moved money, and each runs once.
HasRun(o, step) == sent[<<o, step>>].state \in {"landed", "done"}
MovesByRunning ==
  \A o \in Refundable :
    /\ ~HasRun(o, "credit") => credited[o] = 0
    /\ ~HasRun(o, "refill") => refilled[o] = 0
    /\ HasRun(o, "withdraw") => signed[o] <= taken[o]

\* A withdrawal that was signed covers what the order misses now: what an order holds
\* only grows. So a resumed withdrawal records no more than was taken.
SignedCovers ==
  \A o \in Refundable :
    sent[<<o, "withdraw">>].state \in {"air", "landed", "done"} => Due <= held[o] + signed[o]

\* What is recorded, or about to be, was taken.
RecordedIsTaken ==
  /\ \A o \in Refundable : rec[o].withdrawn <= taken[o]
  /\ at.step = "record" => at.need <= taken[at.order]

RefundInv ==
  MoneyOK /\ SendsOK /\ MovesByRunning /\ SignedCovers /\ RecordedIsTaken /\ WithinWithdrawal

-----------------------------------------------------------------------------
(* The steps.                                                              *)

LEMMA InvInit == RefundInit => RefundInv
<1> SUFFICES ASSUME RefundInit PROVE RefundInv
  OBVIOUS
<1>1. MoneyOK
  BY RefundAssumption DEF RefundInit, MoneyOK, RecType, PlaceType, Refundable
<1>2. SendsOK
  BY SenderAssumption DEF RefundInit, SendsOK, SendOK, SendType, Unsent, RefundTasks
<1>3. \A t \in RefundTasks : sent[t].state = "open"
  BY DEF RefundInit, Unsent, RefundTasks
<1>4. \A o \in Refundable : taken[o] = 0 /\ credited[o] = 0 /\ refilled[o] = 0 /\ rec[o].withdrawn = 0
  BY DEF RefundInit
<1>5. at.step # "record"
  BY DEF RefundInit, BetweenSteps
<1>6. \A o \in Refundable, step \in RefundSteps : sent[<<o, step>>].state = "open"
  BY <1>3 DEF RefundTasks
<1>7. MovesByRunning /\ SignedCovers
  BY <1>4, <1>6 DEF MovesByRunning, SignedCovers, HasRun, RefundSteps
<1>8. RecordedIsTaken /\ WithinWithdrawal
  BY <1>4, <1>5 DEF RecordedIsTaken, WithinWithdrawal
<1> QED  BY <1>1, <1>2, <1>7, <1>8 DEF RefundInv

\* A step that moves no money and answers no send.
LEMMA QuietKeeps ==
  ASSUME RefundInv,
         open' \subseteq Refundable, proceeds' \subseteq UnpaidSells,
         float' \in Nat, used' \in Nat,
         held' \in [Refundable -> Nat], \A o \in Refundable : held[o] <= held'[o],
         rec' \in [Refundable -> RecType], \A o \in Refundable : rec'[o].withdrawn <= taken[o],
         at' \in PlaceType, at'.step = "record" => at' = at,
         UNCHANGED <<wallet, taken, credited, refilled, sent, signed>>
  PROVE  RefundInv'
<1>1. MoneyOK'  BY DEF RefundInv, MoneyOK
<1>2. SendsOK'  BY DEF RefundInv, SendsOK
<1>3. MovesByRunning'  BY DEF RefundInv, MovesByRunning, HasRun
<1>4. SignedCovers'
  <2>1. \A o \in Refundable : held[o] \in Nat /\ held'[o] \in Nat /\ signed[o] \in Nat /\ Due \in Nat
    BY RefundAssumption DEF RefundInv, MoneyOK, Due
  <2> HIDE DEF Due
  <2> SUFFICES ASSUME NEW o \in Refundable, sent[<<o, "withdraw">>].state \in {"air", "landed", "done"}
               PROVE  Due <= held'[o] + signed[o]
    BY DEF SignedCovers, Due
  <2>2. Due <= held[o] + signed[o]  BY DEF RefundInv, SignedCovers
  <2> QED  BY <2>1, <2>2
<1>5. RecordedIsTaken' /\ WithinWithdrawal'
  BY DEF RefundInv, RecordedIsTaken, WithinWithdrawal
<1> QED  BY <1>1, <1>2, <1>3, <1>4, <1>5 DEF RefundInv

\* What a transaction does when it runs.
LEMMA RunMoves ==
  ASSUME RefundInv, NEW o \in Refundable, NEW step \in RefundSteps, NEW amount \in Nat,
         Runs(o, step, amount)
  PROVE  /\ open' \subseteq Refundable /\ float' \in Nat /\ wallet' \in Nat
         /\ held' \in [Refundable -> Nat] /\ \A u \in Refundable : held[u] <= held'[u]
         /\ taken' = IF step = "withdraw" THEN [taken EXCEPT ![o] = @ + amount] ELSE taken
         /\ credited' = IF step = "credit" THEN [credited EXCEPT ![o] = @ + amount] ELSE credited
         /\ refilled' = IF step = "refill" THEN [refilled EXCEPT ![o] = @ + amount] ELSE refilled
<1>1. /\ open \subseteq Refundable /\ float \in Nat /\ wallet \in Nat
      /\ held \in [Refundable -> Nat]
  BY DEF RefundInv, MoneyOK
<1>2. CASE step = "withdraw" /\ withdrawFloat(o, amount)
  BY <1>1, <1>2 DEF withdrawFloat
<1>3. CASE step = "refill" /\ fundFloat(o, amount)
  BY <1>1, <1>3 DEF fundFloat
<1>4. CASE step = "credit" /\ receiveReturnFor(o, amount)
  <2>1. wallet' \in Nat /\ float' = float /\ taken' = taken /\ refilled' = refilled
        /\ credited' = [credited EXCEPT ![o] = @ + amount]
        /\ held' = [held EXCEPT ![o] = @ + (IF o \in open THEN amount ELSE 0)]
        /\ open' \subseteq open
    BY <1>1, <1>4 DEF receiveReturnFor
  <2>2. held' \in [Refundable -> Nat] /\ \A u \in Refundable : held[u] <= held'[u]
    BY <1>1, <2>1
  <2> QED  BY <1>1, <1>4, <2>1, <2>2
<1> QED  BY <1>2, <1>3, <1>4 DEF Runs

\* A transaction that runs now, for its task, with an amount that is justified: a
\* withdrawal's is what was signed, another's is no more than what was withdrawn.
LEMMA RunKeeps ==
  ASSUME RefundInv, NEW o \in Refundable, NEW step \in RefundSteps, NEW amount \in Nat,
         ~HasRun(o, step), Runs(o, step, amount),
         NEW s \in SendType, SendOK(s), s.state \in {"landed", "done"},
         sent' = [sent EXCEPT ![<<o, step>>] = s],
         signed' \in [Refundable -> Nat], \A u \in Refundable : u # o => signed'[u] = signed[u],
         IF step = "withdraw" THEN signed'[o] = amount /\ Due <= held'[o] + amount
                              ELSE signed' = signed /\ amount <= taken[o],
         rec' \in [Refundable -> RecType],
         \A u \in Refundable : rec'[u].withdrawn = rec[u].withdrawn,
         at' \in PlaceType,
         at'.step = "record" =>
           \/ at' = at
           \/ at'.order = o /\ step = "withdraw" /\ at'.need <= amount,
         proceeds' = proceeds, used' = used
  PROVE  RefundInv'
<1> USE DEF HasRun
<1>1. /\ open' \subseteq Refundable /\ float' \in Nat /\ wallet' \in Nat
      /\ held' \in [Refundable -> Nat] /\ \A u \in Refundable : held[u] <= held'[u]
      /\ taken' = IF step = "withdraw" THEN [taken EXCEPT ![o] = @ + amount] ELSE taken
      /\ credited' = IF step = "credit" THEN [credited EXCEPT ![o] = @ + amount] ELSE credited
      /\ refilled' = IF step = "refill" THEN [refilled EXCEPT ![o] = @ + amount] ELSE refilled
  BY RunMoves
<1>2. /\ taken \in [Refundable -> Nat] /\ credited \in [Refundable -> Nat]
      /\ refilled \in [Refundable -> Nat] /\ signed \in [Refundable -> Nat]
      /\ held \in [Refundable -> Nat] /\ rec \in [Refundable -> RecType] /\ Due \in Nat
  BY RefundAssumption DEF RefundInv, MoneyOK, Due
<1>3. /\ taken' \in [Refundable -> Nat] /\ credited' \in [Refundable -> Nat]
      /\ refilled' \in [Refundable -> Nat]
      /\ \A u \in Refundable : taken[u] <= taken'[u]
      /\ \A u \in Refundable : u # o =>
           taken'[u] = taken[u] /\ credited'[u] = credited[u] /\ refilled'[u] = refilled[u]
      /\ step = "withdraw" => taken'[o] = taken[o] + amount
      /\ step # "withdraw" => taken'[o] = taken[o]
      /\ step = "credit" => credited'[o] = credited[o] + amount
      /\ step # "credit" => credited'[o] = credited[o]
      /\ step = "refill" => refilled'[o] = refilled[o] + amount
      /\ step # "refill" => refilled'[o] = refilled[o]
  BY <1>1, <1>2 DEF RefundSteps
<1>4. MoneyOK'  BY <1>1, <1>3 DEF RefundInv, MoneyOK
<1>5. /\ sent \in [RefundTasks -> SendType] /\ <<o, step>> \in RefundTasks
      /\ sent'[<<o, step>>] = s
      /\ \A u \in Refundable, t \in RefundSteps : <<u, t>> # <<o, step>> => sent'[<<u, t>>] = sent[<<u, t>>]
      /\ sent' \in [RefundTasks -> SendType]
  BY DEF RefundInv, SendsOK, RefundTasks
<1>6. SendsOK'
  BY <1>5 DEF RefundInv, SendsOK
<1>7. MovesByRunning'
  <2> SUFFICES ASSUME NEW u \in Refundable
               PROVE  /\ sent'[<<u, "credit">>].state \notin {"landed", "done"} => credited'[u] = 0
                      /\ sent'[<<u, "refill">>].state \notin {"landed", "done"} => refilled'[u] = 0
                      /\ sent'[<<u, "withdraw">>].state \in {"landed", "done"} => signed'[u] <= taken'[u]
    BY DEF MovesByRunning
  <2>1. /\ ~HasRun(u, "credit") => credited[u] = 0
        /\ ~HasRun(u, "refill") => refilled[u] = 0
        /\ HasRun(u, "withdraw") => signed[u] <= taken[u]
    BY DEF RefundInv, MovesByRunning
  <2>2. CASE u # o
    BY <1>3, <1>5, <2>1, <2>2 DEF RefundSteps
  <2>3. CASE u = o
    <3>1. taken[o] \in Nat /\ taken'[o] \in Nat /\ signed[o] \in Nat
      BY <1>2, <1>3
    <3>2. \A t \in RefundSteps : t # step => sent'[<<o, t>>] = sent[<<o, t>>]
      BY <1>5
    <3>3. {"withdraw", "credit", "refill"} = RefundSteps  BY DEF RefundSteps
    <3>4. sent'[<<o, "credit">>].state \notin {"landed", "done"} => credited'[o] = 0
      BY <1>3, <1>5, <2>1, <2>3, <3>2, <3>3
    <3>5. sent'[<<o, "refill">>].state \notin {"landed", "done"} => refilled'[o] = 0
      BY <1>3, <1>5, <2>1, <2>3, <3>2, <3>3
    <3>6. sent'[<<o, "withdraw">>].state \in {"landed", "done"} => signed'[o] <= taken'[o]
      <4>1. CASE step = "withdraw"  BY <1>3, <3>1, <4>1
      <4>2. CASE step # "withdraw"
        <5>1. sent'[<<o, "withdraw">>] = sent[<<o, "withdraw">>]  BY <3>2, <3>3, <4>2
        <5> QED  BY <1>3, <2>1, <2>3, <3>1, <4>2, <5>1
      <4> QED  BY <4>1, <4>2
    <3> QED  BY <2>3, <3>4, <3>5, <3>6
  <2> QED  BY <2>2, <2>3
<1>8. SignedCovers'
  <2> HIDE DEF Due
  <2> SUFFICES ASSUME NEW u \in Refundable,
                      sent'[<<u, "withdraw">>].state \in {"air", "landed", "done"}
               PROVE  Due <= held'[u] + signed'[u]
    BY DEF SignedCovers, Due
  <2>1. held[u] \in Nat /\ held'[u] \in Nat /\ signed[u] \in Nat /\ held[u] <= held'[u]
    BY <1>1, <1>2
  <2>2. CASE <<u, "withdraw">> = <<o, step>>
    BY <2>2
  <2>3. CASE <<u, "withdraw">> # <<o, step>>
    <3>1. sent'[<<u, "withdraw">>] = sent[<<u, "withdraw">>]  BY <1>5, <2>3 DEF RefundSteps
    <3>2. Due <= held[u] + signed[u]  BY <3>1 DEF RefundInv, SignedCovers
    <3>3. signed'[u] = signed[u]  BY <2>3
    <3> QED  BY <1>2, <2>1, <3>2, <3>3
  <2> QED  BY <2>2, <2>3
<1>9. RecordedIsTaken'
  <2>1. \A u \in Refundable :
          /\ rec'[u].withdrawn = rec[u].withdrawn /\ rec[u].withdrawn \in Nat
          /\ rec[u].withdrawn <= taken[u] /\ taken[u] \in Nat /\ taken'[u] \in Nat
    BY <1>2, <1>3 DEF RefundInv, RecordedIsTaken, RecType
  <2>2. \A u \in Refundable : rec'[u].withdrawn <= taken'[u]
    BY <1>3, <2>1
  <2>3. ASSUME at'.step = "record" PROVE at'.need <= taken'[at'.order]
    <3>1. at'.order \in Refundable /\ at'.need \in Nat
      BY <2>3 DEF PlaceType, BetweenSteps
    <3>2. CASE at' = at
      <4>1. at.need <= taken[at.order]  BY <2>3, <3>2 DEF RefundInv, RecordedIsTaken
      <4> QED  BY <1>2, <1>3, <3>1, <3>2, <4>1
    <3>3. CASE at'.order = o /\ step = "withdraw" /\ at'.need <= amount
      BY <1>2, <1>3, <3>1, <3>3
    <3> QED  BY <2>3, <3>2, <3>3
  <2> QED  BY <2>2, <2>3 DEF RecordedIsTaken
<1>10. WithinWithdrawal'
  <2> SUFFICES ASSUME NEW u \in Refundable
               PROVE  credited'[u] <= taken'[u] /\ refilled'[u] <= taken'[u]
    BY DEF WithinWithdrawal
  <2>1. /\ taken[u] \in Nat /\ taken'[u] \in Nat /\ credited[u] \in Nat /\ refilled[u] \in Nat
        /\ taken[u] <= taken'[u] /\ credited[u] <= taken[u] /\ refilled[u] <= taken[u]
    BY <1>2, <1>3 DEF RefundInv, WithinWithdrawal
  <2>2. (step = "credit" => credited[o] = 0) /\ (step = "refill" => refilled[o] = 0)
    BY DEF RefundInv, MovesByRunning
  <2> QED  BY <1>3, <2>1, <2>2
<1> QED  BY <1>4, <1>6, <1>7, <1>8, <1>9, <1>10 DEF RefundInv

\* A task's state that changes while nothing runs.
LEMMA SendKeeps ==
  ASSUME RefundInv, NEW o \in Refundable, NEW step \in RefundSteps,
         NEW s \in SendType, SendOK(s),
         sent' = [sent EXCEPT ![<<o, step>>] = s],
         s.state \in {"landed", "done"} <=> HasRun(o, step),
         signed' \in [Refundable -> Nat], \A u \in Refundable : u # o => signed'[u] = signed[u],
         step # "withdraw" => signed' = signed,
         step = "withdraw" /\ HasRun(o, step) => signed' = signed,
         step = "withdraw" /\ s.state = "air" => Due <= held[o] + signed'[o],
         rec' \in [Refundable -> RecType],
         \A u \in Refundable : rec'[u].withdrawn = rec[u].withdrawn,
         at' \in PlaceType,
         at'.step = "record" =>
           \/ at' = at
           \/ at'.order = o /\ at'.need <= taken[o],
         UNCHANGED <<chainVars, proceeds, used>>
  PROVE  RefundInv'
<1> USE DEF HasRun
<1>1. UNCHANGED <<open, held, float, wallet, taken, credited, refilled>>  BY DEF chainVars
<1>2. MoneyOK'  BY <1>1 DEF RefundInv, MoneyOK
<1>5. /\ sent \in [RefundTasks -> SendType] /\ <<o, step>> \in RefundTasks
      /\ sent'[<<o, step>>] = s
      /\ \A u \in Refundable, t \in RefundSteps : <<u, t>> # <<o, step>> => sent'[<<u, t>>] = sent[<<u, t>>]
      /\ sent' \in [RefundTasks -> SendType]
  BY DEF RefundInv, SendsOK, RefundTasks
<1>6. SendsOK'  BY <1>5 DEF RefundInv, SendsOK
<1>7. MovesByRunning'
  <2> SUFFICES ASSUME NEW u \in Refundable
               PROVE  /\ sent'[<<u, "credit">>].state \notin {"landed", "done"} => credited[u] = 0
                      /\ sent'[<<u, "refill">>].state \notin {"landed", "done"} => refilled[u] = 0
                      /\ sent'[<<u, "withdraw">>].state \in {"landed", "done"} => signed'[u] <= taken[u]
    BY <1>1 DEF MovesByRunning
  <2>1. /\ ~HasRun(u, "credit") => credited[u] = 0
        /\ ~HasRun(u, "refill") => refilled[u] = 0
        /\ HasRun(u, "withdraw") => signed[u] <= taken[u]
    BY DEF RefundInv, MovesByRunning
  <2> QED  BY <1>5, <2>1 DEF RefundSteps
<1>8. SignedCovers'
  <2> SUFFICES ASSUME NEW u \in Refundable,
                      sent'[<<u, "withdraw">>].state \in {"air", "landed", "done"}
               PROVE  Due <= held[u] + signed'[u]
    BY <1>1 DEF SignedCovers, Due
  <2>1. sent[<<u, "withdraw">>].state \in {"air", "landed", "done"} => Due <= held[u] + signed[u]
    BY DEF RefundInv, SignedCovers
  <2> HIDE DEF Due
  <2>2. CASE u # o  BY <1>5, <2>1, <2>2 DEF RefundSteps
  <2>3. CASE u = o /\ step # "withdraw"  BY <1>5, <2>1, <2>3 DEF RefundSteps
  <2>4. CASE u = o /\ step = "withdraw"  BY <1>5, <2>1, <2>4
  <2> QED  BY <2>2, <2>3, <2>4
<1>9. RecordedIsTaken'
  BY <1>1 DEF RefundInv, RecordedIsTaken
<1>10. WithinWithdrawal'
  BY <1>1 DEF RefundInv, WithinWithdrawal
<1> QED  BY <1>2, <1>6, <1>7, <1>8, <1>9, <1>10 DEF RefundInv

-----------------------------------------------------------------------------
(* The actions.                                                            *)

\* The facts every action starts from.
LEMMA Facts ==
  ASSUME RefundInv, NEW o \in Refundable, NEW step \in RefundSteps
  PROVE  /\ SendOK(sent[<<o, step>>]) /\ sent[<<o, step>>] \in SendType
         /\ Due \in Nat /\ held[o] \in Nat /\ signed[o] \in Nat /\ taken[o] \in Nat
         /\ rec[o] \in RecType /\ rec[o].withdrawn \in Nat
         /\ rec[o].withdrawn <= taken[o]
         /\ refundNeed(o) > 0 => refundNeed(o) \in Nat
         /\ refundNeed(o) > 0 => refundNeed(o) + held[o] = Due
<1>1. SendOK(sent[<<o, step>>]) /\ sent[<<o, step>>] \in SendType
  BY DEF RefundInv, SendsOK, RefundTasks
<1>2. /\ Due \in Nat /\ held[o] \in Nat /\ signed[o] \in Nat /\ taken[o] \in Nat
      /\ rec[o] \in RecType /\ rec[o].withdrawn \in Nat /\ rec[o].withdrawn <= taken[o]
  BY RefundAssumption DEF RefundInv, MoneyOK, RecType, Due, RecordedIsTaken
<1> HIDE DEF Due
<1>3. /\ refundNeed(o) > 0 => refundNeed(o) \in Nat
      /\ refundNeed(o) > 0 => refundNeed(o) + held[o] = Due
  BY <1>2 DEF refundNeed
<1> QED  BY <1>1, <1>2, <1>3

LEMMA WithdrawKeeps ==
  ASSUME RefundInv, NEW o \in Refundable, Withdraw(o)
  PROVE  RefundInv'
<1> DEFINE s == sent[<<o, "withdraw">>]
           need == refundNeed(o)
<1> USE DEF HasRun
<1>1. /\ need \in Nat /\ need > 0 /\ need + held[o] = Due /\ Due \in Nat
      /\ SendOK(s) /\ s \in SendType
      /\ held[o] \in Nat /\ signed[o] \in Nat /\ taken[o] \in Nat
  BY Facts DEF Withdraw, MayHandle, InNeed, RefundSteps
<1>2. /\ proceeds' = proceeds /\ rec' = rec /\ used' = used
      /\ signed' = IF s.state \in {"air", "landed", "done"} THEN signed
                   ELSE [signed EXCEPT ![o] = need]
      /\ \/ RefundConfirms(o, "withdraw", need)
              /\ at' = [step |-> "record", order |-> o, need |-> need]
         \/ RefundUnconfirmed(o, "withdraw") /\ at' = at
  BY DEF Withdraw, Resuming
<1>3. /\ signed \in [Refundable -> Nat] /\ rec \in [Refundable -> RecType] /\ at \in PlaceType
      /\ signed' \in [Refundable -> Nat]
      /\ \A u \in Refundable : u # o => signed'[u] = signed[u]
      /\ s.state \notin {"air", "landed", "done"} => signed'[o] = need
  BY <1>1, <1>2 DEF RefundInv, MoneyOK
<1>4. [step |-> "record", order |-> o, need |-> need] \in PlaceType
  BY <1>1 DEF PlaceType
<1>5. "withdraw" \in RefundSteps  BY DEF RefundSteps
<1>6. SendOK(Answered(s)) /\ Answered(s) \in SendType /\ Answered(s).state = "done"
  BY <1>1, SendSteps DEF SendOK
<1>7. CASE /\ s.state = "open" /\ RefundConfirms(o, "withdraw", need)
           /\ at' = [step |-> "record", order |-> o, need |-> need]
  <2>1. Runs(o, "withdraw", need) /\ sent' = [sent EXCEPT ![<<o, "withdraw">>] = Answered(s)]
        /\ at' = [step |-> "record", order |-> o, need |-> need]
    BY <1>7 DEF RefundConfirms, Becomes
  <2>2. \A u \in Refundable : held[u] <= held'[u] /\ held'[u] \in Nat
    BY <1>1, <1>5, <2>1, RunMoves
  <2>3. Due <= held'[o] + need
    BY <1>1, <2>2
  <2> HIDE DEF s, need, Due
  <2>4. at'.step = "record" => at'.order = o /\ at'.need <= need
    BY <1>1, <2>1
  <2>5. ~HasRun(o, "withdraw")
    BY <1>7 DEF s
  <2>6. signed'[o] = need
    BY <1>3, <1>7
  <2> QED
    BY <1>1, <1>2, <1>3, <1>4, <1>5, <1>6, <2>1, <2>3, <2>4, <2>5, <2>6, RunKeeps DEF s, Due
<1>8. CASE /\ s.state \in {"landed", "done"} /\ RefundConfirms(o, "withdraw", need)
           /\ at' = [step |-> "record", order |-> o, need |-> need]
  <2>1. sent' = [sent EXCEPT ![<<o, "withdraw">>] = Answered(s)] /\ UNCHANGED chainVars
    BY <1>8 DEF RefundConfirms, Becomes
  <2>2. signed' = signed  BY <1>2, <1>8
  <2>3. at' = [step |-> "record", order |-> o, need |-> need]
    BY <1>8
  <2>4. need <= taken[o]
    <3>1. signed[o] <= taken[o]  BY <1>8 DEF RefundInv, MovesByRunning
    <3>2. Due <= held[o] + signed[o]  BY <1>8 DEF RefundInv, SignedCovers
    <3> HIDE DEF Due, need
    <3> QED  BY <1>1, <3>1, <3>2
  <2> HIDE DEF need, Due
  <2>5. at'.step = "record" => at'.order = o /\ at'.need <= taken[o]
    BY <2>3, <2>4
  <2>6. HasRun(o, "withdraw") /\ Answered(s).state \in {"landed", "done"}
    BY <1>6, <1>8 DEF s
  <2> HIDE DEF s
  <2> QED
    BY <1>1, <1>2, <1>3, <1>4, <1>5, <1>6, <2>1, <2>2, <2>3, <2>5, <2>6, SendKeeps DEF s
<1>9. CASE RefundUnconfirmed(o, "withdraw") /\ at' = at
  <2>1. PICK u \in Unanswered(s) : sent' = [sent EXCEPT ![<<o, "withdraw">>] = u]
    BY <1>9 DEF RefundUnconfirmed, Becomes
  <2>2. s.state \notin {"landed", "done"} /\ UNCHANGED chainVars
    BY <1>9 DEF RefundUnconfirmed
  <2>3. /\ SendOK(u) /\ u \in SendType /\ u.state \notin {"landed", "done"}
        /\ u.state = "air" => s.state \in {"open", "air"}
    BY <1>1, <2>1, <2>2, SendSteps DEF SendOK
  <2>4. u.state = "air" => Due <= held[o] + signed'[o]
    <3>1. CASE s.state = "air"
      BY <1>2, <3>1 DEF RefundInv, SignedCovers
    <3>2. CASE s.state = "open"
      <4>1. signed'[o] = need  BY <1>3, <3>2
      <4> HIDE DEF need, Due
      <4> QED  BY <1>1, <4>1
    <3> QED  BY <2>3, <3>1, <3>2
  <2>5. ~HasRun(o, "withdraw")  BY <2>2
  <2> HIDE DEF s, need, Due
  <2> QED
    BY <1>2, <1>3, <1>5, <1>9, <2>1, <2>2, <2>3, <2>4, <2>5, SendKeeps DEF s, Due
<1> QED  BY <1>2, <1>7, <1>8, <1>9 DEF RefundConfirms

\* A credit or a refill, of what was withdrawn, and the place or the record after it.
LEMMA PayBackKeeps ==
  ASSUME RefundInv, NEW o \in Refundable, NEW step \in {"credit", "refill"},
         \/ RefundConfirms(o, step, rec[o].withdrawn)
         \/ RefundUnconfirmed(o, step),
         rec' \in [Refundable -> RecType],
         \A u \in Refundable : rec'[u].withdrawn = rec[u].withdrawn,
         at' \in PlaceType, at'.step = "record" => at' = at,
         UNCHANGED <<proceeds, signed, used>>
  PROVE  RefundInv'
<1> DEFINE s == sent[<<o, step>>]
           amount == rec[o].withdrawn
<1> USE DEF HasRun
<1>1. /\ SendOK(s) /\ s \in SendType /\ amount \in Nat /\ amount <= taken[o]
      /\ step \in RefundSteps /\ step # "withdraw"
  BY Facts DEF RefundSteps
<1>2. SendOK(Answered(s)) /\ Answered(s) \in SendType /\ Answered(s).state = "done"
  BY <1>1, SendSteps DEF SendOK
<1>3. signed' \in [Refundable -> Nat] /\ signed' = signed
  BY DEF RefundInv, MoneyOK
<1>4. CASE s.state = "open" /\ RefundConfirms(o, step, amount)
  <2>1. Runs(o, step, amount) /\ sent' = [sent EXCEPT ![<<o, step>>] = Answered(s)]
    BY <1>4 DEF RefundConfirms, Becomes
  <2>2. ~HasRun(o, step)  BY <1>4
  <2> HIDE DEF s, amount
  <2> QED  BY <1>1, <1>2, <1>3, <2>1, <2>2, RunKeeps DEF s
<1>5. CASE s.state \in {"landed", "done"} /\ RefundConfirms(o, step, amount)
  <2>1. UNCHANGED chainVars /\ sent' = [sent EXCEPT ![<<o, step>>] = Answered(s)]
    BY <1>5 DEF RefundConfirms, Becomes
  <2>2. HasRun(o, step)  BY <1>5
  <2> HIDE DEF s, amount
  <2> QED  BY <1>1, <1>2, <1>3, <2>1, <2>2, SendKeeps DEF s
<1>6. CASE RefundUnconfirmed(o, step)
  <2>1. PICK u \in Unanswered(s) : sent' = [sent EXCEPT ![<<o, step>>] = u]
    BY <1>6 DEF RefundUnconfirmed, Becomes
  <2>2. s.state \notin {"landed", "done"} /\ UNCHANGED chainVars
    BY <1>6 DEF RefundUnconfirmed
  <2>3. SendOK(u) /\ u \in SendType /\ u.state \notin {"landed", "done"}
    BY <1>1, <2>1, <2>2, SendSteps DEF SendOK
  <2>4. ~HasRun(o, step)  BY <2>2
  <2> HIDE DEF s, amount
  <2> QED  BY <1>1, <1>3, <2>1, <2>2, <2>3, <2>4, SendKeeps DEF s
<1> QED  BY <1>4, <1>5, <1>6 DEF RefundConfirms

LEMMA LandKeeps ==
  ASSUME RefundInv, NEW o \in Refundable, NEW step \in RefundSteps, Land(o, step)
  PROVE  RefundInv'
<1> DEFINE s == sent[<<o, step>>]
           amount == IF step = "withdraw" THEN signed[o] ELSE rec[o].withdrawn
<1>1. /\ SendOK(s) /\ s \in SendType /\ amount \in Nat /\ signed[o] \in Nat
      /\ rec[o].withdrawn \in Nat /\ rec[o].withdrawn <= taken[o]
      /\ Due \in Nat /\ held[o] \in Nat
  BY Facts
<1>2. SendOK(HasLanded(s)) /\ HasLanded(s) \in SendType /\ HasLanded(s).state = "landed"
  BY <1>1, SendSteps DEF SendOK
<1>3. /\ s.state = "air" /\ Runs(o, step, amount)
      /\ sent' = [sent EXCEPT ![<<o, step>>] = HasLanded(s)]
      /\ UNCHANGED <<proceeds, signed, rec, used, at>>
  BY DEF Land, Becomes
<1>4. ~HasRun(o, step)  BY <1>3 DEF HasRun
<1>5. signed' \in [Refundable -> Nat] /\ rec' \in [Refundable -> RecType] /\ at' \in PlaceType
  BY <1>3 DEF RefundInv, MoneyOK
<1> HIDE DEF s, amount
<1>6. step = "withdraw" => signed'[o] = amount /\ Due <= held'[o] + amount
  <2> SUFFICES ASSUME step = "withdraw" PROVE Due <= held'[o] + signed[o]
    BY <1>3 DEF amount
  <2>1. held[o] <= held'[o] /\ held'[o] \in Nat  BY <1>1, <1>3, RunMoves
  <2>2. Due <= held[o] + signed[o]  BY <1>3 DEF RefundInv, SignedCovers, s
  <2> HIDE DEF Due
  <2> QED  BY <1>1, <2>1, <2>2
<1>7. step # "withdraw" => signed' = signed /\ amount <= taken[o]
  BY <1>1, <1>3 DEF amount
<1> HIDE DEF Due
<1> QED
  BY <1>1, <1>2, <1>3, <1>4, <1>5, <1>6, <1>7, RunKeeps DEF s, Due

LEMMA ReconcileKeeps ==
  ASSUME RefundInv, NEW o \in Refundable, NEW step \in RefundSteps, RefundReconcile(o, step)
  PROVE  RefundInv'
<1> DEFINE s == sent[<<o, step>>]
<1>1. SendOK(s) /\ s \in SendType  BY Facts
<1>2. PICK u \in Reconciled(s) : sent' = [sent EXCEPT ![<<o, step>>] = u]
  BY DEF RefundReconcile, Becomes
<1>3. UNCHANGED <<chainVars, proceeds, signed, rec, used, at>>
  BY DEF RefundReconcile
<1>4. /\ SendOK(u) /\ u \in SendType
      /\ u.state \in {"landed", "done"} <=> s.state \in {"landed", "done"}
      /\ u.state = "air" => s.state = "air"
  BY <1>1, SendSteps DEF SendOK
<1>5. u.state = "air" /\ step = "withdraw" => Due <= held[o] + signed'[o]
  BY <1>3, <1>4 DEF RefundInv, SignedCovers
<1>6. signed' \in [Refundable -> Nat] /\ rec' \in [Refundable -> RecType] /\ at' \in PlaceType
  BY <1>3 DEF RefundInv, MoneyOK
<1>7. u.state \in {"landed", "done"} <=> HasRun(o, step)  BY <1>4 DEF HasRun
<1> HIDE DEF s, Due
<1> QED  BY <1>2, <1>3, <1>4, <1>5, <1>6, <1>7, SendKeeps DEF s, Due

-----------------------------------------------------------------------------
(* The theorems.                                                           *)

\* A step that changes nothing but the tick's slots.
LEMMA TickKeeps ==
  ASSUME RefundInv, UNCHANGED <<chainVars, proceeds, sent, signed, rec, used, at>>
  PROVE  RefundInv'
BY DEF chainVars, RefundInv, MoneyOK, SendsOK, MovesByRunning, HasRun,
       SignedCovers, RecordedIsTaken, WithinWithdrawal

LEMMA StepKeeps ==
  ASSUME RefundInv, RefundNext
  PROVE  RefundInv'
<1> DEFINE Recorded(u) == [rec EXCEPT ![u].withdrawn = at.need]
<1>1. /\ open \subseteq Refundable /\ proceeds \subseteq UnpaidSells
      /\ float \in Nat /\ wallet \in Nat /\ used \in Nat /\ held \in [Refundable -> Nat]
      /\ rec \in [Refundable -> RecType] /\ at \in PlaceType /\ taken \in [Refundable -> Nat]
      /\ \A u \in Refundable : held[u] <= held[u]
      /\ \A u \in Refundable : rec[u].withdrawn <= taken[u]
  BY DEF RefundInv, MoneyOK, RecordedIsTaken
<1>2. BetweenSteps \in PlaceType /\ BetweenSteps.step # "record"
  BY DEF PlaceType, BetweenSteps
<1>3. ASSUME NEW o \in Refundable, Withdraw(o) PROVE RefundInv'
  BY <1>3, WithdrawKeeps
<1>4. ASSUME NEW o \in Refundable, RecordWithdrawn(o) PROVE RefundInv'
  <2>1. at.step = "record" /\ at.order = o /\ at.need \in Nat
    BY <1>1, <1>4 DEF RecordWithdrawn, PlaceType, BetweenSteps
  <2>2. rec' \in [Refundable -> RecType] /\ \A u \in Refundable : rec'[u].withdrawn <= taken[u]
    BY <1>1, <1>4, <2>1 DEF RecordWithdrawn, RecType, RefundInv, RecordedIsTaken
  <2>3. at' \in PlaceType /\ at'.step = "day"
    BY <1>1, <1>4, <2>1 DEF RecordWithdrawn, PlaceType, BetweenSteps
  <2> QED
    BY <1>1, <1>4, <2>2, <2>3, QuietKeeps DEF RecordWithdrawn, chainVars
<1>5. ASSUME NEW o \in Refundable, RecordDay(o) PROVE RefundInv'
  <2>1. used' \in Nat
    BY <1>1, <1>5 DEF RecordDay, PlaceType, BetweenSteps
  <2>2. at' \in PlaceType /\ at'.step = "credit"
    BY <1>5 DEF RecordDay, PlaceType
  <2> QED
    BY <1>1, <1>5, <2>1, <2>2, QuietKeeps DEF RecordDay, chainVars
<1>6. ASSUME NEW o \in Refundable, CreditBack(o) PROVE RefundInv'
  <2>1. at' \in PlaceType /\ at'.step # "record"
    BY <1>2, <1>6 DEF CreditBack, PlaceType
  <2>2. \/ RefundConfirms(o, "credit", rec[o].withdrawn)
        \/ RefundUnconfirmed(o, "credit")
    BY <1>6 DEF CreditBack
  <2>3. UNCHANGED <<proceeds, signed, rec, used>>
    BY <1>6 DEF CreditBack
  <2> QED  BY <1>1, <2>1, <2>2, <2>3, PayBackKeeps
<1>7. ASSUME NEW o \in Refundable, RecordDone(o) PROVE RefundInv'
  <2>1. rec' \in [Refundable -> RecType] /\ \A u \in Refundable : rec'[u].withdrawn <= taken[u]
    BY <1>1, <1>7 DEF RecordDone, RecType
  <2> QED
    BY <1>1, <1>2, <1>7, <2>1, QuietKeeps DEF RecordDone, chainVars
<1>8. ASSUME NEW o \in Refundable, finishPending(o) PROVE RefundInv'
  <2>1. \/ RefundConfirms(o, "refill", rec[o].withdrawn)
        \/ RefundUnconfirmed(o, "refill")
    BY <1>8 DEF finishPending
  <2>2. /\ rec' \in [Refundable -> RecType]
        /\ \A u \in Refundable : rec'[u].withdrawn = rec[u].withdrawn
    <3>1. rec \in [Refundable -> RecType]  BY <1>1 DEF RefundInv, MoneyOK
    <3>2. rec' = rec \/ rec' = [rec EXCEPT ![o] = [@ EXCEPT !.returned = TRUE]]
      BY <1>8 DEF finishPending
    <3>3. /\ [rec[o] EXCEPT !.returned = TRUE] \in RecType
          /\ [rec[o] EXCEPT !.returned = TRUE].withdrawn = rec[o].withdrawn
      BY <3>1 DEF RecType
    <3> HIDE DEF RecType
    <3> QED  BY <3>1, <3>2, <3>3
  <2>3. UNCHANGED <<proceeds, signed, used, at>>
    BY <1>8 DEF finishPending
  <2> QED  BY <1>1, <2>1, <2>2, <2>3, PayBackKeeps
<1>9. ASSUME NEW o \in Refundable, NEW step \in RefundSteps, RefundReconcile(o, step)
      PROVE  RefundInv'
  BY <1>9, ReconcileKeeps
<1>10. ASSUME NEW o \in Refundable, NEW step \in RefundSteps, Land(o, step) PROVE RefundInv'
  BY <1>10, LandKeeps
<1>11. ASSUME NEW o \in Refundable, Dust(o) PROVE RefundInv'
  <2>1. held' \in [Refundable -> Nat] /\ \A u \in Refundable : held[u] <= held'[u]
    BY <1>1, <1>11 DEF Dust
  <2> QED
    BY <1>1, <1>11, <2>1, QuietKeeps DEF Dust, boundVars
<1>12. ASSUME NEW o \in Refundable, CloseElsewhere(o) PROVE RefundInv'
  BY <1>1, <1>12, QuietKeeps DEF CloseElsewhere, boundVars
<1>13. ASSUME NEW o \in Refundable, ProceedsReturn(o) PROVE RefundInv'
  <2>1. proceeds' \subseteq UnpaidSells /\ float' \in Nat
    BY <1>1, <1>13, RefundAssumption DEF ProceedsReturn, Due
  <2> QED
    BY <1>1, <1>13, <2>1, QuietKeeps DEF ProceedsReturn, boundVars
<1>14. CASE Crash
  BY <1>1, <1>2, <1>14, QuietKeeps DEF Crash, chainVars
<1>15. CASE NewDay
  BY <1>1, <1>15, QuietKeeps DEF NewDay, chainVars
<1>16. ASSUME NEW o \in Refundable, Deferred(o) PROVE RefundInv'
  BY <1>16, TickKeeps DEF Deferred
<1>17. CASE EndTick
  BY <1>17, TickKeeps DEF EndTick
<1> QED
  BY <1>3, <1>4, <1>5, <1>6, <1>7, <1>8, <1>9, <1>10, <1>11, <1>12, <1>13, <1>14, <1>15,
     <1>16, <1>17
  DEF RefundNext, Handling

\* The orders a tick has handled, and their slots.
TickOK == tick \in [handled : SUBSET Refundable, slots : Nat]

LEMMA TickStays ==
  ASSUME RefundInv, TickOK, RefundNext
  PROVE  TickOK'
<1>1. tick.handled \subseteq Refundable /\ tick.slots \in Nat /\ FreshTick \in [handled : SUBSET Refundable, slots : Nat]
  BY DEF TickOK, FreshTick
<1>2. ASSUME NEW o \in Refundable, TakesSlot(o) PROVE TickOK'
  BY <1>1, <1>2 DEF TickOK, TakesSlot
<1>3. CASE UNCHANGED tick  BY <1>3 DEF TickOK
<1>4. CASE tick' = FreshTick  BY <1>1, <1>4 DEF TickOK
<1>5. ASSUME NEW o \in Refundable, Handling(o) PROVE TickOK'
  <2>1. TakesSlot(o) \/ UNCHANGED tick
    BY <1>5 DEF Handling, Withdraw, Deferred, RecordWithdrawn, RecordDay, CreditBack, RecordDone
  <2> QED  BY <1>2, <1>3, <2>1
<1>6. CASE Crash
  <2>1. at \in PlaceType /\ at # BetweenSteps
    BY <1>6 DEF Crash, RefundInv, MoneyOK
  <2>2. at.order \in Refundable  BY <2>1 DEF PlaceType
  <2>3. CASE tick' = [tick EXCEPT !.handled = @ \cup {at.order}]
    BY <1>1, <2>2, <2>3 DEF TickOK
  <2> QED  BY <1>4, <1>6, <2>3 DEF Crash
<1>7. CASE EndTick  BY <1>4, <1>7 DEF EndTick
<1>8. ASSUME NEW o \in Refundable, finishPending(o) \/ Dust(o) \/ CloseElsewhere(o) \/ ProceedsReturn(o)
      PROVE  TickOK'
  BY <1>3, <1>8 DEF finishPending, Dust, CloseElsewhere, ProceedsReturn
<1>9. ASSUME NEW o \in Refundable, NEW step \in RefundSteps, RefundReconcile(o, step) \/ Land(o, step)
      PROVE  TickOK'
  BY <1>3, <1>9 DEF RefundReconcile, Land
<1>10. CASE NewDay  BY <1>3, <1>10 DEF NewDay
<1> QED  BY <1>5, <1>6, <1>7, <1>8, <1>9, <1>10 DEF RefundNext

LEMMA StutterKeeps ==
  ASSUME RefundInv, TickOK, UNCHANGED refundVars
  PROVE  RefundInv' /\ TickOK'
<1>1. RefundInv'  BY TickKeeps DEF refundVars
<1>2. TickOK'  BY DEF TickOK, refundVars
<1> QED  BY <1>1, <1>2

THEOREM RefundInvariant == RefundSpec => [](RefundInv /\ TickOK)
<1>1. RefundInit => RefundInv /\ TickOK
  BY InvInit DEF RefundInit, TickOK, FreshTick
<1>2. RefundInv /\ TickOK /\ [RefundNext]_refundVars => RefundInv' /\ TickOK'
  BY StepKeeps, TickStays, StutterKeeps
<1> QED  BY <1>1, <1>2, PTL DEF RefundSpec

\* The hub's and the keeper's money never leaves Nat, and no transaction is attempted
\* more often than SendAttempts: an attempt that fails is counted, and the last one stops
\* the task (lib/journal.mjs, markFailure).
THEOREM RefundTypes == RefundSpec => []RefundTypeOK
<1>1. RefundInv /\ TickOK => RefundTypeOK
  BY DEF RefundInv, MoneyOK, SendsOK, TickOK, RefundTypeOK, RecType, RefundTasks
<1> QED  BY <1>1, RefundInvariant, PTL

\* Whatever lands late, however often the keeper dies between its steps and whatever dust
\* arrives, no order is credited, nor the float refilled, with more than was withdrawn for
\* it (keeper.mjs:7).
THEOREM NeverMoreThanWithdrawn == RefundSpec => []WithinWithdrawal
<1>1. RefundInv => WithinWithdrawal  BY DEF RefundInv
<1> QED  BY <1>1, RefundInvariant, PTL

-----------------------------------------------------------------------------
(* LauncherKeeper: the inductive invariant.                                *)

LaunchRec == [request : QuoteIds \cup {NoQuote}, launched : BOOLEAN, fill : {"waiting", "over"}]
LaunchPlace ==
  {Between}
    \cup [step : {"record", "launched", "dispatch"}, id : LaunchIds]
    \cup [step : {"send"}, id : LaunchIds, quote : QuoteIds]

LaunchTyped ==
  /\ LaunchTypeOK
  /\ next \in LaunchPlace
  /\ \A t \in LaunchIds \X QuoteIds : SendOK(txOf[t])

\* An order that waits has no deposit, and its record says nothing yet.
WaitingIsClean ==
  \A id \in LaunchIds :
    status[id] = "Pending" => deposit[id] = NoQuote /\ ~launches[id].launched

\* A launch that ran took its order out of the queue, and no other quote was paid.
RanIsPaid ==
  \A id \in LaunchIds, quote \in QuoteIds :
    txOf[<<id, quote>>].state \in {"landed", "done"} =>
      status[id] # "Pending" /\ deposit[id] \in {NoQuote, quote}

\* The quote being sent is the one on record; what was launched is not recorded anew.
SentIsRecorded ==
  /\ next.step \in {"record", "send"} => ~launches[next.id].launched
  /\ next.step = "send" => launches[next.id].request = next.quote
  /\ next.step = "launched" =>
       /\ status[next.id] # "Pending"
       /\ deposit[next.id] \in {NoQuote, launches[next.id].request}

LaunchInv ==
  LaunchTyped /\ WaitingIsClean /\ RanIsPaid /\ SentIsRecorded /\ LaunchRecordIsDeposit

LEMMA LaunchStarts == ASSUME LaunchInit PROVE LaunchInv
<1>1. SendAttempts \in Nat \ {0}  BY SenderAssumption
<1>2. SendOK(Unsent)  BY <1>1 DEF SendOK, SendType, Unsent
<1>3. LaunchTyped
  BY <1>2 DEF LaunchInit, LaunchTyped, LaunchTypeOK, LaunchPlace, Between, SendOK
<1> QED
  BY <1>3
  DEF LaunchInit, LaunchInv, WaitingIsClean, RanIsPaid, SentIsRecorded, LaunchRecordIsDeposit,
      Between, Unsent

\* The launch of an order: only it leaves the queue, under the quote or with none.
LEMMA OneLaunch ==
  ASSUME LaunchTyped, NEW id \in LaunchIds, NEW quote \in QuoteIds, launchNext(id, quote)
  PROVE  /\ status[id] = "Pending" /\ status'[id] # "Pending"
         /\ deposit[id] = NoQuote => deposit'[id] \in {NoQuote, quote}
         /\ \A j \in LaunchIds \ {id} : status'[j] = status[j] /\ deposit'[j] = deposit[j]
         /\ status' \in [LaunchIds -> {"Pending", "Funded", "Dispatched", "Cancelled"}]
         /\ deposit' \in [LaunchIds -> QuoteIds \cup {NoQuote}]
         /\ fill' = fill
BY DEF LaunchTyped, LaunchTypeOK, launchNext, IsNext

\* A task that is answered, or runs, or is signed anew.
LEMMA OneTask ==
  ASSUME LaunchTyped, NEW id \in LaunchIds, NEW quote \in QuoteIds, NEW s, SendOK(s),
         txOf' = [txOf EXCEPT ![<<id, quote>>] = s]
  PROVE  /\ txOf' \in [LaunchIds \X QuoteIds -> SendType]
         /\ \A t \in LaunchIds \X QuoteIds : SendOK(txOf'[t])
         /\ txOf'[<<id, quote>>] = s
         /\ \A t \in LaunchIds \X QuoteIds : t # <<id, quote>> => txOf'[t] = txOf[t]
BY DEF LaunchTyped, LaunchTypeOK, SendOK

\* The queue and the deposits as they are, tasks that ran no more than before.
LEMMA TaskKeeps ==
  ASSUME LaunchInv, NEW id \in LaunchIds, NEW quote \in QuoteIds, NEW s, SendOK(s),
         txOf' = [txOf EXCEPT ![<<id, quote>>] = s],
         s.state \in {"landed", "done"} => txOf[<<id, quote>>].state \in {"landed", "done"},
         UNCHANGED launchChain
  PROVE  RanIsPaid'
<1>1. txOf'[<<id, quote>>] = s
      /\ \A t \in LaunchIds \X QuoteIds : t # <<id, quote>> => txOf'[t] = txOf[t]
  BY OneTask DEF LaunchInv
<1>2. ASSUME NEW j \in LaunchIds, NEW q \in QuoteIds, txOf'[<<j, q>>].state \in {"landed", "done"}
      PROVE txOf[<<j, q>>].state \in {"landed", "done"}
  BY <1>1, <1>2
<1> QED  BY <1>2 DEF LaunchInv, RanIsPaid, launchChain

LEMMA LaunchRuns ==
  ASSUME LaunchInv, NEW id \in LaunchIds, NEW quote \in QuoteIds, launchNext(id, quote),
         NEW s, SendOK(s), txOf' = [txOf EXCEPT ![<<id, quote>>] = s], UNCHANGED launches
  PROVE  /\ RanIsPaid' /\ WaitingIsClean' /\ LaunchRecordIsDeposit'
         /\ deposit'[id] \in {NoQuote, quote} /\ status'[id] # "Pending"
         /\ \A j \in LaunchIds : status[j] # "Pending" =>
              status'[j] = status[j] /\ deposit'[j] = deposit[j]
<1>1. txOf'[<<id, quote>>] = s
      /\ \A t \in LaunchIds \X QuoteIds : t # <<id, quote>> => txOf'[t] = txOf[t]
  BY OneTask DEF LaunchInv
<1>2. /\ status[id] = "Pending" /\ status'[id] # "Pending"
      /\ deposit'[id] \in {NoQuote, quote}
      /\ \A j \in LaunchIds \ {id} : status'[j] = status[j] /\ deposit'[j] = deposit[j]
  BY OneLaunch DEF LaunchInv, WaitingIsClean
<1>3. ASSUME NEW j \in LaunchIds, NEW q \in QuoteIds, txOf'[<<j, q>>].state \in {"landed", "done"}
      PROVE  status'[j] # "Pending" /\ deposit'[j] \in {NoQuote, q}
  <2>1. CASE j # id  BY <1>1, <1>2, <1>3, <2>1 DEF LaunchInv, RanIsPaid
  <2>2. CASE j = id /\ q = quote  BY <1>2, <2>2
  <2>3. CASE j = id /\ q # quote  BY <1>1, <1>2, <1>3, <2>3 DEF LaunchInv, RanIsPaid
  <2> QED  BY <2>1, <2>2, <2>3
<1>4. RanIsPaid'  BY <1>3 DEF RanIsPaid
<1>5. WaitingIsClean'  BY <1>2 DEF LaunchInv, WaitingIsClean
<1>6. LaunchRecordIsDeposit'
  BY <1>2 DEF LaunchInv, WaitingIsClean, LaunchRecordIsDeposit
<1> QED  BY <1>2, <1>4, <1>5, <1>6

\* launchOne, up to the send.
LEMMA PlanKeeps ==
  ASSUME LaunchInv, (\E id \in LaunchIds : Plan(id)) \/ PlanFails \/ LaunchCrash
  PROVE  LaunchInv'
<1>1. UNCHANGED <<launchChain, launches, txOf>>  BY DEF Plan, PlanFails, LaunchCrash
<1>2. \/ next' = Between
      \/ \E id \in LaunchIds :
           next' = [step |-> "record", id |-> id] /\ status[id] = "Pending"
  BY DEF Plan, PlanFails, LaunchCrash, IsNext
<1>3. LaunchTyped'
  BY <1>1, <1>2 DEF LaunchInv, LaunchTyped, LaunchTypeOK, LaunchPlace, launchChain
<1>4. WaitingIsClean' /\ RanIsPaid' /\ LaunchRecordIsDeposit'
  BY <1>1 DEF LaunchInv, WaitingIsClean, RanIsPaid, LaunchRecordIsDeposit, launchChain
<1>5. SentIsRecorded'
  BY <1>1, <1>2 DEF LaunchInv, WaitingIsClean, SentIsRecorded, Between, launchChain
<1> QED  BY <1>3, <1>4, <1>5 DEF LaunchInv

LEMMA RecordQuoteKeeps ==
  ASSUME LaunchInv, NEW id \in LaunchIds, NEW quote \in QuoteIds, RecordQuote(id, quote)
  PROVE  LaunchInv'
<1>1. /\ UNCHANGED launchChain /\ next = [step |-> "record", id |-> id]
      /\ next' = [step |-> "send", id |-> id, quote |-> quote]
      /\ launches' = [launches EXCEPT ![id].request = quote]
      /\ txOf' = [txOf EXCEPT ![<<id, quote>>] = Unsent]
  BY DEF RecordQuote, TaskOf
<1>2. SendAttempts \in Nat \ {0}  BY SenderAssumption
<1>3. SendOK(Unsent) /\ Unsent.state = "open"  BY <1>2 DEF SendOK, SendType, Unsent
<1>4. ~launches[id].launched  BY <1>1 DEF LaunchInv, SentIsRecorded
<1>5. /\ launches' \in [LaunchIds -> LaunchRec]
      /\ launches'[id].request = quote
      /\ \A j \in LaunchIds : launches'[j].launched = launches[j].launched
      /\ \A j \in LaunchIds \ {id} : launches'[j] = launches[j]
  BY <1>1 DEF LaunchInv, LaunchTyped, LaunchTypeOK, LaunchRec
<1>6. LaunchTyped'
  <2>1. txOf' \in [LaunchIds \X QuoteIds -> SendType]
        /\ \A t \in LaunchIds \X QuoteIds : SendOK(txOf'[t])
    BY <1>1, <1>3, OneTask DEF LaunchInv
  <2>2. next' \in LaunchPlace  BY <1>1 DEF LaunchPlace
  <2> QED
    BY <1>1, <1>5, <2>1, <2>2 DEF LaunchInv, LaunchTyped, LaunchTypeOK, LaunchRec, launchChain
<1>7. RanIsPaid'  BY <1>1, <1>3, TaskKeeps
<1>8. WaitingIsClean'  BY <1>1, <1>5 DEF LaunchInv, WaitingIsClean, launchChain
<1>9. LaunchRecordIsDeposit'
  BY <1>1, <1>4, <1>5 DEF LaunchInv, LaunchRecordIsDeposit, launchChain
<1>10. SentIsRecorded'  BY <1>1, <1>4, <1>5 DEF SentIsRecorded
<1> QED  BY <1>6, <1>7, <1>8, <1>9, <1>10 DEF LaunchInv

\* The answer of the send.
LEMMA ConfirmedKeeps ==
  ASSUME LaunchInv, NEW id \in LaunchIds, NEW quote \in QuoteIds, LaunchConfirmed(id, quote)
  PROVE  LaunchInv'
<1>1. PICK s : s = Answered(txOf[<<id, quote>>])  OBVIOUS
<1>2. SendOK(s)  BY <1>1, SendSteps DEF LaunchInv, LaunchTyped, LaunchTypeOK
<1>3. /\ next = [step |-> "send", id |-> id, quote |-> quote]
      /\ next' = [step |-> "launched", id |-> id]
      /\ txOf' = [txOf EXCEPT ![<<id, quote>>] = s] /\ UNCHANGED launches
  BY <1>1 DEF LaunchConfirmed, TaskOf
<1>4. launches[id].request = quote  BY <1>3 DEF LaunchInv, SentIsRecorded
<1>5. txOf' \in [LaunchIds \X QuoteIds -> SendType]
      /\ \A t \in LaunchIds \X QuoteIds : SendOK(txOf'[t])
  BY <1>2, <1>3, OneTask DEF LaunchInv
<1>6. next' \in LaunchPlace  BY <1>3 DEF LaunchPlace
<1>7. CASE launchNext(id, quote)
  <2>1. /\ RanIsPaid' /\ WaitingIsClean' /\ LaunchRecordIsDeposit'
        /\ deposit'[id] \in {NoQuote, quote} /\ status'[id] # "Pending"
    BY <1>2, <1>3, <1>7, LaunchRuns
  <2>2. LaunchTyped'
    BY <1>3, <1>5, <1>6, <1>7, OneLaunch DEF LaunchInv, LaunchTyped, LaunchTypeOK
  <2>3. SentIsRecorded'  BY <1>3, <1>4, <2>1 DEF SentIsRecorded
  <2> QED  BY <2>1, <2>2, <2>3 DEF LaunchInv
<1>8. CASE txOf[<<id, quote>>].state \in {"landed", "done"} /\ UNCHANGED launchChain
  <2>1. RanIsPaid'  BY <1>2, <1>3, <1>8, TaskKeeps
  <2>2. LaunchTyped'
    BY <1>3, <1>5, <1>6, <1>8 DEF LaunchInv, LaunchTyped, LaunchTypeOK, launchChain
  <2>3. WaitingIsClean' /\ LaunchRecordIsDeposit'
    BY <1>3, <1>8 DEF LaunchInv, WaitingIsClean, LaunchRecordIsDeposit, launchChain
  <2>4. SentIsRecorded'
    BY <1>3, <1>4, <1>8 DEF LaunchInv, RanIsPaid, SentIsRecorded, launchChain
  <2> QED  BY <2>1, <2>2, <2>3, <2>4 DEF LaunchInv
<1> QED  BY <1>7, <1>8 DEF LaunchConfirmed, TaskOf

LEMMA LaunchLandsKeeps ==
  ASSUME LaunchInv, NEW id \in LaunchIds, NEW quote \in QuoteIds, LaunchLands(id, quote)
  PROVE  LaunchInv'
<1>1. PICK s : s = HasLanded(txOf[<<id, quote>>])  OBVIOUS
<1>2. SendOK(s)  BY <1>1, SendSteps DEF LaunchInv, LaunchTyped, LaunchTypeOK
<1>3. launchNext(id, quote) /\ txOf' = [txOf EXCEPT ![<<id, quote>>] = s]
      /\ UNCHANGED <<launches, next>>
  BY <1>1 DEF LaunchLands, TaskOf
<1>4. txOf' \in [LaunchIds \X QuoteIds -> SendType]
      /\ \A t \in LaunchIds \X QuoteIds : SendOK(txOf'[t])
  BY <1>2, <1>3, OneTask DEF LaunchInv
<1>5. /\ RanIsPaid' /\ WaitingIsClean' /\ LaunchRecordIsDeposit'
      /\ \A j \in LaunchIds : status[j] # "Pending" =>
           status'[j] = status[j] /\ deposit'[j] = deposit[j]
  BY <1>2, <1>3, LaunchRuns
<1>6. LaunchTyped'
  BY <1>3, <1>4, OneLaunch DEF LaunchInv, LaunchTyped, LaunchTypeOK
<1>7. next.step = "launched" => next.id \in LaunchIds
  BY DEF LaunchInv, LaunchTyped, LaunchPlace, Between
<1>8. SentIsRecorded'  BY <1>3, <1>5, <1>7 DEF LaunchInv, SentIsRecorded
<1> QED  BY <1>5, <1>6, <1>8 DEF LaunchInv

LEMMA NoAnswerKeeps ==
  ASSUME LaunchInv, NEW id \in LaunchIds, NEW quote \in QuoteIds,
         LaunchUnconfirmed(id, quote) \/ LaunchReconcile(id, quote)
  PROVE  LaunchInv'
<1>1. PICK s \in Unanswered(txOf[<<id, quote>>]) \cup Reconciled(txOf[<<id, quote>>]) :
        txOf' = [txOf EXCEPT ![<<id, quote>>] = s]
  BY DEF LaunchUnconfirmed, LaunchReconcile, TaskOf
<1>2. /\ SendOK(s)
      /\ s.state \in {"landed", "done"} => txOf[<<id, quote>>].state \in {"landed", "done"}
  BY <1>1, SendSteps DEF LaunchInv, LaunchTyped, LaunchTypeOK
<1>3. UNCHANGED <<launchChain, launches>> /\ next' = Between
  BY DEF LaunchUnconfirmed, LaunchReconcile
<1>4. txOf' \in [LaunchIds \X QuoteIds -> SendType]
      /\ \A t \in LaunchIds \X QuoteIds : SendOK(txOf'[t])
  BY <1>1, <1>2, OneTask DEF LaunchInv
<1>5. LaunchTyped'
  BY <1>3, <1>4 DEF LaunchInv, LaunchTyped, LaunchTypeOK, LaunchPlace, launchChain
<1>6. RanIsPaid'  BY <1>1, <1>2, <1>3, TaskKeeps
<1>7. WaitingIsClean' /\ LaunchRecordIsDeposit' /\ SentIsRecorded'
  BY <1>3
  DEF LaunchInv, WaitingIsClean, LaunchRecordIsDeposit, SentIsRecorded, Between, launchChain
<1> QED  BY <1>5, <1>6, <1>7 DEF LaunchInv

\* After the answer, and what others do.
LEMMA RecordLaunchKeeps ==
  ASSUME LaunchInv, NEW id \in LaunchIds, RecordLaunch(id)
  PROVE  LaunchInv'
<1>1. /\ next = [step |-> "launched", id |-> id]
      /\ launches' = [launches EXCEPT ![id].launched = TRUE]
      /\ next' \in {[step |-> "dispatch", id |-> id], Between}
      /\ UNCHANGED <<launchChain, txOf>>
  BY DEF RecordLaunch
<1>2. status[id] # "Pending" /\ deposit[id] \in {NoQuote, launches[id].request}
  BY <1>1 DEF LaunchInv, SentIsRecorded
<1>3. /\ launches' \in [LaunchIds -> LaunchRec]
      /\ launches'[id].request = launches[id].request
      /\ \A j \in LaunchIds \ {id} : launches'[j] = launches[j]
  BY ZenonT(30), <1>1 DEF LaunchInv, LaunchTyped, LaunchTypeOK, LaunchRec
<1>4. LaunchTyped'
  BY <1>1, <1>3 DEF LaunchInv, LaunchTyped, LaunchTypeOK, LaunchRec, LaunchPlace, launchChain
<1>5. RanIsPaid' /\ SentIsRecorded'
  BY <1>1 DEF LaunchInv, RanIsPaid, SentIsRecorded, Between, launchChain
<1>6. WaitingIsClean' /\ LaunchRecordIsDeposit'
  BY <1>1, <1>2, <1>3 DEF LaunchInv, WaitingIsClean, LaunchRecordIsDeposit, launchChain
<1> QED  BY <1>4, <1>5, <1>6 DEF LaunchInv

LEMMA WatchKeeps ==
  ASSUME LaunchInv, NEW id \in LaunchIds, WatchFill(id)
  PROVE  LaunchInv'
<1>1. /\ launches' = [launches EXCEPT ![id].fill = fill[id]]
      /\ next = Between /\ UNCHANGED <<launchChain, txOf, next>>
  BY DEF WatchFill
<1>2. /\ launches' \in [LaunchIds -> LaunchRec]
      /\ \A j \in LaunchIds : launches'[j].request = launches[j].request
                              /\ launches'[j].launched = launches[j].launched
  BY <1>1 DEF LaunchInv, LaunchTyped, LaunchTypeOK, LaunchRec
<1>3. LaunchTyped'
  BY <1>1, <1>2 DEF LaunchInv, LaunchTyped, LaunchTypeOK, LaunchRec, LaunchPlace, launchChain
<1>4. RanIsPaid' /\ WaitingIsClean' /\ LaunchRecordIsDeposit' /\ SentIsRecorded'
  BY <1>1, <1>2
  DEF LaunchInv, RanIsPaid, WaitingIsClean, LaunchRecordIsDeposit, SentIsRecorded, Between,
      launchChain
<1> QED  BY <1>3, <1>4 DEF LaunchInv

LEMMA OrderMovesKeep ==
  ASSUME LaunchInv, NEW id \in LaunchIds,
         DispatchFunded(id) \/ BuyerLeaves(id) \/ RelayAnswers(id)
  PROVE  LaunchInv'
<1>1. /\ UNCHANGED <<deposit, launches, txOf>> /\ next' \in {next, Between}
      /\ \/ UNCHANGED status
         \/ status' = [status EXCEPT ![id] = "Dispatched"]
         \/ status' = [status EXCEPT ![id] = "Cancelled"]
      /\ fill' \in {fill, [fill EXCEPT ![id] = "over"]}
  BY DEF DispatchFunded, BuyerLeaves, RelayAnswers
<1>2. /\ status' \in [LaunchIds -> {"Pending", "Funded", "Dispatched", "Cancelled"}]
      /\ \A j \in LaunchIds : status'[j] = "Pending" => status[j] = "Pending"
  BY <1>1 DEF LaunchInv, LaunchTyped, LaunchTypeOK
<1>3. fill' \in [LaunchIds -> {"waiting", "over"}]
  BY <1>1 DEF LaunchInv, LaunchTyped, LaunchTypeOK
<1>4. LaunchTyped'
  BY <1>1, <1>2, <1>3 DEF LaunchInv, LaunchTyped, LaunchTypeOK, LaunchPlace
<1>5. RanIsPaid' /\ WaitingIsClean' /\ LaunchRecordIsDeposit'
  BY <1>1, <1>2 DEF LaunchInv, RanIsPaid, WaitingIsClean, LaunchRecordIsDeposit
<1>6. next # Between => next.id \in LaunchIds
  BY DEF LaunchInv, LaunchTyped, LaunchPlace
<1>7. SentIsRecorded'
  BY <1>1, <1>2, <1>6 DEF LaunchInv, SentIsRecorded, Between
<1> QED  BY <1>4, <1>5, <1>7 DEF LaunchInv

\* What the journal says of a launch is what the chain did (launcher/keeper.mjs:143-150):
\* whatever timed out, died or landed late, the request on record is the one that was paid.
THEOREM RecordIsDeposit == LaunchSpec => []LaunchRecordIsDeposit
<1>1. LaunchInit => LaunchInv  BY LaunchStarts
<1>2. LaunchInv /\ [LaunchNext]_launchVars => LaunchInv'
  <2>1. SUFFICES ASSUME LaunchInv, [LaunchNext]_launchVars PROVE LaunchInv'  OBVIOUS
  <2>2. CASE UNCHANGED launchVars
    BY <2>1, <2>2
    DEF launchVars, LaunchInv, LaunchTyped, LaunchTypeOK, WaitingIsClean, RanIsPaid,
        SentIsRecorded, LaunchRecordIsDeposit
  <2>3. CASE PlanFails \/ LaunchCrash  BY <2>1, <2>3, PlanKeeps
  <2>4. ASSUME NEW id \in LaunchIds, LaunchStep(id)  PROVE LaunchInv'
    BY <2>1, <2>4, PlanKeeps, RecordLaunchKeeps, OrderMovesKeep, RecordQuoteKeeps,
       ConfirmedKeeps, NoAnswerKeeps DEF LaunchStep
  <2>5. ASSUME NEW id \in LaunchIds, WatchFill(id) \/ BuyerLeaves(id) \/ RelayAnswers(id)
        PROVE  LaunchInv'
    BY <2>1, <2>5, WatchKeeps, OrderMovesKeep
  <2>6. ASSUME NEW id \in LaunchIds, NEW quote \in QuoteIds,
               LaunchLands(id, quote) \/ LaunchReconcile(id, quote)
        PROVE  LaunchInv'
    BY <2>1, <2>6, LaunchLandsKeeps, NoAnswerKeeps
  <2> QED  BY <2>1, <2>2, <2>3, <2>4, <2>5, <2>6 DEF LaunchNext
<1>3. LaunchInv => LaunchRecordIsDeposit  BY DEF LaunchInv
<1> QED  BY <1>1, <1>2, <1>3, PTL DEF LaunchSpec

-----------------------------------------------------------------------------
(* CanonicalKeepers: the inductive invariant.                              *)

ChainsOK ==
  /\ made \in Nat
  /\ sends \in Seq([from : Nat, to : Nat])
  /\ accepted \in Seq(DOMAIN sends)
  /\ burnt \in Seq(SUBSET DOMAIN sends)
  /\ gate \in Seq(DOMAIN sends)

\* Every result the walk has passed without counting it as unproven is proven.
Passed(seq) ==
  \A s \in RangeOf(walk.cp).from..RangeOf(walk.cp).to : s < seq => s \in proven \cup Foreign
WalkType == [at : {"result"}, cp : 1..Len(gate), seq : Nat, unproven : Nat,
             budget : Nat, count : 0..Len(gate)]
WalkOK ==
  walk # Resting =>
    /\ walk \in WalkType
    /\ walk.unproven = 0 => Passed(walk.seq)

LaneInv ==
  /\ ChainsOK /\ WalkOK
  /\ cursor \in 0..Len(gate) /\ relayed \subseteq DOMAIN burnt
  /\ JournalsAreBehind

\* The chains only grow.
Extends(t, s) == Len(s) <= Len(t) /\ \A i \in 1..Len(s) : t[i] = s[i]
Grows ==
  /\ ChainsOK'
  /\ Extends(sends', sends) /\ Extends(accepted', accepted)
  /\ Extends(burnt', burnt) /\ Extends(gate', gate)
  /\ proven \subseteq proven'

-----------------------------------------------------------------------------
(* The contracts' calls.                                                   *)

LEMMA AppendExtends ==
  ASSUME NEW S, NEW s \in Seq(S), NEW x \in S
  PROVE  Append(s, x) \in Seq(S) /\ Extends(Append(s, x), s)
BY AppendProperties DEF Extends

LEMMA SameExtends ==
  ASSUME NEW S, NEW s \in Seq(S)
  PROVE  Extends(s, s)
BY DEF Extends

LEMMA AppendsAtMost ==
  ASSUME NEW S, NEW s \in Seq(S), NEW t, t = s \/ \E x \in S : t = Append(s, x)
  PROVE  t \in Seq(S) /\ Extends(t, s)
BY SameExtends, AppendExtends

LEMMA ElementIn ==
  ASSUME NEW S, NEW s \in Seq(S), NEW i \in 1..Len(s)
  PROVE  s[i] \in S
OBVIOUS

LEMMA ExtendsKeeps ==
  ASSUME NEW S, NEW s \in Seq(S), NEW T, NEW t \in Seq(T), Extends(t, s)
  PROVE  /\ Len(s) \in Nat /\ Len(t) \in Nat /\ Len(s) <= Len(t)
         /\ DOMAIN s = 1..Len(s) /\ DOMAIN t = 1..Len(t) /\ DOMAIN s \subseteq DOMAIN t
         /\ \A i \in DOMAIN s : t[i] = s[i]
         /\ Elements(s) \subseteq Elements(t)
<1>1. /\ Len(s) \in Nat /\ Len(t) \in Nat /\ Len(s) <= Len(t)
      /\ DOMAIN s = 1..Len(s) /\ DOMAIN t = 1..Len(t)
  BY DEF Extends
<1>2. DOMAIN s \subseteq DOMAIN t /\ \A i \in DOMAIN s : t[i] = s[i]  BY <1>1 DEF Extends
<1>3. Elements(s) \subseteq Elements(t)  BY <1>2 DEF Elements
<1> QED  BY <1>1, <1>2, <1>3

\* A longer list of checkpoints is one for the sequences that name them, too.
LEMMA WiderSeq ==
  ASSUME NEW S, NEW T, S \subseteq T, NEW s \in Seq(S)
  PROVE  s \in Seq(T)
<1>1. \A i \in 1..Len(s) : s[i] \in T  OBVIOUS
<1>2. Len(s) \in Nat /\ s \in [1..Len(s) -> T]  BY <1>1
<1> QED  BY <1>2

LEMMA SendIn ==
  ASSUME ChainsOK, NEW p \in DOMAIN sends
  PROVE  sends[p] \in [from : Nat, to : Nat]
<1>1. p \in 1..Len(sends)  BY DEF ChainsOK
<1> QED  BY <1>1, ElementIn DEF ChainsOK

LEMMA CheckpointGrows ==
  ASSUME ChainsOK, checkpoint
  PROVE  Grows
<1> DEFINE x == [from |-> through + 1, to |-> made]
<1>1. /\ sends' = Append(sends, x) /\ made' = made /\ proven' = proven
      /\ accepted' = accepted /\ burnt' = burnt /\ gate' = gate
  BY DEF checkpoint, middle
<1>2. through \in Nat
  <2>1. CASE sends = <<>>  BY <2>1 DEF through
  <2>2. CASE sends # <<>>
    <3>1. Len(sends) \in 1..Len(sends)  BY <2>2 DEF ChainsOK
    <3>2. sends[Len(sends)] \in [from : Nat, to : Nat]  BY <3>1, ElementIn DEF ChainsOK
    <3> QED  BY <2>2, <3>2 DEF through
  <2> QED  BY <2>1, <2>2
<1>3. x \in [from : Nat, to : Nat]  BY <1>2 DEF ChainsOK
<1> HIDE DEF x
<1>4. sends' \in Seq([from : Nat, to : Nat]) /\ Extends(sends', sends)
  BY <1>1, <1>3, AppendExtends DEF ChainsOK
<1>5. DOMAIN sends \subseteq DOMAIN sends'  BY <1>1, <1>3 DEF ChainsOK
<1>6. accepted \in Seq(DOMAIN sends') /\ gate \in Seq(DOMAIN sends')
  BY <1>5, WiderSeq DEF ChainsOK
<1>7. burnt \in Seq(SUBSET DOMAIN sends')
  <2>1. SUBSET DOMAIN sends \subseteq SUBSET DOMAIN sends'  BY <1>5
  <2> QED  BY <2>1, WiderSeq DEF ChainsOK
<1>8. Extends(accepted, accepted) /\ Extends(burnt, burnt) /\ Extends(gate, gate)
  BY SameExtends DEF ChainsOK
<1> QED  BY <1>1, <1>4, <1>6, <1>7, <1>8 DEF Grows, ChainsOK

\* Where the list of checkpoints is the same.
LEMMA OthersGrow ==
  ASSUME ChainsOK, made' \in Nat, sends' = sends, proven \subseteq proven',
         accepted' = accepted \/ \E pos \in DOMAIN sends : accepted' = Append(accepted, pos),
         burnt' = burnt \/ \E set \in SUBSET DOMAIN sends : burnt' = Append(burnt, set),
         gate' = gate \/ \E pos \in DOMAIN sends : gate' = Append(gate, pos)
  PROVE  Grows
<1>1. Extends(sends, sends)  BY SameExtends DEF ChainsOK
<1>2. accepted' \in Seq(DOMAIN sends) /\ Extends(accepted', accepted)
  BY AppendsAtMost DEF ChainsOK
<1>3. burnt' \in Seq(SUBSET DOMAIN sends) /\ Extends(burnt', burnt)
  <2> DEFINE S == SUBSET DOMAIN sends
  <2>1. burnt \in Seq(S) /\ (burnt' = burnt \/ \E set \in S : burnt' = Append(burnt, set))
    BY DEF ChainsOK
  <2> HIDE DEF S
  <2>2. burnt' \in Seq(S) /\ Extends(burnt', burnt)  BY <2>1, AppendsAtMost
  <2> QED  BY <2>2 DEF S
<1>4. gate' \in Seq(DOMAIN sends) /\ Extends(gate', gate)
  BY AppendsAtMost DEF ChainsOK
<1> QED  BY <1>1, <1>2, <1>3, <1>4 DEF Grows, ChainsOK

LEMMA PendingAreSends ==
  ASSUME NEW S, NEW acc \in Seq(S)
  PROVE  Pending(acc) \subseteq S /\ Elements(acc) \subseteq S
BY DEF Pending, Elements

LEMMA CallsGrow ==
  ASSUME ChainsOK,
         \/ checkpoint \/ forward
         \/ \E pos \in DOMAIN sends : executeTransaction(pos)
         \/ \E s \in 1..Results : reconcile(s)
         \/ \E tx \in DOMAIN burnt : \E pos \in burnt[tx] : relay(tx, pos)
  PROVE  Grows
<1>1. CASE checkpoint  BY <1>1, CheckpointGrows
<1>2. CASE forward
  <2>1. Pending(accepted) \in SUBSET DOMAIN sends  BY PendingAreSends DEF ChainsOK
  <2> QED  BY <1>2, <2>1, OthersGrow DEF forward, forwardOf, ends, ChainsOK
<1>3. ASSUME NEW pos \in DOMAIN sends, executeTransaction(pos)  PROVE Grows
  <2>1. /\ accepted' = Append(accepted, pos)
        /\ burnt' = burnt \/ burnt' = Append(burnt, Pending(accepted'))
        /\ made' = made /\ sends' = sends /\ proven' = proven /\ gate' = gate
    BY <1>3 DEF executeTransaction, forwardOf, ends
  <2>2. accepted' \in Seq(DOMAIN sends)  BY <2>1 DEF ChainsOK
  <2>3. Pending(accepted') \in SUBSET DOMAIN sends  BY <2>2, PendingAreSends
  <2>4. burnt' = burnt \/ \E set \in SUBSET DOMAIN sends : burnt' = Append(burnt, set)
    BY <2>1, <2>3
  <2>5. made' \in Nat  BY <2>1 DEF ChainsOK
  <2> QED  BY <2>1, <2>4, <2>5, OthersGrow
<1>4. ASSUME NEW s \in 1..Results, reconcile(s)  PROVE Grows
  BY <1>4, OthersGrow DEF reconcile, middle, ChainsOK
<1>5. ASSUME NEW tx \in DOMAIN burnt, NEW pos \in burnt[tx], relay(tx, pos)  PROVE Grows
  <2>1. pos \in DOMAIN sends  BY DEF ChainsOK
  <2> QED  BY <1>5, <2>1, OthersGrow DEF relay, ends, ChainsOK
<1> QED  BY <1>1, <1>2, <1>3, <1>4, <1>5

-----------------------------------------------------------------------------
(* The steps.                                                              *)

\* What was true of the chains stays true while they grow.
LEMMA GrowthKeeps ==
  ASSUME LaneInv, Grows
  PROVE  /\ Elements(accepted) \subseteq Elements(accepted')
         /\ Elements(gate) \subseteq Elements(gate')
         /\ Len(gate) \in Nat /\ Len(gate') \in Nat /\ Len(gate) <= Len(gate')
         /\ \A i \in 1..Len(gate) : sends'[gate'[i]] = sends[gate[i]]
         /\ \A tx \in DOMAIN burnt : tx \in DOMAIN burnt' /\ burnt'[tx] = burnt[tx]
<1>1. Elements(accepted) \subseteq Elements(accepted')
  <2>1. /\ accepted \in Seq(DOMAIN sends) /\ accepted' \in Seq(DOMAIN sends')
        /\ Extends(accepted', accepted)
    BY DEF LaneInv, ChainsOK, Grows
  <2> QED  BY <2>1, ExtendsKeeps
<1>2. /\ Elements(gate) \subseteq Elements(gate')
      /\ Len(gate) \in Nat /\ Len(gate') \in Nat /\ Len(gate) <= Len(gate')
      /\ \A i \in 1..Len(gate) : gate'[i] = gate[i]
  <2>1. /\ gate \in Seq(DOMAIN sends) /\ gate' \in Seq(DOMAIN sends')
        /\ Extends(gate', gate)
    BY DEF LaneInv, ChainsOK, Grows
  <2> QED  BY <2>1, ExtendsKeeps
<1>3. \A i \in 1..Len(gate) : gate[i] \in DOMAIN sends
  BY ElementIn DEF LaneInv, ChainsOK
<1>4. \A p \in DOMAIN sends : sends'[p] = sends[p]
  BY ExtendsKeeps DEF LaneInv, ChainsOK, Grows
<1>5. \A tx \in DOMAIN burnt : tx \in DOMAIN burnt' /\ burnt'[tx] = burnt[tx]
  <2> DEFINE S == SUBSET DOMAIN sends
             T == SUBSET DOMAIN sends'
  <2>1. burnt \in Seq(S) /\ burnt' \in Seq(T) /\ Extends(burnt', burnt)
    BY DEF LaneInv, ChainsOK, Grows
  <2> HIDE DEF S, T
  <2> QED  BY <2>1, ExtendsKeeps
<1> QED  BY <1>1, <1>2, <1>3, <1>4, <1>5

\* A journal may note what has happened; the cursor and the walk are looked at apart.
LEMMA StepsKeep ==
  ASSUME LaneInv, Grows, WalkOK', cursor' \in 0..Len(gate'),
         executed' \subseteq executed \cup Elements(accepted'),
         relayed' \subseteq relayed \cup {tx \in DOMAIN burnt : burnt[tx] \subseteq Elements(gate)},
         cursor' = cursor \/ (/\ cursor' = cursor + 1 /\ cursor' <= Len(gate)
                              /\ (RangeOf(cursor + 1).from..RangeOf(cursor + 1).to) \ Foreign
                                   \subseteq proven)
  PROVE  LaneInv'
<1>1. /\ Elements(accepted) \subseteq Elements(accepted')
      /\ Elements(gate) \subseteq Elements(gate')
      /\ Len(gate) \in Nat /\ Len(gate') \in Nat /\ Len(gate) <= Len(gate')
      /\ \A i \in 1..Len(gate) : sends'[gate'[i]] = sends[gate[i]]
      /\ \A tx \in DOMAIN burnt : tx \in DOMAIN burnt' /\ burnt'[tx] = burnt[tx]
  BY GrowthKeeps
<1>2. /\ cursor \in 0..Len(gate) /\ relayed \subseteq DOMAIN burnt
      /\ executed \subseteq Elements(accepted)
      /\ \A tx \in relayed : burnt[tx] \subseteq Elements(gate)
      /\ \A i \in 1..cursor : (RangeOf(i).from..RangeOf(i).to) \ Foreign \subseteq proven
  BY DEF LaneInv, JournalsAreBehind
<1>3. executed' \subseteq Elements(accepted')  BY <1>1, <1>2
<1>4. /\ relayed' \subseteq DOMAIN burnt'
      /\ \A tx \in relayed' : burnt'[tx] \subseteq Elements(gate')
  BY <1>1, <1>2
<1>5. \A i \in 1..cursor' :
        i \in 1..Len(gate) /\ (RangeOf(i).from..RangeOf(i).to) \ Foreign \subseteq proven
  BY <1>1, <1>2
<1>6. \A i \in 1..cursor' :
        (sends'[gate'[i]].from..sends'[gate'[i]].to) \ Foreign \subseteq proven'
  BY <1>1, <1>5 DEF RangeOf, Grows
<1> QED  BY <1>3, <1>4, <1>6 DEF LaneInv, Grows, JournalsAreBehind, RangeOf, Elements

LEMMA RestingKeeps ==
  ASSUME LaneInv, Grows, UNCHANGED <<walk, cursor>>
  PROVE  WalkOK' /\ cursor' \in 0..Len(gate')
<1>1. /\ Len(gate) \in Nat /\ Len(gate') \in Nat /\ Len(gate) <= Len(gate')
      /\ \A i \in 1..Len(gate) : sends'[gate'[i]] = sends[gate[i]]
  BY GrowthKeeps
<1>2. cursor' \in 0..Len(gate')  BY <1>1 DEF LaneInv
<1>3. walk # Resting => walk' \in WalkType' /\ walk.cp \in 1..Len(gate)
  BY <1>1 DEF LaneInv, WalkOK, WalkType
<1>4. WalkOK'  BY <1>1, <1>3 DEF LaneInv, WalkOK, Passed, RangeOf, Grows
<1> QED  BY <1>2, <1>4

\* The calls of anyone, of the executor and of the relayer.
LEMMA GrowthSteps ==
  ASSUME LaneInv, Grows, UNCHANGED <<walk, cursor>>,
         executed' \subseteq executed \cup Elements(accepted'),
         relayed' \subseteq relayed \cup {tx \in DOMAIN burnt : burnt[tx] \subseteq Elements(gate)}
  PROVE  LaneInv'
BY RestingKeeps, StepsKeep

LEMMA NothingGrows ==
  ASSUME LaneInv, made' \in Nat,
         UNCHANGED <<sends, accepted, burnt, gate, proven>>
  PROVE  Grows
BY OthersGrow DEF LaneInv

\* A new walk of checkpoint i begins at its first result.
LEMMA EnterOK ==
  ASSUME ChainsOK, NEW i \in 1..Len(gate), NEW b \in Nat, NEW count \in 0..Len(gate),
         UNCHANGED <<sends, gate, proven>>, walk' = Enter(i, b, count)
  PROVE  WalkOK'
<1>1. gate[i] \in DOMAIN sends  BY ElementIn DEF ChainsOK
<1>2. RangeOf(i) \in [from : Nat, to : Nat]  BY <1>1, SendIn DEF RangeOf
<1>3. walk' = [at |-> "result", cp |-> i, seq |-> RangeOf(i).from, unproven |-> 0,
               budget |-> b, count |-> count]
  BY DEF Enter
<1>4. walk' \in WalkType  BY <1>2, <1>3 DEF WalkType
<1>5. \A s \in RangeOf(i).from..RangeOf(i).to : ~(s < RangeOf(i).from)  BY <1>2
<1> QED  BY <1>3, <1>4, <1>5 DEF WalkOK, Passed, RangeOf, WalkType

\* reconcilePhase goes on by one result, proven or counted.
LEMMA WalkSteps ==
  ASSUME LaneInv, NEW s, OnResult(s), Grows, gate' = gate, sends' = sends,
         walk' \in WalkType, walk'.cp = walk.cp, walk'.seq = s + 1,
         walk'.unproven = 0 => walk.unproven = 0 /\ s \in proven' \cup Foreign
  PROVE  WalkOK'
<1>1. walk \in WalkType /\ walk.seq = s /\ (walk.unproven = 0 => Passed(walk.seq))
  BY DEF OnResult, LaneInv, WalkOK
<1>2. s \in Nat  BY <1>1 DEF WalkType
<1>3. ASSUME walk'.unproven = 0, NEW x \in RangeOf(walk.cp).from..RangeOf(walk.cp).to, x < s + 1
      PROVE  x \in proven' \cup Foreign
  <2>1. x \in Int /\ (x < s \/ x = s)  BY <1>2, <1>3
  <2>2. x < s => x \in proven \cup Foreign  BY <1>1, <1>3 DEF Passed
  <2> QED  BY <1>3, <2>1, <2>2 DEF Grows
<1>4. walk'.unproven = 0 => \A x \in RangeOf(walk.cp).from..RangeOf(walk.cp).to :
                 x < s + 1 => x \in proven' \cup Foreign
  BY <1>3
<1> QED  BY <1>4 DEF WalkOK, Passed, RangeOf, WalkType

LEMMA ReconcileSteps ==
  ASSUME LaneInv,
         \/ StartReconcile
         \/ \E s \in 1..Results : SkipResult(s) \/ LeaveResult(s) \/ ProveResult(s)
  PROVE  LaneInv'
<1>0. made \in Nat /\ ChainsOK  BY DEF LaneInv, ChainsOK
<1>1. CASE StartReconcile
  <2>1. /\ UNCHANGED <<made, sends, accepted, burnt, gate, proven, executed, relayed, cursor>>
        /\ walk' = Enter(cursor + 1, ReconcileMax, Len(gate)) /\ cursor < Len(gate)
    BY <1>1 DEF StartReconcile, ends, middle, journals
  <2>2. Grows  BY <1>0, <2>1, NothingGrows
  <2>3. cursor + 1 \in 1..Len(gate) /\ Len(gate) \in 0..Len(gate) /\ ReconcileMax \in Nat
    <3>1. Len(gate) \in Nat  BY <1>0 DEF ChainsOK
    <3>2. cursor \in Nat  BY <3>1 DEF LaneInv
    <3>3. ReconcileMax \in Nat  BY LaneAssumption
    <3> QED  BY <2>1, <3>1, <3>2, <3>3
  <2>4. WalkOK'  BY <1>0, <2>1, <2>3, EnterOK
  <2>5. cursor' \in 0..Len(gate')  BY <2>1 DEF LaneInv
  <2> QED  BY <2>1, <2>2, <2>4, <2>5, StepsKeep
<1>2. ASSUME NEW s \in 1..Results, SkipResult(s) \/ LeaveResult(s) \/ ProveResult(s)
      PROVE  LaneInv'
  <2>1. /\ OnResult(s) /\ UNCHANGED <<made, sends, accepted, burnt, gate>>
        /\ UNCHANGED <<executed, relayed, cursor>> /\ proven \subseteq proven'
    BY <1>2 DEF SkipResult, LeaveResult, ProveResult, reconcile, ends, middle, journals
  <2>2. Grows  BY <1>0, <2>1, OthersGrow
  <2>3. walk \in WalkType /\ walk.budget > 0 /\ walk.seq = s
    BY <2>1 DEF OnResult, LaneInv, WalkOK
  <2>4. \/ walk' = [walk EXCEPT !.seq = @ + 1] /\ s \in proven' \cup Foreign
        \/ /\ walk' = [walk EXCEPT !.seq = @ + 1, !.budget = @ - 1]
           /\ s \in proven' \cup Foreign
        \/ walk' = [walk EXCEPT !.seq = @ + 1, !.budget = @ - 1, !.unproven = @ + 1]
    BY <1>2, <2>1 DEF SkipResult, LeaveResult, ProveResult, reconcile
  <2>5. /\ walk.budget \in Nat /\ walk.budget - 1 \in Nat /\ walk.unproven \in Nat
        /\ walk.unproven + 1 \in Nat /\ walk.unproven + 1 # 0 /\ s + 1 \in Nat
    BY <2>3 DEF WalkType
  <2>6. \E b \in Nat, n \in Nat :
          /\ walk' = [walk EXCEPT !.seq = s + 1, !.budget = b, !.unproven = n]
          /\ n = 0 => walk.unproven = 0 /\ s \in proven' \cup Foreign
    <3>1. CASE walk' = [walk EXCEPT !.seq = @ + 1] /\ s \in proven' \cup Foreign
      <4>1. walk' = [walk EXCEPT !.seq = s + 1, !.budget = walk.budget,
                                 !.unproven = walk.unproven]
        BY <2>3, <3>1 DEF WalkType
      <4> QED  BY <2>5, <3>1, <4>1
    <3>2. CASE /\ walk' = [walk EXCEPT !.seq = @ + 1, !.budget = @ - 1]
               /\ s \in proven' \cup Foreign
      <4>1. walk' = [walk EXCEPT !.seq = s + 1, !.budget = walk.budget - 1,
                                 !.unproven = walk.unproven]
        BY <2>3, <3>2 DEF WalkType
      <4> QED  BY <2>5, <3>2, <4>1
    <3>3. CASE walk' = [walk EXCEPT !.seq = @ + 1, !.budget = @ - 1, !.unproven = @ + 1]
      <4>1. walk' = [walk EXCEPT !.seq = s + 1, !.budget = walk.budget - 1,
                                 !.unproven = walk.unproven + 1]
        BY <2>3, <3>3
      <4> QED  BY <2>5, <4>1
    <3> QED  BY <2>4, <3>1, <3>2, <3>3
  <2>7. /\ walk' \in WalkType /\ walk'.cp = walk.cp /\ walk'.seq = s + 1
        /\ walk'.unproven = 0 => walk.unproven = 0 /\ s \in proven' \cup Foreign
    <3>1. PICK b \in Nat, n \in Nat :
            /\ walk' = [walk EXCEPT !.seq = s + 1, !.budget = b, !.unproven = n]
            /\ n = 0 => walk.unproven = 0 /\ s \in proven' \cup Foreign
      BY <2>6
    <3> DEFINE v == [walk EXCEPT !.seq = s + 1, !.budget = b, !.unproven = n]
    <3>2. v \in WalkType /\ v.cp = walk.cp /\ v.seq = s + 1 /\ v.unproven = n
      BY <2>3, <2>5 DEF WalkType
    <3>3. walk' = v  BY <3>1
    <3> HIDE DEF v
    <3> QED  BY <3>1, <3>2, <3>3
  <2>8. WalkOK'  BY <2>1, <2>2, <2>7, WalkSteps
  <2>9. cursor' \in 0..Len(gate')  BY <2>1 DEF LaneInv
  <2> QED  BY <2>1, <2>2, <2>8, <2>9, StepsKeep
<1> QED  BY <1>1, <1>2

\* The cursor passes a checkpoint only when the walk has passed all its results.
LEMMA EndSteps ==
  ASSUME LaneInv, EndCheckpoint
  PROVE  LaneInv'
<1>1. /\ UNCHANGED <<made, sends, accepted, burnt, gate, proven, executed, relayed>>
      /\ walk # Resting /\ (walk.seq > RangeOf(walk.cp).to \/ walk.budget = 0)
  BY DEF EndCheckpoint, ends, middle
<1>2. made \in Nat /\ ChainsOK /\ Len(gate) \in Nat /\ cursor \in 0..Len(gate)
  BY DEF LaneInv, ChainsOK
<1>3. Grows  BY <1>1, <1>2, NothingGrows
<1>4. walk \in WalkType /\ (walk.unproven = 0 => Passed(walk.seq))
  BY <1>1 DEF LaneInv, WalkOK
<1>5. /\ walk.cp \in 1..Len(gate) /\ walk.count \in 0..Len(gate) /\ walk.budget \in Nat
      /\ walk.seq \in Nat
  BY <1>4 DEF WalkType
<1>6. WalkOK'
  <2>1. CASE walk.cp < walk.count /\ walk.budget > 0
    <3>1. walk' = Enter(walk.cp + 1, walk.budget, walk.count)  BY <2>1 DEF EndCheckpoint
    <3>2. walk.cp + 1 \in 1..Len(gate)  BY <1>2, <1>5, <2>1
    <3> QED  BY <1>1, <1>2, <1>5, <3>1, <3>2, EnterOK
  <2>2. CASE ~(walk.cp < walk.count /\ walk.budget > 0)
    BY <2>2 DEF EndCheckpoint, WalkOK
  <2> QED  BY <2>1, <2>2
<1>7. \/ cursor' = cursor
      \/ /\ cursor' = cursor + 1 /\ walk.unproven = 0 /\ walk.budget > 0
         /\ walk.cp = cursor + 1
  BY DEF EndCheckpoint
<1>8. CASE cursor' = cursor
  <2>1. cursor' \in 0..Len(gate')  BY <1>1, <1>2, <1>8
  <2> QED  BY <1>1, <1>3, <1>6, <1>8, <2>1, StepsKeep
<1>9. CASE /\ cursor' = cursor + 1 /\ walk.unproven = 0 /\ walk.budget > 0
           /\ walk.cp = cursor + 1
  <2>1. walk.seq > RangeOf(walk.cp).to /\ Passed(walk.seq)  BY <1>1, <1>4, <1>5, <1>9
  <2>2. RangeOf(walk.cp) \in [from : Nat, to : Nat]
    <3>1. gate[walk.cp] \in DOMAIN sends  BY <1>2, <1>5, ElementIn DEF ChainsOK
    <3> QED  BY <1>2, <3>1, SendIn DEF RangeOf
  <2>3. \A s \in RangeOf(walk.cp).from..RangeOf(walk.cp).to : s < walk.seq
    BY <1>5, <2>1, <2>2
  <2>4. (RangeOf(walk.cp).from..RangeOf(walk.cp).to) \ Foreign \subseteq proven
    BY <2>1, <2>3 DEF Passed
  <2>5. cursor' <= Len(gate) /\ cursor' \in 0..Len(gate')  BY <1>1, <1>2, <1>5, <1>9
  <2> QED  BY <1>1, <1>3, <1>6, <1>9, <2>4, <2>5, StepsKeep
<1> QED  BY <1>7, <1>8, <1>9

\* A send is called done when it is accepted, a source when its messages are at the gate.
LEMMA JournalSteps ==
  ASSUME LaneInv, Executing \/ Relaying
  PROVE  LaneInv'
<1>0. made \in Nat /\ ChainsOK  BY DEF LaneInv, ChainsOK
<1>1. ASSUME NEW pos \in DOMAIN sends, ExecuteSend(pos)  PROVE LaneInv'
  <2>1. executed' = executed \cup {pos} /\ UNCHANGED <<relayed, cursor, walk>>
    BY <1>1 DEF ExecuteSend
  <2>2. CASE pos \in Elements(accepted) /\ UNCHANGED <<ends, middle>>
    <3>1. Grows  BY <1>0, <2>2, NothingGrows DEF ends, middle
    <3>2. Elements(accepted') = Elements(accepted)  BY <2>2 DEF middle
    <3> QED  BY <2>1, <2>2, <3>1, <3>2, GrowthSteps
  <2>3. CASE executeTransaction(pos)
    <3>1. Grows  BY <1>0, <2>3, CallsGrow
    <3>2. accepted' = Append(accepted, pos) /\ accepted \in Seq(DOMAIN sends)
      BY <1>0, <2>3 DEF executeTransaction, ChainsOK
    <3>3. pos \in Elements(accepted')
      <4>1. Len(accepted) + 1 \in DOMAIN accepted' /\ accepted'[Len(accepted) + 1] = pos
        BY <3>2
      <4> QED  BY <4>1 DEF Elements
    <3> QED  BY <2>1, <3>1, <3>3, GrowthSteps
  <2> QED  BY <1>1, <2>2, <2>3 DEF ExecuteSend
<1>2. ASSUME NEW tx \in DOMAIN burnt, SourceDone(tx)  PROVE LaneInv'
  <2>1. Grows  BY <1>0, <1>2, NothingGrows DEF SourceDone, ends, middle
  <2>2. /\ relayed' = relayed \cup {tx} /\ burnt[tx] \subseteq Elements(gate)
        /\ UNCHANGED <<executed, cursor, walk>>
    BY <1>2 DEF SourceDone
  <2> QED  BY <2>1, <2>2, GrowthSteps
<1>3. ASSUME NEW tx \in DOMAIN burnt, NEW pos \in burnt[tx], RelayMessage(tx, pos)  PROVE LaneInv'
  <2>1. Grows  BY <1>0, <1>3, CallsGrow DEF RelayMessage
  <2> QED  BY <1>3, <2>1, GrowthSteps DEF RelayMessage, journals
<1> QED  BY <1>1, <1>2, <1>3 DEF Executing, Relaying

LEMMA LaneInvInit == LaneInit => LaneInv
<1> SUFFICES ASSUME LaneInit PROVE LaneInv  OBVIOUS
<1>1. ChainsOK  BY DEF LaneInit, ChainsOK
<1>2. WalkOK  BY DEF LaneInit, WalkOK
<1>3. cursor \in 0..Len(gate) /\ relayed \subseteq DOMAIN burnt  BY DEF LaneInit
<1>4. JournalsAreBehind  BY DEF LaneInit, JournalsAreBehind
<1> QED  BY <1>1, <1>2, <1>3, <1>4 DEF LaneInv

LEMMA LaneStepKeeps == LaneInv /\ [LaneNext]_laneVars => LaneInv'
<1> SUFFICES ASSUME LaneInv, [LaneNext]_laneVars PROVE LaneInv'  OBVIOUS
<1>0. made \in Nat /\ ChainsOK  BY DEF LaneInv, ChainsOK
<1>1. CASE Anyone \/ checkpointPhase \/ forwardPhase
  <2>1. Grows
    <3>1. CASE Anyone \/ checkpoint \/ forwardPhase
      BY <1>0, <3>1, CallsGrow DEF Anyone, forwardPhase
    <3>2. CASE UNCHANGED <<ends, middle>>
      BY <1>0, <3>2, NothingGrows DEF ends, middle
    <3> QED  BY <1>1, <3>1, <3>2 DEF checkpointPhase
  <2>2. UNCHANGED <<walk, cursor, executed, relayed>>
    BY <1>1 DEF Anyone, checkpointPhase, forwardPhase, journals
  <2> QED  BY <2>1, <2>2, GrowthSteps
<1>2. CASE StartReconcile  BY <1>2, ReconcileSteps
<1>3. CASE Walking  BY <1>3, EndSteps, ReconcileSteps DEF Walking
<1>4. CASE Proving  BY <1>4, ReconcileSteps DEF Proving
<1>5. CASE Executing \/ Relaying  BY <1>5, JournalSteps
<1>6. CASE VaultSettles \/ RollupConfirms \/ Fund \/ UNCHANGED laneVars
  <2>1. made' \in Nat /\ UNCHANGED <<sends, accepted, burnt, gate, proven>>
    BY <1>0, <1>6 DEF VaultSettles, RollupConfirms, Fund, laneVars, ends, middle
  <2>2. UNCHANGED <<walk, cursor, executed, relayed>>
    BY <1>6 DEF VaultSettles, RollupConfirms, Fund, laneVars, journals
  <2>3. Grows  BY <2>1, NothingGrows
  <2> QED  BY <2>2, <2>3, GrowthSteps
<1>7. CASE KeeperCrash
  <2>1. UNCHANGED <<made, sends, accepted, burnt, gate, proven, executed, relayed, cursor>>
    BY <1>7 DEF KeeperCrash, ends, middle, journals
  <2>2. Grows  BY <1>0, <2>1, NothingGrows
  <2>3. WalkOK' /\ cursor' \in 0..Len(gate')
    BY <1>7, <2>1 DEF KeeperCrash, WalkOK, LaneInv
  <2> QED  BY <2>1, <2>2, <2>3, StepsKeep
<1> QED  BY <1>1, <1>2, <1>3, <1>4, <1>5, <1>6, <1>7 DEF LaneNext

-----------------------------------------------------------------------------
(* The theorems.                                                           *)

\* The chains only grow, and the walk of a tick counts whatever it leaves unproven.
THEOREM LaneInvariant == LaneSpec => []LaneInv
<1>1. LaneInit => LaneInv  BY LaneInvInit
<1>2. LaneInv /\ [LaneNext]_laneVars => LaneInv'  BY LaneStepKeeps
<1> QED  BY <1>1, <1>2, PTL DEF LaneSpec

\* What the journals of the three processes call done has happened on the chains, in every
\* order of arrivals and crashes (keeper.mjs: the cursor of reconcilePhase).
THEOREM JournalsBehind == LaneSpec => []JournalsAreBehind
<1>1. LaneInv => JournalsAreBehind  BY DEF LaneInv
<1> QED  BY <1>1, LaneInvariant, PTL

-----------------------------------------------------------------------------
(* TxJournal: the inductive invariant of the sender of transactions.       *)

Awaits == {"broadcast", "wait", "nonce"}
At(a, k) == pc = [at |-> a, key |-> k]

\* A task that has not been given up has an attempt left.
AttemptsLeft == \A k \in Keys : task[k].state # "Quarantined" => task[k].attempts < MaxAttempts

\* Whoever awaits an answer for a key has its task on disk as Sent.
AwaitsSent == \A k \in Keys : \A a \in Awaits : At(a, k) => task[k].state = "Sent"

\* What is being broadcast is known to nobody yet.
BroadcastIsNew == \A k \in Keys : At("broadcast", k) => txs[Current(k)].status = "signed"

\* A nonce that was mined is below the account's nonce.
MinedIsBelow ==
  \A s \in Slots : txs[s].status \in {"landed", "reverted"} => txs[s].nonce < latest

SenderInv ==
  /\ TxTypeOK
  /\ AttemptsLeft
  /\ AwaitsSent
  /\ BroadcastIsNew
  /\ MinedIsBelow
  /\ SignaturesAreCounted
  /\ ConfirmedHasLanded

-----------------------------------------------------------------------------
(* What the steps do to the tasks and to the signatures.                   *)

TaskType == [state : TaskState, attempts : 0..MaxAttempts, opened : Openings]

\* The task counts the attempt of its key that has this slot.
CountedBy(t, s) ==
  \/ s[2] < t.opened
  \/ /\ s[2] = t.opened
     /\ s[3] <= t.attempts + (IF t.state \in {"Sent", "Confirmed"} THEN 1 ELSE 0)

\* A failed attempt is counted, and the last one quarantines the task.
LEMMA FailedCounts ==
  ASSUME NEW t \in TaskType, t.attempts < MaxAttempts
  PROVE  /\ Failed(t) \in TaskType
         /\ Failed(t).attempts = t.attempts + 1 /\ Failed(t).opened = t.opened
         /\ Failed(t).state \in {"Quarantined", "Retryable"}
         /\ Failed(t).state # "Quarantined" => Failed(t).attempts < MaxAttempts
<1> DEFINE st == IF t.attempts + 1 >= MaxAttempts THEN "Quarantined" ELSE "Retryable"
<1>1. /\ Failed(t) = [t EXCEPT !.state = st, !.attempts = t.attempts + 1]
      /\ st \in {"Quarantined", "Retryable"}
  BY DEF Failed
<1>2. t.attempts \in Nat /\ t.attempts + 1 \in 0..MaxAttempts
  BY TxAssumption DEF TaskType
<1>3. st # "Quarantined" => t.attempts + 1 < MaxAttempts  BY <1>2, TxAssumption
<1> HIDE DEF st
<1>4. st \in TaskState  BY <1>1 DEF TaskState
<1> QED  BY <1>1, <1>2, <1>3, <1>4 DEF TaskType

\* The signature a task is about is one of its slots.
LEMMA CurrentIsSlot ==
  ASSUME SenderInv, NEW k \in Keys, task[k].state # "Quarantined"
  PROVE  /\ Current(k) \in Slots
         /\ Current(k) = <<k, task[k].opened, task[k].attempts + 1>>
         /\ task[k] \in TaskType /\ task[k].opened \in Nat
         /\ task[k].attempts \in Nat /\ task[k].attempts < MaxAttempts
<1>1. task[k] \in TaskType  BY DEF SenderInv, TxTypeOK, TaskType
<1>2. task[k].attempts \in 0..MaxAttempts /\ task[k].attempts < MaxAttempts
  BY <1>1 DEF SenderInv, AttemptsLeft, TaskType
<1>3. task[k].opened \in Openings  BY <1>1 DEF TaskType
<1>4. task[k].opened \in Nat  BY <1>3, TxAssumption DEF Openings
<1>5. task[k].attempts + 1 \in Attempts  BY <1>2, TxAssumption DEF Attempts
<1> QED  BY <1>1, <1>2, <1>3, <1>4, <1>5 DEF Current, Slots

\* A broadcast changes what is known of one signature, of a task that is Sent.
LEMMA TouchKeeps ==
  ASSUME SenderInv, NEW k \in Keys, task[k].state = "Sent", NEW v \in {"air", "rejected"},
         txs[Current(k)].status \notin {"landed", "reverted"},
         txs' = [txs EXCEPT ![Current(k)].status = v]
  PROVE  /\ txs' \in [Slots -> [status : TxStatus, nonce : Nat]]
         /\ \A s \in Slots : s # Current(k) => txs'[s] = txs[s]
         /\ txs'[Current(k)].status = v
         /\ \A s \in Slots : txs'[s].nonce = txs[s].nonce
<1>1. Current(k) \in Slots  BY CurrentIsSlot
<1>2. txs \in [Slots -> [status : TxStatus, nonce : Nat]]  BY DEF SenderInv, TxTypeOK
<1>3. v \in TxStatus  BY DEF TxStatus
<1> HIDE DEF Current
<1> QED  BY <1>1, <1>2, <1>3

\* An attempt that fails with its signature unchanged keeps the invariant.
LEMMA FailKeeps ==
  ASSUME SenderInv, NEW k \in Keys, task[k].state \in {"Ready", "Retryable", "Sent"},
         markFailure(k), pc' = Idle, UNCHANGED <<txs, latest, old, aborts>>
  PROVE  SenderInv'
<1>1. /\ task[k] \in TaskType /\ task[k].attempts < MaxAttempts
      /\ task \in [Keys -> TaskType]
  BY CurrentIsSlot DEF SenderInv, TxTypeOK, TaskType
<1>2. /\ Failed(task[k]) \in TaskType
      /\ Failed(task[k]).attempts = task[k].attempts + 1
      /\ Failed(task[k]).opened = task[k].opened
      /\ Failed(task[k]).state \in {"Quarantined", "Retryable"}
      /\ Failed(task[k]).state # "Quarantined" => Failed(task[k]).attempts < MaxAttempts
  BY <1>1, FailedCounts
<1>3. /\ task' \in [Keys -> TaskType] /\ task'[k] = Failed(task[k])
      /\ \A j \in Keys : j # k => task'[j] = task[j]
  BY <1>1, <1>2 DEF markFailure
<1>4. TxTypeOK'  BY <1>3 DEF SenderInv, TxTypeOK, TaskType, PcType
<1>5. AttemptsLeft'  BY <1>2, <1>3 DEF SenderInv, AttemptsLeft
<1>6. AwaitsSent' /\ BroadcastIsNew'  BY DEF AwaitsSent, BroadcastIsNew, At, Awaits, Idle
<1>7. MinedIsBelow'  BY DEF SenderInv, MinedIsBelow
<1>8. SignaturesAreCounted'
  <2> SUFFICES ASSUME NEW s \in Slots, txs[s].status # "none"
               PROVE  CountedBy(task'[s[1]], s)
    BY DEF SignaturesAreCounted, CountedBy
  <2>1. CountedBy(task[s[1]], s)  BY DEF SenderInv, SignaturesAreCounted, CountedBy
  <2>2. s[1] \in Keys /\ s[3] \in Nat  BY DEF Slots, Attempts
  <2> QED  BY <1>1, <1>2, <1>3, <2>1, <2>2 DEF CountedBy, TaskType
<1>9. ConfirmedHasLanded'
  BY <1>2, <1>3 DEF SenderInv, ConfirmedHasLanded, Current
<1> QED  BY <1>4, <1>5, <1>6, <1>7, <1>8, <1>9 DEF SenderInv

\* So does a broadcast that leaves the task Sent.
LEMMA BroadcastKeeps ==
  ASSUME SenderInv, NEW k \in Keys, task[k].state = "Sent",
         txs[Current(k)].status \notin {"landed", "reverted"},
         txs' = [txs EXCEPT ![Current(k)].status = "air"],
         pc' \in {Idle, [at |-> "wait", key |-> k]}, UNCHANGED <<task, latest, old, aborts>>
  PROVE  SenderInv'
<1>1. /\ txs' \in [Slots -> [status : TxStatus, nonce : Nat]]
      /\ \A s \in Slots : s # Current(k) => txs'[s] = txs[s]
      /\ txs'[Current(k)].status = "air"
  BY TouchKeeps
<1>2. Current(k) = <<k, task[k].opened, task[k].attempts + 1>> /\ task[k].attempts \in Nat
  BY CurrentIsSlot
<1>3. TxTypeOK'  BY <1>1 DEF SenderInv, TxTypeOK, PcType
<1>4. AttemptsLeft'  BY DEF SenderInv, AttemptsLeft
<1>5. AwaitsSent' /\ BroadcastIsNew'
  BY DEF SenderInv, AwaitsSent, BroadcastIsNew, At, Awaits, Idle
<1>6. MinedIsBelow'
  BY <1>1 DEF SenderInv, MinedIsBelow
<1>7. SignaturesAreCounted'
  BY <1>1, <1>2 DEF SenderInv, SignaturesAreCounted
<1>8. ConfirmedHasLanded'
  <2> SUFFICES ASSUME NEW j \in Keys, task[j].state = "Confirmed"
               PROVE  txs'[Current(j)].status = "landed"
    BY DEF ConfirmedHasLanded, Current
  <2>1. Current(j) \in Slots /\ Current(j) = <<j, task[j].opened, task[j].attempts + 1>>  BY CurrentIsSlot
  <2>2. j # k  OBVIOUS
  <2>3. Current(j) # Current(k)  BY <1>2, <2>1, <2>2
  <2> QED  BY <1>1, <2>1, <2>3 DEF SenderInv, ConfirmedHasLanded
<1> QED  BY <1>3, <1>4, <1>5, <1>6, <1>7, <1>8 DEF SenderInv

\* A refused broadcast fails the attempt, whether or not the node holds it.
LEMMA RejectedKeeps ==
  ASSUME SenderInv, NEW k \in Keys, Rejected(k)
  PROVE  SenderInv'
<1>0. task[k].state = "Sent" /\ txs[Current(k)].status = "signed"
  BY DEF SenderInv, AwaitsSent, BroadcastIsNew, At, Awaits, Rejected
<1>1. PICK v \in {"air", "rejected"} : txs' = [txs EXCEPT ![Current(k)].status = v]
  BY DEF Rejected
<1>2. /\ txs' \in [Slots -> [status : TxStatus, nonce : Nat]]
      /\ \A s \in Slots : s # Current(k) => txs'[s] = txs[s]
      /\ txs'[Current(k)].status = v
  BY <1>0, <1>1, TouchKeeps
<1>3. /\ Current(k) = <<k, task[k].opened, task[k].attempts + 1>> /\ task[k].attempts \in Nat
      /\ task[k] \in TaskType /\ task[k].attempts < MaxAttempts
      /\ task \in [Keys -> TaskType]
  BY <1>0, CurrentIsSlot DEF SenderInv, TxTypeOK, TaskType
<1>4. /\ Failed(task[k]) \in TaskType
      /\ Failed(task[k]).attempts = task[k].attempts + 1
      /\ Failed(task[k]).opened = task[k].opened
      /\ Failed(task[k]).state \in {"Quarantined", "Retryable"}
      /\ Failed(task[k]).state # "Quarantined" => Failed(task[k]).attempts < MaxAttempts
  BY <1>3, FailedCounts
<1>5. /\ task' \in [Keys -> TaskType] /\ task'[k] = Failed(task[k])
      /\ \A j \in Keys : j # k => task'[j] = task[j]
      /\ pc' = Idle /\ UNCHANGED <<latest, old, aborts>>
  BY <1>3, <1>4 DEF Rejected, markFailure
<1>6. TxTypeOK'  BY <1>2, <1>5 DEF SenderInv, TxTypeOK, TaskType, PcType
<1>7. AttemptsLeft'  BY <1>4, <1>5 DEF SenderInv, AttemptsLeft
<1>8. AwaitsSent' /\ BroadcastIsNew'  BY <1>5 DEF AwaitsSent, BroadcastIsNew, At, Awaits, Idle
<1>9. MinedIsBelow'  BY <1>2, <1>5 DEF SenderInv, MinedIsBelow
<1>10. SignaturesAreCounted'
  <2> SUFFICES ASSUME NEW s \in Slots, txs'[s].status # "none"
               PROVE  CountedBy(task'[s[1]], s)
    BY DEF SignaturesAreCounted, CountedBy
  <2>1. CASE s = Current(k)  BY <1>3, <1>4, <1>5, <2>1 DEF CountedBy
  <2>2. CASE s # Current(k)
    <3>1. s[1] \in Keys /\ s[3] \in Nat  BY DEF Slots, Attempts
    <3>2. CountedBy(task[s[1]], s)
      BY <1>2, <2>2 DEF SenderInv, SignaturesAreCounted, CountedBy
    <3> QED  BY <1>0, <1>3, <1>4, <1>5, <3>1, <3>2 DEF CountedBy, TaskType
  <2> QED  BY <2>1, <2>2
<1>11. ConfirmedHasLanded'
  <2> SUFFICES ASSUME NEW j \in Keys, task'[j].state = "Confirmed"
               PROVE  txs'[Current(j)'].status = "landed"
    BY DEF ConfirmedHasLanded
  <2>1. j # k /\ task'[j] = task[j]  BY <1>4, <1>5
  <2>2. Current(j) \in Slots /\ Current(j) = <<j, task[j].opened, task[j].attempts + 1>> /\ Current(j)' = Current(j)
    BY <2>1, CurrentIsSlot DEF Current
  <2>3. Current(j) # Current(k)  BY <1>3, <2>1, <2>2
  <2> QED  BY <1>2, <2>1, <2>2, <2>3 DEF SenderInv, ConfirmedHasLanded
<1> QED  BY <1>6, <1>7, <1>8, <1>9, <1>10, <1>11 DEF SenderInv

\* A receipt confirms the attempt it was asked for.
LEMMA ConfirmKeeps ==
  ASSUME SenderInv, NEW k \in Keys, task[k].state = "Sent", txs[Current(k)].status = "landed",
         markConfirmed(k), pc' = Idle, UNCHANGED <<txs, latest, old, aborts>>
  PROVE  SenderInv'
<1>1. /\ task[k] \in TaskType /\ task[k].attempts < MaxAttempts
      /\ task \in [Keys -> TaskType]
  BY CurrentIsSlot DEF SenderInv, TxTypeOK, TaskType
<1>2. /\ task' \in [Keys -> TaskType]
      /\ task'[k].state = "Confirmed" /\ task'[k].attempts = task[k].attempts
      /\ task'[k].opened = task[k].opened
      /\ \A j \in Keys : j # k => task'[j] = task[j]
  BY <1>1 DEF markConfirmed, TaskType, TaskState
<1>3. \A j \in Keys : Current(j)' = Current(j)  BY <1>2 DEF Current
<1>4. TxTypeOK'  BY <1>2 DEF SenderInv, TxTypeOK, TaskType, PcType
<1>5. AttemptsLeft'  BY <1>1, <1>2 DEF SenderInv, AttemptsLeft
<1>6. AwaitsSent' /\ BroadcastIsNew'  BY DEF AwaitsSent, BroadcastIsNew, At, Awaits, Idle
<1>7. MinedIsBelow'  BY DEF SenderInv, MinedIsBelow
<1>8. SignaturesAreCounted'
  BY <1>1, <1>2 DEF SenderInv, SignaturesAreCounted, Slots
<1>9. ConfirmedHasLanded'  BY <1>2, <1>3 DEF SenderInv, ConfirmedHasLanded
<1> QED  BY <1>4, <1>5, <1>6, <1>7, <1>8, <1>9 DEF SenderInv

\* A signature takes the slot after the attempts that failed, which is free.
LEMMA SignKeeps ==
  ASSUME SenderInv, NEW k \in Keys, Sign(k)
  PROVE  /\ SenderInv'
         /\ txs[Current(k)].status = "none" /\ txs'[Current(k)].status = "signed"
         /\ \A s \in Slots : s # Current(k) => txs'[s] = txs[s]
<1>1. /\ task[k].state \in {"Ready", "Retryable"} /\ pc = Idle
      /\ pc' = [at |-> "broadcast", key |-> k] /\ old' = old \ {k}
      /\ UNCHANGED <<latest, aborts>>
  BY DEF Sign, MayAttempt
<1>2. PICK n \in 0..NonceBound : txs' = [txs EXCEPT ![Current(k)] = [status |-> "signed", nonce |-> n]]
  BY DEF Sign
<1>3. /\ Current(k) \in Slots /\ Current(k) = <<k, task[k].opened, task[k].attempts + 1>>
      /\ task[k] \in TaskType /\ task[k].attempts \in Nat /\ task[k].attempts < MaxAttempts
      /\ task \in [Keys -> TaskType]
  BY <1>1, CurrentIsSlot DEF SenderInv, TxTypeOK, TaskType
<1>4. /\ task' \in [Keys -> TaskType]
      /\ task'[k].state = "Sent" /\ task'[k].attempts = task[k].attempts
      /\ task'[k].opened = task[k].opened
      /\ \A j \in Keys : j # k => task'[j] = task[j]
  BY <1>3 DEF Sign, TaskType, TaskState
<1>5. /\ txs' \in [Slots -> [status : TxStatus, nonce : Nat]]
      /\ txs'[Current(k)].status = "signed"
      /\ \A s \in Slots : s # Current(k) => txs'[s] = txs[s]
  <2> HIDE DEF Current
  <2>1. [status |-> "signed", nonce |-> n] \in [status : TxStatus, nonce : Nat]
    BY TxAssumption DEF TxStatus
  <2>2. txs \in [Slots -> [status : TxStatus, nonce : Nat]]  BY DEF SenderInv, TxTypeOK
  <2> QED  BY <1>2, <1>3, <2>1, <2>2
<1>6. txs[Current(k)].status = "none"
  <2> DEFINE s == Current(k)
  <2>1. s[1] = k /\ s[2] = task[k].opened /\ s[3] = task[k].attempts + 1  BY <1>3
  <2>3. task[k].opened \in Nat  BY <1>1, CurrentIsSlot
  <2> HIDE DEF s
  <2>2. ~ CountedBy(task[k], s)  BY <1>1, <1>3, <2>1, <2>3 DEF CountedBy
  <2> USE DEF s
  <2> QED  BY <1>3, <2>1, <2>2 DEF SenderInv, SignaturesAreCounted, CountedBy
<1>7. \A j \in Keys : Current(j)' = Current(j)  BY <1>4 DEF Current
<1>8. TxTypeOK'  BY <1>1, <1>4, <1>5 DEF SenderInv, TxTypeOK, TaskType, PcType
<1>9. AttemptsLeft'  BY <1>3, <1>4 DEF SenderInv, AttemptsLeft
<1>10. AwaitsSent'  BY <1>1, <1>4 DEF AwaitsSent, At
<1>11. BroadcastIsNew'  BY <1>1, <1>5, <1>7 DEF BroadcastIsNew, At
<1>12. MinedIsBelow'  BY <1>1, <1>5 DEF SenderInv, MinedIsBelow
<1>13. SignaturesAreCounted'
  <2> SUFFICES ASSUME NEW s \in Slots, txs'[s].status # "none"
               PROVE  CountedBy(task'[s[1]], s)
    BY DEF SignaturesAreCounted, CountedBy
  <2>1. CASE s = Current(k)  BY <1>3, <1>4, <2>1 DEF CountedBy
  <2>2. CASE s # Current(k)
    <3>1. s[1] \in Keys /\ s[3] \in Nat  BY DEF Slots, Attempts
    <3>2. CountedBy(task[s[1]], s)
      BY <1>5, <2>2 DEF SenderInv, SignaturesAreCounted, CountedBy
    <3> QED  BY <1>1, <1>3, <1>4, <3>1, <3>2 DEF CountedBy, TaskType
  <2> QED  BY <2>1, <2>2
<1>14. ConfirmedHasLanded'
  <2> SUFFICES ASSUME NEW j \in Keys, task'[j].state = "Confirmed"
               PROVE  txs'[Current(j)].status = "landed"
    BY <1>7 DEF ConfirmedHasLanded
  <2>1. j # k /\ task'[j] = task[j]  BY <1>4
  <2>2. Current(j) \in Slots /\ Current(j) = <<j, task[j].opened, task[j].attempts + 1>>
    BY <2>1, CurrentIsSlot
  <2>3. Current(j) # Current(k)  BY <1>3, <2>1, <2>2
  <2> QED  BY <1>5, <2>1, <2>2, <2>3 DEF SenderInv, ConfirmedHasLanded
<1> QED  BY <1>5, <1>6, <1>8, <1>9, <1>10, <1>11, <1>12, <1>13, <1>14 DEF SenderInv

\* A transaction is mined at the account's nonce, or dropped by the node.
LEMMA ChainKeeps ==
  ASSUME SenderInv, NEW s \in Slots, Mine(s) \/ Evict(s)
  PROVE  /\ SenderInv'
         /\ txs[s].status \in {"air", "hidden"}
         /\ \A t \in Slots : t # s => txs'[t] = txs[t]
<1>1. txs[s].status \in {"air", "hidden"}  BY DEF Mine, Evict
<1>2. PICK v \in {"landed", "reverted", "hidden"} : txs' = [txs EXCEPT ![s].status = v]
  BY DEF Mine, Evict
<1>3. v \in TxStatus  BY DEF TxStatus
<1>4. /\ txs' \in [Slots -> [status : TxStatus, nonce : Nat]]
      /\ txs'[s].status = v /\ txs'[s].nonce = txs[s].nonce
      /\ \A t \in Slots : t # s => txs'[t] = txs[t]
  BY <1>2, <1>3 DEF SenderInv, TxTypeOK
<1>5. UNCHANGED <<task, pc, old, aborts>>  BY DEF Mine, Evict
<1>6. latest \in Nat /\ latest' \in {latest, latest + 1}
  BY DEF Mine, Evict, SenderInv, TxTypeOK
<1>7. v # "hidden" => txs[s].nonce = latest /\ latest' = latest + 1
  <2>1. CASE Mine(s)  BY <2>1 DEF Mine
  <2>2. CASE Evict(s)
    <3>1. txs'[s].status = "hidden"  BY <2>2 DEF Evict, SenderInv, TxTypeOK, TxStatus
    <3> QED  BY <1>4, <3>1
  <2> QED  BY <2>1, <2>2
<1>8. \A j \in Keys : Current(j)' = Current(j)  BY <1>5 DEF Current
<1>9. TxTypeOK'  BY <1>4, <1>5, <1>6 DEF SenderInv, TxTypeOK, PcType
<1>10. AttemptsLeft' /\ AwaitsSent'  BY <1>5 DEF SenderInv, AttemptsLeft, AwaitsSent, At
<1>11. BroadcastIsNew'
  <2> SUFFICES ASSUME NEW j \in Keys, At("broadcast", j)
               PROVE  txs'[Current(j)].status = "signed"
    BY <1>5, <1>8 DEF BroadcastIsNew, At
  <2>1. txs[Current(j)].status = "signed"  BY DEF SenderInv, BroadcastIsNew
  <2>2. task[j].state = "Sent"  BY DEF SenderInv, AwaitsSent, Awaits
  <2>3. Current(j) \in Slots  BY <2>2, CurrentIsSlot
  <2> QED  BY <1>1, <1>4, <2>1, <2>3
<1>12. MinedIsBelow'
  <2> SUFFICES ASSUME NEW t \in Slots, txs'[t].status \in {"landed", "reverted"}
               PROVE  txs'[t].nonce < latest'
    BY DEF MinedIsBelow
  <2>0. txs[t].nonce \in Nat  BY DEF SenderInv, TxTypeOK
  <2>1. CASE t = s  BY <1>4, <1>6, <1>7, <2>0, <2>1
  <2>2. CASE t # s
    <3>1. txs[t].nonce < latest  BY <1>4, <2>2 DEF SenderInv, MinedIsBelow
    <3> QED  BY <1>4, <1>6, <2>0, <2>2, <3>1
  <2> QED  BY <2>1, <2>2
<1>13. SignaturesAreCounted'
  BY <1>1, <1>4, <1>5 DEF SenderInv, SignaturesAreCounted
<1>14. ConfirmedHasLanded'
  <2> SUFFICES ASSUME NEW j \in Keys, task[j].state = "Confirmed"
               PROVE  txs'[Current(j)].status = "landed"
    BY <1>5, <1>8 DEF ConfirmedHasLanded
  <2>1. Current(j) \in Slots  BY CurrentIsSlot
  <2>2. txs[Current(j)].status = "landed"  BY DEF SenderInv, ConfirmedHasLanded
  <2> QED  BY <1>1, <1>4, <2>1, <2>2
<1> QED  BY <1>1, <1>4, <1>9, <1>10, <1>11, <1>12, <1>13, <1>14 DEF SenderInv

\* A task that is opened again has used none of the slots of its new opening.
LEMMA ReopenKeeps ==
  ASSUME SenderInv, NEW k \in Keys, Reopen(k)
  PROVE  SenderInv'
<1>1. /\ task \in [Keys -> TaskType] /\ task[k].opened \in Nat
      /\ task[k].state = "Quarantined" /\ task[k].opened + 1 \in Openings
      /\ pc = Idle /\ UNCHANGED <<txs, latest, pc, old, aborts>>
  BY TxAssumption DEF Reopen, SenderInv, TxTypeOK, TaskType, Openings
<1>2. /\ task'[k] = [state |-> "Ready", attempts |-> 0, opened |-> task[k].opened + 1]
      /\ \A j \in Keys : j # k => task'[j] = task[j]
  BY <1>1 DEF Reopen
<1>3. task' \in [Keys -> TaskType]
  BY <1>1, TxAssumption DEF Reopen, TaskType, TaskState
<1>4. TxTypeOK'  BY <1>1, <1>3 DEF SenderInv, TxTypeOK, TaskType, PcType
<1>5. AttemptsLeft'  BY <1>2, TxAssumption DEF SenderInv, AttemptsLeft
<1>6. AwaitsSent' /\ BroadcastIsNew'
  BY <1>1 DEF AwaitsSent, BroadcastIsNew, At, Awaits, Idle
<1>7. MinedIsBelow'  BY <1>1 DEF SenderInv, MinedIsBelow
<1>8. SignaturesAreCounted'
  <2> SUFFICES ASSUME NEW s \in Slots, txs[s].status # "none"
               PROVE  CountedBy(task'[s[1]], s)
    BY <1>1 DEF SignaturesAreCounted, CountedBy
  <2>1. CountedBy(task[s[1]], s)  BY DEF SenderInv, SignaturesAreCounted, CountedBy
  <2>2. s[1] \in Keys /\ s[2] \in Nat  BY TxAssumption DEF Slots, Openings
  <2> QED  BY <1>1, <1>2, <2>1, <2>2 DEF CountedBy
<1>9. ConfirmedHasLanded'
  <2> SUFFICES ASSUME NEW j \in Keys, task'[j].state = "Confirmed"
               PROVE  txs[Current(j)'].status = "landed"
    BY <1>1 DEF ConfirmedHasLanded
  <2>1. task'[j] = task[j]  BY <1>2
  <2> QED  BY <2>1 DEF SenderInv, ConfirmedHasLanded, Current
<1> QED  BY <1>4, <1>5, <1>6, <1>7, <1>8, <1>9 DEF SenderInv

\* Ending a wait, starting a read, growing old and resting keep the invariant.
LEMMA RestKeeps ==
  ASSUME SenderInv, UNCHANGED <<task, txs, latest>>, old' \subseteq Keys, aborts' \in Nat,
         \/ pc' \in {pc, Idle}
         \/ \E k \in Keys : task[k].state = "Sent" /\ pc' = [at |-> "nonce", key |-> k]
  PROVE  SenderInv'
<1>1. \A k \in Keys : Current(k)' = Current(k)  BY DEF Current
<1>2. TxTypeOK'  BY DEF SenderInv, TxTypeOK, PcType
<1>3. ASSUME NEW k \in Keys, NEW a \in Awaits, At(a, k)'
      PROVE  At(a, k) \/ (a = "nonce" /\ task[k].state = "Sent")
  <2>1. pc' # Idle  BY <1>3 DEF At, Idle
  <2>2. CASE pc' = pc  BY <1>3, <2>2 DEF At
  <2>3. ASSUME NEW j \in Keys, task[j].state = "Sent", pc' = [at |-> "nonce", key |-> j]
        PROVE  a = "nonce" /\ task[k].state = "Sent"
    <3>1. pc'.at = a /\ pc'.key = k  BY <1>3 DEF At
    <3>2. pc'.at = "nonce" /\ pc'.key = j  BY <2>3
    <3> QED  BY <2>3, <3>1, <3>2
  <2> QED  BY <2>1, <2>2, <2>3
<1>4. AwaitsSent'  BY <1>3 DEF SenderInv, AwaitsSent
<1>5. BroadcastIsNew'  BY <1>1, <1>3 DEF SenderInv, BroadcastIsNew, Awaits
<1>6. AttemptsLeft' /\ MinedIsBelow' /\ SignaturesAreCounted'
  BY DEF SenderInv, AttemptsLeft, MinedIsBelow, SignaturesAreCounted
<1>7. ConfirmedHasLanded'  BY <1>1 DEF SenderInv, ConfirmedHasLanded
<1> QED  BY <1>2, <1>4, <1>5, <1>6, <1>7 DEF SenderInv

-----------------------------------------------------------------------------
(* Every step keeps the invariant.                                         *)

\* The sender starts with empty books.
LEMMA InitInv == TxInit => SenderInv
<1> SUFFICES ASSUME TxInit PROVE SenderInv  OBVIOUS
<1>1. TxTypeOK
  BY TxAssumption DEF TxInit, TxTypeOK, TaskState, TxStatus, PcType, Openings
<1>2. AttemptsLeft  BY TxAssumption DEF TxInit, AttemptsLeft
<1>3. AwaitsSent /\ BroadcastIsNew  BY DEF TxInit, AwaitsSent, BroadcastIsNew, At, Awaits, Idle
<1>4. MinedIsBelow /\ SignaturesAreCounted /\ ConfirmedHasLanded
  BY DEF TxInit, MinedIsBelow, SignaturesAreCounted, ConfirmedHasLanded
<1> QED  BY <1>1, <1>2, <1>3, <1>4 DEF SenderInv

\* One step of the keeper at one key.
LEMMA KeeperKeeps ==
  ASSUME SenderInv, NEW k \in Keys, Keeper(k)
  PROVE  SenderInv'
<1>1. old \subseteq Keys /\ aborts \in Nat  BY DEF SenderInv, TxTypeOK
<1>2. /\ \A a \in Awaits : At(a, k) => task[k].state = "Sent"
      /\ At("broadcast", k) => txs[Current(k)].status = "signed"
  BY DEF SenderInv, AwaitsSent, BroadcastIsNew
<1>3. CASE SimulationFails(k)
  BY <1>3, FailKeeps DEF SimulationFails, MayAttempt
<1>4. CASE Sign(k)  BY <1>4, SignKeeps
<1>5. CASE Accepted(k)
  BY <1>2, <1>5, BroadcastKeeps DEF Accepted, At, Awaits
<1>6. CASE Rejected(k)  BY <1>6, RejectedKeeps
<1>7. CASE Ambiguous(k)
  <2>1. task[k].state = "Sent" /\ txs[Current(k)].status = "signed"
    BY <1>2, <1>7 DEF Ambiguous, At, Awaits
  <2>2. pc' = Idle /\ UNCHANGED <<task, latest, old, aborts>>  BY <1>7 DEF Ambiguous
  <2>3. CASE UNCHANGED txs  BY <1>1, <2>2, <2>3, RestKeeps
  <2>4. CASE txs' = [txs EXCEPT ![Current(k)].status = "air"]
    BY <2>1, <2>2, <2>4, BroadcastKeeps
  <2> QED  BY <1>7, <2>3, <2>4 DEF Ambiguous
<1>8. CASE ReceiptSeen(k)
  <2>1. task[k].state = "Sent"  BY <1>2, <1>8 DEF ReceiptSeen, At, Awaits
  <2>2. CASE txs[Current(k)].status = "landed" /\ markConfirmed(k)
    BY <1>8, <2>1, <2>2, ConfirmKeeps DEF ReceiptSeen
  <2>3. CASE markFailure(k)
    BY <1>8, <2>1, <2>3, FailKeeps DEF ReceiptSeen
  <2> QED  BY <1>8, <2>2, <2>3 DEF ReceiptSeen
<1>9. CASE WaitTimesOut(k)  BY <1>1, <1>9, RestKeeps DEF WaitTimesOut
<1>10. CASE ReadReceipt(k)
  <2>1. task[k].state = "Sent" /\ pc = Idle /\ UNCHANGED <<txs, latest, old, aborts>>
    BY <1>10 DEF ReadReceipt
  <2>2. CASE txs[Current(k)].status = "landed" /\ markConfirmed(k) /\ UNCHANGED pc
    BY <2>1, <2>2, ConfirmKeeps
  <2>3. CASE markFailure(k) /\ UNCHANGED pc  BY <2>1, <2>3, FailKeeps
  <2>4. CASE pc' = [at |-> "nonce", key |-> k] /\ UNCHANGED task
    BY <1>1, <2>1, <2>4, RestKeeps
  <2> QED  BY <1>10, <2>2, <2>3, <2>4 DEF ReadReceipt
<1>11. CASE ReadNonce(k)
  <2>1. /\ task[k].state = "Sent" /\ pc' = Idle /\ UNCHANGED <<latest, old, aborts>>
    BY <1>2, <1>11 DEF ReadNonce, At, Awaits
  <2>2. CASE markFailure(k) /\ UNCHANGED txs  BY <2>1, <2>2, FailKeeps
  <2>3. CASE /\ latest <= txs[Current(k)].nonce /\ UNCHANGED task
             /\ txs' = [txs EXCEPT ![Current(k)].status = "air"]
    <3>1. Current(k) \in Slots  BY <2>1, CurrentIsSlot
    <3>2. txs[Current(k)].status \notin {"landed", "reverted"}
      BY <2>3, <3>1 DEF SenderInv, TxTypeOK, MinedIsBelow
    <3> QED  BY <2>1, <2>3, <3>2, BroadcastKeeps
  <2>4. CASE UNCHANGED <<task, txs>>  BY <1>1, <2>1, <2>4, RestKeeps
  <2> QED  BY <1>11, <2>2, <2>3, <2>4 DEF ReadNonce
<1>12. CASE Reopen(k)  BY <1>12, ReopenKeeps
<1> QED  BY <1>3, <1>4, <1>5, <1>6, <1>7, <1>8, <1>9, <1>10, <1>11, <1>12 DEF Keeper

\* Every step of the system.
LEMMA TxStepKeeps == SenderInv /\ [TxNext]_txVars => SenderInv'
<1> SUFFICES ASSUME SenderInv, [TxNext]_txVars PROVE SenderInv'  OBVIOUS
<1>1. old \subseteq Keys /\ aborts \in Nat  BY DEF SenderInv, TxTypeOK
<1>2. ASSUME NEW k \in Keys, Keeper(k) PROVE SenderInv'  BY <1>2, KeeperKeeps
<1>3. ASSUME NEW k \in Keys, GrowOld(k) PROVE SenderInv'
  BY <1>1, <1>3, RestKeeps DEF GrowOld
<1>4. CASE Abort  BY <1>1, <1>4, RestKeeps DEF Abort
<1>5. ASSUME NEW s \in Slots, Mine(s) \/ Evict(s) PROVE SenderInv'  BY <1>5, ChainKeeps
<1>6. CASE UNCHANGED txVars  BY <1>1, <1>6, RestKeeps DEF txVars
<1> QED  BY <1>2, <1>3, <1>4, <1>5, <1>6 DEF TxNext

-----------------------------------------------------------------------------
(* What follows.                                                           *)

\* TxTypeOK: no task is attempted more often than MaxAttempts before it is opened again,
\* and a key's signatures stay in its slots (journal.mjs markFailure, taskGate, reopen).
THEOREM SenderTypes == TxSpec => []TxTypeOK
<1>1. SenderInv => TxTypeOK  BY DEF SenderInv
<1> QED  BY InitInv, TxStepKeeps, <1>1, PTL DEF TxSpec

\* SignaturesAreCounted: whatever is signed, the journal knows of (markSent before
\* the broadcast), through crashes, refusals, retries and reopenings, so that a key gets at
\* most MaxAttempts signatures in one opening.
THEOREM Counted == TxSpec => []SignaturesAreCounted
<1>1. SenderInv => SignaturesAreCounted  BY DEF SenderInv
<1> QED  BY InitInv, TxStepKeeps, <1>1, PTL DEF TxSpec

\* ConfirmedHasLanded: a task the journal calls Confirmed has run on the chain.
THEOREM Landed == TxSpec => []ConfirmedHasLanded
<1>1. SenderInv => ConfirmedHasLanded  BY DEF SenderInv
<1> QED  BY InitInv, TxStepKeeps, <1>1, PTL DEF TxSpec

-----------------------------------------------------------------------------
(* The sender implements TaskPromise: what the keeper was told changes only *)
(* with the task, what the chain ran only when a transaction is mined.      *)

Answers == [k \in Keys |-> AnswerOf(k)]
Opened == [k \in Keys |-> task[k].opened]
Effects == [k \in Keys |-> LandedAttempts(k)]

\* A step that mines nothing leaves the effects alone.
LEMMA SameEffects ==
  ASSUME \A s \in Slots : (txs'[s].status = "landed") <=> (txs[s].status = "landed")
  PROVE  Effects' = Effects
<1>1. \A k \in Keys, e \in Openings \X Attempts : <<k, e[1], e[2]>> \in Slots
  BY DEF Slots
<1>2. ASSUME NEW k \in Keys PROVE LandedAttempts(k)' = LandedAttempts(k)
  BY <1>1 DEF LandedAttempts
<1> QED  BY <1>2 DEF Effects

\* A failed attempt tells the keeper nothing, or that the task has stopped.
LEMMA FailAnswers ==
  ASSUME SenderInv, NEW k \in Keys, task[k].state \in {"Ready", "Retryable", "Sent"},
         markFailure(k), Effects' = Effects
  PROVE  Promise!Stop(k) \/ UNCHANGED Promise!promiseVars
<1>1. /\ task[k] \in TaskType /\ task[k].attempts < MaxAttempts
      /\ task \in [Keys -> TaskType]
  BY CurrentIsSlot DEF SenderInv, TxTypeOK, TaskType
<1>2. /\ task'[k].state \in {"Quarantined", "Retryable"} /\ task'[k].opened = task[k].opened
      /\ \A j \in Keys : j # k => task'[j] = task[j]
  BY <1>1, FailedCounts DEF markFailure
<1>6. Opened' = Opened  BY <1>2 DEF Opened
<1>3. /\ AnswerOf(k) = "open"
      /\ task'[k].state = "Quarantined" => AnswerOf(k)' = "stopped"
      /\ task'[k].state = "Retryable" => AnswerOf(k)' = "open"
      /\ \A j \in Keys : j # k => AnswerOf(j)' = AnswerOf(j)
  BY <1>2 DEF AnswerOf
<1>4. CASE task'[k].state = "Retryable"
  BY <1>3, <1>4, <1>6 DEF Promise!promiseVars, Effects, Opened
<1>5. CASE task'[k].state = "Quarantined"
  BY <1>3, <1>5, <1>6 DEF Promise!Stop, Effects, Opened
<1> QED  BY <1>2, <1>4, <1>5

\* A confirmed attempt tells the keeper that the task is done, and it has run.
LEMMA ConfirmAnswers ==
  ASSUME SenderInv, NEW k \in Keys, task[k].state = "Sent", txs[Current(k)].status = "landed",
         markConfirmed(k), Effects' = Effects
  PROVE  Promise!Done(k)
<1>1. /\ task \in [Keys -> TaskType]
      /\ Current(k) = <<k, task[k].opened, task[k].attempts + 1>>
      /\ task[k].opened \in Openings /\ task[k].attempts + 1 \in Attempts
  BY CurrentIsSlot, TxAssumption DEF SenderInv, TxTypeOK, TaskType, Attempts
<1>2. /\ task'[k].state = "Confirmed" /\ task'[k].opened = task[k].opened
      /\ \A j \in Keys : j # k => task'[j] = task[j]
  BY <1>1 DEF markConfirmed, TaskType
<1>6. Opened' = Opened  BY <1>2 DEF Opened
<1>3. AnswerOf(k) = "open" /\ AnswerOf(k)' = "done"
  BY <1>2 DEF AnswerOf
<1>4. \A j \in Keys : j # k => AnswerOf(j)' = AnswerOf(j)  BY <1>2 DEF AnswerOf
<1>5. <<task[k].opened, task[k].attempts + 1>> \in LandedAttempts(k)
  BY <1>1 DEF LandedAttempts
<1> QED  BY <1>3, <1>4, <1>5, <1>6 DEF Promise!Done, Effects, Opened

\* Broadcasting a signature that has not run makes nothing run.
LEMMA TouchSame ==
  ASSUME SenderInv, NEW k \in Keys, task[k].state = "Sent", NEW v \in {"air", "rejected"},
         txs[Current(k)].status \notin {"landed", "reverted"},
         txs' = [txs EXCEPT ![Current(k)].status = v]
  PROVE  Effects' = Effects
<1>1. /\ \A s \in Slots : s # Current(k) => txs'[s] = txs[s]
      /\ txs'[Current(k)].status = v
  BY TouchKeeps
<1>2. \A s \in Slots : (txs'[s].status = "landed") <=> (txs[s].status = "landed")
  BY <1>1
<1> QED  BY <1>2, SameEffects

\* A step of the promise, or none.
Implemented == Promise!PromiseNext \/ UNCHANGED Promise!promiseVars

\* One step of the keeper at one key.
LEMMA KeeperImplements ==
  ASSUME SenderInv, NEW k \in Keys, Keeper(k)
  PROVE  Implemented
<1>1. /\ \A a \in Awaits : At(a, k) => task[k].state = "Sent"
      /\ At("broadcast", k) => txs[Current(k)].status = "signed"
  BY DEF SenderInv, AwaitsSent, BroadcastIsNew
<1>2. ASSUME UNCHANGED txs PROVE Effects' = Effects  BY <1>2, SameEffects
<1>3. ASSUME UNCHANGED task, Effects' = Effects PROVE Implemented
  <2>1. \A j \in Keys : AnswerOf(j)' = AnswerOf(j)  BY <1>3 DEF AnswerOf
  <2>2. Opened' = Opened  BY <1>3 DEF Opened
  <2> QED  BY <1>3, <2>1, <2>2 DEF Implemented, Promise!promiseVars, Effects, Opened
<1>4. ASSUME task[k].state \in {"Ready", "Retryable", "Sent"}, markFailure(k), Effects' = Effects
      PROVE  Implemented
  BY <1>4, FailAnswers DEF Implemented, Promise!PromiseNext
<1>5. ASSUME task[k].state = "Sent", txs[Current(k)].status = "landed", markConfirmed(k),
             UNCHANGED txs
      PROVE  Implemented
  BY <1>2, <1>5, ConfirmAnswers DEF Implemented, Promise!PromiseNext
<1>6. CASE SimulationFails(k)  BY <1>2, <1>4, <1>6 DEF SimulationFails, MayAttempt
<1>7. CASE Sign(k)
  <2>1. /\ task[k].state \in {"Ready", "Retryable"} /\ task' = [task EXCEPT ![k].state = "Sent"]
    BY <1>7 DEF Sign, MayAttempt
  <2>2. \A s \in Slots : (txs'[s].status = "landed") <=> (txs[s].status = "landed")
    BY <1>7, SignKeeps
  <2>3. /\ task'[k].state = "Sent" /\ task'[k].opened = task[k].opened
        /\ \A j \in Keys : j # k => task'[j] = task[j]
    BY <2>1 DEF SenderInv, TxTypeOK
  <2>4. \A j \in Keys : AnswerOf(j)' = AnswerOf(j)  BY <2>1, <2>3 DEF AnswerOf
  <2>5. Effects' = Effects  BY <2>2, SameEffects
  <2>6. Opened' = Opened  BY <2>3 DEF Opened
  <2> QED  BY <2>4, <2>5, <2>6 DEF Implemented, Promise!promiseVars, Effects, Opened
<1>8. CASE Accepted(k)
  <2>1. Effects' = Effects  BY <1>1, <1>8, TouchSame DEF Accepted, At, Awaits
  <2> QED  BY <1>3, <1>8, <2>1 DEF Accepted
<1>9. CASE Rejected(k)
  <2>1. task[k].state = "Sent" /\ txs[Current(k)].status = "signed"
    BY <1>1, <1>9 DEF Rejected, At, Awaits
  <2>2. PICK v \in {"air", "rejected"} : txs' = [txs EXCEPT ![Current(k)].status = v]
    BY <1>9 DEF Rejected
  <2>3. Effects' = Effects  BY <2>1, <2>2, TouchSame
  <2> QED  BY <1>4, <1>9, <2>1, <2>3 DEF Rejected
<1>10. CASE Ambiguous(k)
  <2>1. task[k].state = "Sent" /\ txs[Current(k)].status = "signed" /\ UNCHANGED task
    BY <1>1, <1>10 DEF Ambiguous, At, Awaits
  <2>2. CASE UNCHANGED txs  BY <1>2, <1>3, <2>1, <2>2
  <2>3. CASE txs' = [txs EXCEPT ![Current(k)].status = "air"]  BY <1>3, <2>1, <2>3, TouchSame
  <2> QED  BY <1>10, <2>2, <2>3 DEF Ambiguous
<1>11. CASE ReceiptSeen(k)
  <2>1. task[k].state = "Sent" /\ UNCHANGED txs
    BY <1>1, <1>11 DEF ReceiptSeen, At, Awaits
  <2> QED  BY <1>2, <1>4, <1>5, <1>11, <2>1 DEF ReceiptSeen
<1>12. CASE WaitTimesOut(k)  BY <1>2, <1>3, <1>12 DEF WaitTimesOut
<1>13. CASE ReadReceipt(k)
  BY <1>2, <1>3, <1>4, <1>5, <1>13 DEF ReadReceipt
<1>14. CASE ReadNonce(k)
  <2>1. task[k].state = "Sent"  BY <1>1, <1>14 DEF ReadNonce, At, Awaits
  <2>2. CASE markFailure(k) /\ UNCHANGED txs  BY <1>2, <1>4, <2>1, <2>2
  <2>3. CASE /\ latest <= txs[Current(k)].nonce /\ UNCHANGED task
             /\ txs' = [txs EXCEPT ![Current(k)].status = "air"]
    <3>1. Current(k) \in Slots  BY <2>1, CurrentIsSlot
    <3>2. txs[Current(k)].status \notin {"landed", "reverted"}
      BY <2>3, <3>1 DEF SenderInv, TxTypeOK, MinedIsBelow
    <3> QED  BY <1>3, <2>1, <2>3, <3>2, TouchSame
  <2>4. CASE UNCHANGED <<task, txs>>  BY <1>2, <1>3, <2>4
  <2> QED  BY <1>14, <2>2, <2>3, <2>4 DEF ReadNonce
<1>15. CASE Reopen(k)
  <2>1. Effects' = Effects  BY <1>2, <1>15 DEF Reopen
  <2>2. /\ k \in Reopenable /\ task[k].state = "Quarantined"
        /\ task'[k].state = "Ready" /\ task'[k].opened = task[k].opened + 1
        /\ \A j \in Keys : j # k => task'[j] = task[j]
    BY <1>15 DEF Reopen, SenderInv, TxTypeOK
  <2>3. AnswerOf(k) = "stopped" /\ AnswerOf(k)' = "open"  BY <2>2 DEF AnswerOf
  <2>4. \A j \in Keys : j # k => AnswerOf(j)' = AnswerOf(j)  BY <2>2 DEF AnswerOf
  <2>5. Promise!Reopen(k)  BY <2>1, <2>2, <2>3, <2>4 DEF Promise!Reopen, Effects
  <2> QED  BY <2>5 DEF Implemented, Promise!PromiseNext
<1> QED  BY <1>6, <1>7, <1>8, <1>9, <1>10, <1>11, <1>12, <1>13, <1>14, <1>15 DEF Keeper

\* A transaction that is mined is an effect, or it reverts and nobody sees it.
LEMMA ChainImplements ==
  ASSUME SenderInv, NEW s \in Slots, Mine(s) \/ Evict(s)
  PROVE  Implemented
<1>1. /\ txs[s].status \in {"air", "hidden"}
      /\ \A t \in Slots : t # s => txs'[t] = txs[t]
  BY ChainKeeps
<1>2. /\ \A j \in Keys : AnswerOf(j)' = AnswerOf(j)
      /\ Opened' = Opened
  BY DEF Mine, Evict, AnswerOf, Opened
<1>3. CASE txs'[s].status # "landed"
  <2>1. \A t \in Slots : (txs'[t].status = "landed") <=> (txs[t].status = "landed")
    BY <1>1, <1>3
  <2>2. Effects' = Effects  BY <2>1, SameEffects
  <2> QED  BY <1>2, <2>2 DEF Implemented, Promise!promiseVars, Effects, Opened
<1>4. CASE txs'[s].status = "landed"
  <2> DEFINE k == s[1]
             e == <<s[2], s[3]>>
  <2>1. /\ k \in Keys /\ e \in Openings \X Attempts /\ s = <<k, e[1], e[2]>>
    BY DEF Slots
  <2>2. e \notin LandedAttempts(k)  BY <1>1, <2>1 DEF LandedAttempts
  <2>3. \A j \in Keys, f \in Openings \X Attempts :
          j # k \/ f # e => txs'[<<j, f[1], f[2]>>] = txs[<<j, f[1], f[2]>>]
    BY <1>1, <2>1 DEF Slots
  <2>4. LandedAttempts(k)' = LandedAttempts(k) \cup {e}
    BY <1>4, <2>1, <2>3 DEF LandedAttempts
  <2>5. \A j \in Keys : j # k => LandedAttempts(j)' = LandedAttempts(j)
    BY <2>3 DEF LandedAttempts
  <2>6. e \in (0..task[k].opened) \X (1..MaxAttempts)
    <3>1. CountedBy(task[s[1]], s)
      BY <1>1 DEF SenderInv, SignaturesAreCounted, CountedBy
    <3>2. task[k].opened \in Nat /\ s[2] \in Nat
      BY <2>1, TxAssumption DEF SenderInv, TxTypeOK, Openings
    <3>3. s[2] \in 0..task[k].opened  BY <3>1, <3>2 DEF CountedBy
    <3> QED  BY <2>1, <3>3 DEF Attempts
  <2> HIDE DEF k, e
  <2>7. Effects' = [Effects EXCEPT ![k] = @ \cup {e}]  BY <2>1, <2>4, <2>5 DEF Effects
  <2>8. Promise!Effect(k)
    BY <1>2, <2>1, <2>2, <2>6, <2>7 DEF Promise!Effect, Effects, Opened
  <2> QED  BY <2>1, <2>8 DEF Implemented, Promise!PromiseNext
<1> QED  BY <1>3, <1>4

\* Every step.
LEMMA StepImplements ==
  SenderInv /\ [TxNext]_txVars => [Promise!PromiseNext]_(Promise!promiseVars)
<1> SUFFICES ASSUME SenderInv, [TxNext]_txVars PROVE Implemented
  BY DEF Implemented
<1>1. ASSUME UNCHANGED <<task, txs>> PROVE Implemented
  <2>1. Effects' = Effects  BY <1>1, SameEffects
  <2>2. \A j \in Keys : AnswerOf(j)' = AnswerOf(j)  BY <1>1 DEF AnswerOf
  <2>3. Opened' = Opened  BY <1>1 DEF Opened
  <2> QED  BY <2>1, <2>2, <2>3 DEF Implemented, Promise!promiseVars, Effects, Opened
<1>2. ASSUME NEW k \in Keys, Keeper(k)
      PROVE  Implemented
  BY <1>2, KeeperImplements
<1>3. ASSUME NEW k \in Keys, GrowOld(k) PROVE Implemented
  BY <1>1, <1>3 DEF GrowOld
<1>4. CASE Abort  BY <1>1, <1>4 DEF Abort
<1>5. ASSUME NEW s \in Slots, Mine(s) \/ Evict(s)
      PROVE  Implemented
  BY <1>5, ChainImplements
<1>6. CASE UNCHANGED txVars  BY <1>1, <1>6 DEF txVars
<1> QED  BY <1>2, <1>3, <1>4, <1>5, <1>6 DEF TxNext

\* KeepsPromise: with crashes, refusals, evictions and replaced nonces the keeper is
\* told "done" once and only of what has run, and no task runs more than MaxAttempts times for
\* each time it was opened (tx.mjs send and reconcile over journal.mjs, reopen included).
THEOREM Refinement == TxSpec => KeepsPromise
<1>1. TxInit => Promise!PromiseInit
  <2> SUFFICES ASSUME TxInit PROVE Promise!PromiseInit  OBVIOUS
  <2>1. \A k \in Keys : AnswerOf(k) = "open"  BY DEF TxInit, AnswerOf
  <2>2. \A k \in Keys : LandedAttempts(k) = {}  BY DEF TxInit, LandedAttempts, Slots
  <2>3. \A k \in Keys : task[k].opened = 0  BY DEF TxInit
  <2> QED  BY <2>1, <2>2, <2>3 DEF Promise!PromiseInit
<1> QED  BY <1>1, InitInv, TxStepKeeps, StepImplements, PTL
         DEF TxSpec, KeepsPromise, Promise!PromiseSpec


=============================================================================
