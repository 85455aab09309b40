----------------------------- MODULE PushKeeper -----------------------------
(* The payout keeper (keepers/v3/push/keeper.mjs, decide.mjs): it prepares *)
(* a queue for every revision of a delivered allocation, keeps the list of *)
(* queues in its journal, and walks each newest queue through once a day,  *)
(* one batch every quarter of an hour. While the price of the stock is old *)
(* in market hours a queue waits for a fresh one. Batches, and every step  *)
(* of the preparation, are open to anyone: the steps of strangers also     *)
(* stand for the keeper's own transactions that are mined after it stopped *)
(* waiting. The pages of registerParticipants and the sealing of the index *)
(* are taken as one call, with the attempts of one task.                   *)
EXTENDS Integers, Sequences, FiniteSets

CONSTANTS
  PushAllocs,    \* the allocations (a direct source's epochs are like them)
  PushRevisions, \* bound: revisions of each
  Accounts,      \* upperBound: the accounts of a queue
  BatchSize,     \* maxAccounts of a batch
  PushAttempts,  \* MAX_ATTEMPTS of the journal
  PushDays,      \* bound: days
  PushCrashes    \* bound: crashes

ASSUME PushAssumption ==
  /\ PushRevisions \in Nat \ {0} /\ Accounts \in Nat \ {0} /\ BatchSize \in Nat \ {0}
  /\ PushAttempts \in Nat \ {0} /\ PushDays \in Nat /\ PushCrashes \in Nat

VARIABLES
  revision,     \* reward vault: the revision of each allocation, 0 before delivery
  sealed,       \* reward vault: participants registered, index sealed
  queues,       \* distributor: every queue opened
  today,        \* the day, from 00:10 UTC
  awaited,      \* the allocations whose stock has an old price, in market hours
  pushList,     \* journal: the queues it knows
  pushScan,     \* journal: the next queue id to look at
  pushRec,      \* journal: of each queue, its days, and the task of its next batch
  prepTries,    \* journal: failed attempts of each allocation's present preparation
  serving,      \* the keeper's place in its tick
  seen,         \* history: the accounts of each queue walked since its last completion
  pushCrashes

pushChain == <<revision, sealed, queues, seen>>
pushWorld == <<today, awaited>>
pushLists == <<pushList, pushScan>>
pushJournal == <<pushLists, pushRec, prepTries>>
pushVars == <<pushChain, pushWorld, pushJournal, serving, pushCrashes>>

QueueIds == 1..Len(queues)
Never == -1
Ready == [at |-> "ready"]
NewTask == [tries |-> 0, confirmed |-> FALSE]
NoRecord == [planDay |-> Never, skippedDay |-> Never, completedDay |-> Never, task |-> NewTask]
AllQueueIds == 1..(PushRevisions * Cardinality(PushAllocs))

PushInit ==
  /\ revision = [a \in PushAllocs |-> 0] /\ sealed = {}
  /\ queues = <<>> /\ seen = [q \in AllQueueIds |-> {}]
  /\ today = 0 /\ awaited = {}
  /\ pushList = {} /\ pushScan = 0
  /\ pushRec = [q \in AllQueueIds |-> NoRecord]
  /\ prepTries = [a \in PushAllocs |-> 0]
  /\ serving = Ready /\ pushCrashes = 0

QueueOf(a, r) == {q \in QueueIds : queues[q].alloc = a /\ queues[q].revision = r}

---------------------------------------------------------------------------
(* The contracts' calls.                                                   *)

\* registerParticipants page by page, then sealParticipantIndex.
sealIndex(a) ==
  /\ revision[a] > 0 /\ a \notin sealed
  /\ sealed' = sealed \cup {a}
  /\ UNCHANGED <<revision, queues, seen>>

\* openQueue: of the revision there is, once.
openQueue(a) ==
  /\ a \in sealed /\ QueueOf(a, revision[a]) = {}
  /\ queues' = Append(queues, [alloc |-> a, revision |-> revision[a], cursor |-> 0, due |-> TRUE])
  /\ UNCHANGED <<revision, sealed, seen>>

StartOf(cursor) == IF cursor = Accounts THEN 0 ELSE cursor

\* batchDistribute: the accounts from the cursor, until the page or the gas ends, or at
\* one that cannot be staged (blocked); unless blocked, the next batch is due in a
\* quarter of an hour. The journal's task is of one day, cursor and due time.
batchDistribute(q) ==
  LET start == StartOf(queues[q].cursor)
      end == IF start + BatchSize < Accounts THEN start + BatchSize ELSE Accounts
  IN /\ queues[q].due
     /\ \E stop \in start..end, blocked \in BOOLEAN :
          /\ IF blocked THEN stop < end ELSE stop > start
          /\ queues' = [queues EXCEPT ![q].cursor = stop, ![q].due = blocked]
          /\ seen' = [seen EXCEPT ![q] = @ \cup ((start + 1)..stop)]
          /\ pushRec' = IF stop > start THEN [pushRec EXCEPT ![q].task = NewTask] ELSE pushRec
     /\ UNCHANGED <<revision, sealed>>

\* What is prepared next has a task of its own.
prepare(a) ==
  /\ sealIndex(a) \/ openQueue(a)
  /\ prepTries' = [prepTries EXCEPT ![a] = 0]

Strangers ==
  /\ \/ (\E a \in PushAllocs : prepare(a)) /\ UNCHANGED pushRec
     \/ (\E q \in QueueIds : batchDistribute(q)) /\ UNCHANGED prepTries
  /\ UNCHANGED <<pushWorld, pushLists, serving, pushCrashes>>

---------------------------------------------------------------------------
(* prepareRoundAllocations and knownQueues.                                *)

Unprepared(a) == revision[a] > 0 /\ (a \notin sealed \/ QueueOf(a, revision[a]) = {})
MayPrepare(a) == serving = Ready /\ Unprepared(a) /\ prepTries[a] < PushAttempts
PrepareQueue(a) ==
  /\ MayPrepare(a) /\ prepare(a)
  /\ UNCHANGED <<pushWorld, pushLists, pushRec, serving, pushCrashes>>
\* The last failed attempt quarantines the task.
PrepareFails(a) ==
  /\ MayPrepare(a)
  /\ prepTries' = [prepTries EXCEPT ![a] = @ + 1]
  /\ UNCHANGED <<pushChain, pushWorld, pushLists, pushRec, serving, pushCrashes>>

\* The list is written first, then where the next scan starts.
ListQueues ==
  /\ serving = Ready /\ pushScan < Len(queues)
  /\ pushList' = pushList \cup ((pushScan + 1)..Len(queues))
  /\ serving' = [at |-> "listed", next |-> Len(queues)]
  /\ UNCHANGED <<pushChain, pushWorld, pushScan, pushRec, prepTries, pushCrashes>>
SaveScan ==
  /\ serving.at = "listed"
  /\ pushScan' = serving.next
  /\ serving' = Ready
  /\ UNCHANGED <<pushChain, pushWorld, pushList, pushRec, prepTries, pushCrashes>>

\* Mutant: the first revision it knows.
NewestIsFirst(q) ==
  /\ q \in pushList
  /\ \A p \in pushList : queues[p].alloc = queues[q].alloc => queues[p].revision >= queues[q].revision
\* Of an allocation only the newest revision it knows is walked.
Newest(q) ==
  /\ q \in pushList
  /\ \A p \in pushList : queues[p].alloc = queues[q].alloc => queues[p].revision <= queues[q].revision

---------------------------------------------------------------------------
(* serviceQueue.                                                           *)

queueDecision(q) ==
  queues[q].due /\ pushRec[q].completedDay # today /\ pushRec[q].skippedDay # today
\* priceReady: otherwise nothing is done in this tick but to ask for the price.
priceReady(q) == queues[q].alloc \notin awaited
MayServe(q) == serving = Ready /\ Newest(q) /\ queueDecision(q) /\ priceReady(q)

NeedsPlan(q) == pushRec[q].planDay # today
\* The plan of the day is made once: nobody over the threshold, no price (the market is
\* closed or the price is unusable), or too dear.
SkipDay(q) ==
  /\ MayServe(q) /\ NeedsPlan(q)
  /\ pushRec' = [pushRec EXCEPT ![q].skippedDay = today]
  /\ UNCHANGED <<pushChain, pushWorld, pushLists, prepTries, serving, pushCrashes>>

\* A task that is confirmed already is answered with its old receipt.
SendBatch(q) ==
  /\ MayServe(q) /\ pushRec[q].task.tries < PushAttempts
  /\ pushRec' = [pushRec EXCEPT ![q].planDay = today]
  /\ serving' = [at |-> IF pushRec[q].task.confirmed THEN "record" ELSE "batch",
                 queue |-> q, before |-> queues[q].cursor, day |-> today]
  /\ UNCHANGED <<pushChain, pushWorld, pushLists, prepTries, pushCrashes>>

\* Is the task of the batch sent still that of the queue's next batch?
SameTask ==
  LET q == serving.queue
  IN queues[q].due /\ StartOf(queues[q].cursor) = StartOf(serving.before) /\ serving.day = today
FailedBatch(rec, q) == IF SameTask THEN [rec EXCEPT ![q].task = [tries |-> @.tries + 1, confirmed |-> FALSE]]
                       ELSE rec

\* The receipt: the batch ran. gasPlan gives it the gas that the distributor asks for at
\* its start, so that its logs name an account.
BatchConfirmed ==
  /\ serving.at = "batch"
  /\ batchDistribute(serving.queue)
  /\ serving' = [serving EXCEPT !.at = "record"]
  /\ UNCHANGED <<pushWorld, pushLists, prepTries, pushCrashes>>
\* Refused, a stranger was faster, or left in flight.
BatchUnconfirmed ==
  /\ serving.at = "batch"
  /\ pushRec' \in {pushRec, FailedBatch(pushRec, serving.queue)}
  /\ serving' = Ready
  /\ UNCHANGED <<pushChain, pushWorld, pushLists, prepTries, pushCrashes>>

\* progressOf, from the cursor the queue has now: a queue that begins again has moved with
\* the first account it names.
Moved(before, after) == before = Accounts \/ after > before
\* Mutant: the day is complete with any batch that moved.
CompleteWhenMoved(before, after) == Moved(before, after)
Complete(before, after) == Moved(before, after) /\ after = Accounts
RecordBatch ==
  LET q == serving.queue
      after == queues[q].cursor
      moved == Moved(serving.before, after)
      completed == Complete(serving.before, after)
  IN /\ serving.at = "record"
     /\ pushRec' = IF moved
                     THEN [pushRec EXCEPT ![q].completedDay = IF completed THEN serving.day ELSE @,
                                          ![q].task.confirmed = SameTask]
                     ELSE FailedBatch(pushRec, q)
     /\ seen' = IF completed THEN [seen EXCEPT ![q] = {}] ELSE seen
     /\ serving' = Ready
     /\ UNCHANGED <<revision, sealed, queues, pushWorld, pushLists, prepTries, pushCrashes>>

---------------------------------------------------------------------------
(* Deliveries, time, prices, crashes.                                      *)

Delivery(a) ==
  /\ revision[a] < PushRevisions
  /\ revision' = [revision EXCEPT ![a] = @ + 1]
  /\ prepTries' = IF a \in sealed THEN [prepTries EXCEPT ![a] = 0] ELSE prepTries
  /\ UNCHANGED <<sealed, queues, seen, pushWorld, pushLists, pushRec, serving, pushCrashes>>
QuarterPasses(q) ==
  /\ ~queues[q].due
  /\ queues' = [queues EXCEPT ![q].due = TRUE]
  /\ UNCHANGED <<revision, sealed, seen, pushWorld, pushJournal, serving, pushCrashes>>
NextDay ==
  /\ today < PushDays
  /\ today' = today + 1
  /\ pushRec' = [q \in AllQueueIds |-> [pushRec[q] EXCEPT !.task = NewTask]]
  /\ UNCHANGED <<pushChain, awaited, pushLists, prepTries, serving, pushCrashes>>
\* The price of the stock gets old, is pushed, or the market closes.
PriceChanges(a) ==
  /\ awaited' = IF a \in awaited THEN awaited \ {a} ELSE awaited \cup {a}
  /\ UNCHANGED <<pushChain, today, pushJournal, serving, pushCrashes>>
PushCrash ==
  /\ serving # Ready /\ pushCrashes < PushCrashes
  /\ pushCrashes' = pushCrashes + 1
  /\ serving' = Ready
  /\ UNCHANGED <<pushChain, pushWorld, pushJournal>>

Awaiting == SaveScan \/ BatchUnconfirmed \/ RecordBatch \/ BatchConfirmed
Preparing(a) == PrepareQueue(a) \/ PrepareFails(a)
Serving(q) == SendBatch(q) \/ SkipDay(q)
PushNext ==
  \/ Strangers \/ Awaiting \/ ListQueues \/ PushCrash \/ NextDay
  \/ \E a \in PushAllocs : Preparing(a) \/ Delivery(a) \/ PriceChanges(a)
  \/ \E q \in QueueIds : QuarterPasses(q)
  \/ \E q \in pushList : Serving(q)

PushSpec == PushInit /\ [][PushNext]_pushVars

\* The loop goes on: every tick prepares and lists, and serves the queues whose price is
\* fresh; what is sent is mined, or an attempt has failed; quarters of an hour pass. The
\* price may stay old, and a day last, for as long as they like.
BatchAnswered == BatchConfirmed \/ (BatchUnconfirmed /\ pushRec' # pushRec)
PushFairness ==
  /\ WF_pushVars(Awaiting) /\ SF_pushVars(ListQueues) /\ SF_pushVars(BatchAnswered)
  /\ \A a \in PushAllocs : SF_pushVars(Preparing(a))
  /\ \A q \in AllQueueIds : SF_pushVars(q \in pushList /\ Serving(q))
  /\ \A q \in AllQueueIds : WF_pushVars(q \in QueueIds /\ QuarterPasses(q))
FairPush == PushSpec /\ PushFairness

---------------------------------------------------------------------------
(* Properties.                                                             *)

PushTypeOK ==
  /\ revision \in [PushAllocs -> 0..PushRevisions] /\ sealed \subseteq PushAllocs
  /\ \A q \in QueueIds : queues[q].cursor \in 0..Accounts /\ queues[q].due \in BOOLEAN
  /\ pushScan \in 0..Len(queues) /\ pushList \subseteq QueueIds
  /\ awaited \subseteq PushAllocs /\ prepTries \in [PushAllocs -> 0..PushAttempts]

\* A day is closed only when every account of the queue had its turn since the last close
\* (decide.mjs:61, "Did the batch move? Anything less is a failure: the day record is NOT
\* advanced"), whoever ran the batches between, and whichever of them this keeper never
\* saw confirmed.
CompletionCoversAll ==
  [][\A q \in AllQueueIds :
       pushRec'[q].completedDay # pushRec[q].completedDay => seen[q] = 1..Accounts]_pushVars

\* If the price is fresh again and again, a day that lasts is worked off: the newest revision
\* delivered has its queue, and the queue was walked to its end that day, or every account
\* has had its turn since it last was, by the keeper's batches or a stranger's. Unless the
\* preparation or the batches of the present schedule were given up, or the day's plan was
\* not worth its cost. A crash, a stranger's batch or a new revision in the middle of a walk
\* leaves nobody out.
WalkedToday(q) ==
  \/ pushRec[q].completedDay = today \/ seen[q] = 1..Accounts
  \/ pushRec[q].skippedDay = today \/ pushRec[q].task.tries = PushAttempts
RevisionIsWalked ==
  \A a \in PushAllocs :
    []<>(a \notin awaited) =>
      []<>(\/ revision[a] = 0 \/ prepTries[a] = PushAttempts
           \/ \E q \in QueueOf(a, revision[a]) : WalkedToday(q))
=============================================================================
