----------------------------- MODULE SealKeeper -----------------------------
(* How the reward rounds' keeper finds the sources of rewards and seals    *)
(* their days (keepers/v3/round/keeper.mjs, round/sources.mjs,             *)
(* lib/discovery.mjs): the logs are scanned in chunks by a cursor in the   *)
(* journal. The logs of a chunk and the block that lets the cursor pass it *)
(* are two awaited reads, of nodes that may each be behind. Each source's  *)
(* finished days are read, a watermark passes the final ones, and a day    *)
(* with a budget is sealed. A token's budget is credited while its day     *)
(* lasts. A staking lane also holds carry: fees that came while nobody     *)
(* staked, released into the days of later events once the events are      *)
(* processed.                                                              *)
(* Blocks are those with enough confirmations; amounts are present or not. *)
EXTENDS Integers, Sequences, TaskSender

CONSTANTS
  Tokens, Lanes,   \* the sources
  Chunk,           \* blocks of one getLogs call
  Lookback,        \* lookbackEpochs
  DayBound,        \* bound: days, fewer than the seven of a carry's release
  BlockBound,      \* bound: blocks
  EventBound,      \* bound: carry events not yet processed
  SealCrashes      \* bound: crashes, scans that fail

ASSUME SealAssumption ==
  /\ Tokens \cap Lanes = {}
  /\ Chunk \in Nat \ {0} /\ Lookback \in Nat \ {0} /\ DayBound \in 0..6
  /\ BlockBound \in Nat /\ EventBound \in Nat /\ SealCrashes \in Nat

Sources == Tokens \cup Lanes
Epochs == 0..DayBound

VARIABLES
  day,          \* the chain's day
  blocks,       \* the log: of each block the source it announces, or none
  firstEpoch,   \* the day of each announcement
  budget,       \* the epochs of each source that hold a budget
  sealedEpochs, \* the epochs of each source that are sealed
  staked,       \* does anyone stake?
  carry,        \* of each lane: processed carry still locked, events to process
  entry,        \* the lanes whose entry source is created
  found,        \* journal: the sources discovered
  scanNext,     \* journal: the next block to scan
  through,      \* journal: the watermark of each source
  sealTask,     \* journal: the task of each seal
  place,        \* the keeper's place in its tick
  hidden,       \* history: sources announced in blocks that the cursor passed although
                \* the node that answered with their logs did not have them
  sealCrashes

sealChain == <<day, blocks, firstEpoch, budget, sealedEpochs, staked, carry, entry>>
sealJournal == <<found, scanNext, through, sealTask>>
sealVars == <<sealChain, sealJournal, place, hidden, sealCrashes>>

NoSource == "none"
Unannounced == -1
Home == [at |-> "home"]

SealInit ==
  /\ day = 0 /\ blocks = <<>>
  /\ firstEpoch = [s \in Sources |-> Unannounced]
  /\ budget = [s \in Sources |-> {}] /\ sealedEpochs = [s \in Sources |-> {}]
  /\ staked = FALSE
  /\ carry = [l \in Lanes |-> [locked |-> FALSE, events |-> <<>>]]
  /\ entry = {}
  /\ found = {} /\ scanNext = 1
  /\ through = [s \in Sources |-> -1]
  /\ sealTask = [t \in Sources \X Epochs |-> Unsent]
  /\ place = Home /\ hidden = {} /\ sealCrashes = 0

---------------------------------------------------------------------------
(* SolonStakingV2's carry, and seal.                                       *)

\* The days that carry is released into: of the events at which someone staked, after
\* a deposit or with carry already locked.
ReleasedInto(l) ==
  {carry[l].events[i].day : i \in
     {i \in DOMAIN carry[l].events :
        /\ carry[l].events[i].running
        /\ carry[l].locked \/ \E j \in 1..(i - 1) : carry[l].events[j].deposit}}

\* _processCarry, all the events there are.
Processed(l) ==
  [locked |-> carry[l].locked \/ \E i \in DOMAIN carry[l].events : carry[l].events[i].deposit,
   events |-> <<>>]

\* sealReward of a token, sealSource of a lane: whatever is released counts.
BudgetAtSeal(s) == budget[s] \cup (IF s \in Lanes THEN ReleasedInto(s) ELSE {})
Sealable(s, e) ==
  /\ e < day /\ e \notin sealedEpochs[s] /\ e \in BudgetAtSeal(s)
  /\ s \in Lanes => s \in entry
seal(s, e) ==
  /\ Sealable(s, e)
  /\ budget' = [budget EXCEPT ![s] = BudgetAtSeal(s)]
  /\ sealedEpochs' = [sealedEpochs EXCEPT ![s] = @ \cup {e}]
  /\ carry' = IF s \in Lanes THEN [carry EXCEPT ![s] = Processed(s)] ELSE carry
  /\ UNCHANGED <<day, blocks, firstEpoch, staked, entry>>

---------------------------------------------------------------------------
(* LogDiscovery.sync.                                                      *)

\* The day is the latest block's, for the whole tick.
BeginTick ==
  /\ place = Home
  /\ place' = [at |-> "scan", today |-> day, safe |-> Len(blocks)]
  /\ UNCHANGED <<sealChain, sealJournal, hidden, sealCrashes>>

\* getLogs: the node that answers knows the blocks up to some number.
ReadChunk ==
  LET to == IF scanNext + Chunk - 1 < place.safe THEN scanNext + Chunk - 1 ELSE place.safe
      announced(bs) == {blocks[b] : b \in bs} \ {NoSource}
  IN /\ place.at = "scan" /\ scanNext <= place.safe
     /\ \E known \in 0..Len(blocks) :
          place' = [at |-> "chunk", today |-> place.today, safe |-> place.safe, to |-> to,
                    todo |-> announced({b \in scanNext..to : b <= known}),
                    missed |-> announced({b \in scanNext..to : b > known})]
     /\ UNCHANGED <<sealChain, sealJournal, hidden, sealCrashes>>
NoteSource(s) ==
  /\ place.at = "chunk" /\ s \in place.todo
  /\ found' = found \cup {s}
  /\ place' = [place EXCEPT !.todo = @ \ {s}]
  /\ UNCHANGED <<sealChain, scanNext, through, sealTask, hidden, sealCrashes>>

ToSources(now) == [at |-> "sources", today |-> now, todo |-> found]
\* getBlock(to), once the logs are written: the node that answers now, the one of the
\* logs or another, has the block.
PassChunk ==
  /\ scanNext' = place.to + 1
  /\ hidden' = hidden \cup place.missed
  /\ place' \in {[at |-> "scan", today |-> place.today, safe |-> place.safe],
                ToSources(place.today)}
\* Mutant: the cursor passes the chunk although the node does not have the block.
SaveCursorUnchecked ==
  /\ place.at = "chunk" /\ place.todo = {}
  /\ \/ PassChunk
     \/ scanNext' = place.to + 1 /\ place' = ToSources(place.today) /\ UNCHANGED hidden
  /\ UNCHANGED <<sealChain, found, through, sealTask, sealCrashes>>
\* Only past a block the node has; then the next chunk, unless it was the last one of this
\* tick (maxChunksPerTick).
SaveCursorOfScan ==
  /\ place.at = "chunk" /\ place.todo = {}
  /\ \E known \in 0..Len(blocks) :
       IF known < place.to
         THEN place' = ToSources(place.today) /\ UNCHANGED <<scanNext, hidden>>
         ELSE PassChunk
  /\ UNCHANGED <<sealChain, found, through, sealTask, sealCrashes>>
EndScan ==
  /\ place.at = "scan" /\ scanNext > place.safe
  /\ place' = ToSources(place.today)
  /\ UNCHANGED <<sealChain, sealJournal, hidden, sealCrashes>>
\* discoverPhase catches: the known sources go on.
ScanFails ==
  /\ place.at \in {"scan", "chunk"} /\ sealCrashes < SealCrashes
  /\ sealCrashes' = sealCrashes + 1
  /\ place' = ToSources(place.today)
  /\ UNCHANGED <<sealChain, sealJournal, hidden>>

---------------------------------------------------------------------------
(* sealPhase and stakingSealPhase.                                         *)

Greatest(a, b) == IF a > b THEN a ELSE b
\* Mutant: one day is skipped at the watermark.
FromEpochAfterNext(s, now) ==
  Greatest(Greatest(firstEpoch[s], now - Lookback), through[s] + 2)
FromEpoch(s, now) ==
  Greatest(Greatest(firstEpoch[s], now - Lookback), through[s] + 1)

carryPending(s) == s \in Lanes /\ carry[s].events # <<>> /\ carry[s].locked

\* Mutant: the day that is not over yet may be passed.
WatermarkToday(s, now, final) ==
  LET from == FromEpoch(s, now)
      passed == {t \in (from - 1)..now : \A e \in from..t : e \in final}
  IN IF from > now THEN through[s]
     ELSE Greatest(through[s], CHOOSE t \in passed : \A u \in passed : u <= t)
\* advanceWatermark: over the final epochs without a gap.
Watermark(s, now, final) ==
  LET from == FromEpoch(s, now)
      passed == {t \in (from - 1)..(now - 1) : \A e \in from..t : e \in final}
  IN IF from > now THEN through[s]
     ELSE Greatest(through[s], CHOOSE t \in passed : \A u \in passed : u <= t)

FinalEpochs(s) == {e \in Epochs : e \in sealedEpochs[s] \/ (e \notin budget[s] /\ ~carryPending(s))}

\* The carry is read, then the epochs; nothing that happens between them concerns a
\* day that is over, but for the processing of carry, which may as well come first.
ReadEpochs(s) ==
  /\ place.at = "sources" /\ s \in place.todo
  /\ through' = [through EXCEPT ![s] = Watermark(s, place.today, FinalEpochs(s))]
  /\ place' = [at |-> "seal", today |-> place.today, todo |-> place.todo \ {s}, source |-> s,
               epochs |-> {e \in FromEpoch(s, place.today)..(place.today - 1) :
                             e \notin sealedEpochs[s] /\ (e \in budget[s] \/ carryPending(s))}]
  /\ UNCHANGED <<sealChain, found, scanNext, sealTask, hidden, sealCrashes>>

AtSeal(s) == place.at = "seal" /\ place.source = s
NextSource == place' = [at |-> "sources", today |-> place.today, todo |-> place.todo]

CreateEntry(s) ==
  /\ AtSeal(s) /\ s \in Lanes \ entry /\ place.epochs # {}
  /\ entry' = entry \cup {s}
  /\ UNCHANGED <<day, blocks, firstEpoch, budget, sealedEpochs, staked, carry>>
  /\ UNCHANGED <<sealJournal, place, hidden, sealCrashes>>

NextEpoch(e) == place' = [place EXCEPT !.epochs = @ \ {e}]
SealConfirmed(s, e) ==
  /\ AtSeal(s) /\ e \in place.epochs /\ (s \in Lanes => s \in entry)
  /\ \/ sealTask[<<s, e>>].state = "open" /\ seal(s, e)
     \/ sealTask[<<s, e>>].state \in {"landed", "done"} /\ UNCHANGED sealChain
  /\ sealTask' = [sealTask EXCEPT ![<<s, e>>] = Answered(@)]
  /\ NextEpoch(e)
  /\ UNCHANGED <<found, scanNext, through, hidden, sealCrashes>>
\* Too early (nextRoundAt), or a lane that is not funded or whose probe reverts: not
\* sent. Otherwise sent without an answer.
SealUnconfirmed(s, e) ==
  /\ AtSeal(s) /\ e \in place.epochs
  /\ \/ UNCHANGED sealTask
     \/ \E t \in Unanswered(sealTask[<<s, e>>]) : sealTask' = [sealTask EXCEPT ![<<s, e>>] = t]
  /\ NextEpoch(e)
  /\ UNCHANGED <<sealChain, found, scanNext, through, hidden, sealCrashes>>
EndSource(s) ==
  /\ AtSeal(s) /\ (place.epochs = {} \/ s \in Lanes \ entry)
  /\ NextSource
  /\ UNCHANGED <<sealChain, sealJournal, hidden, sealCrashes>>
EndTick ==
  /\ place.at = "sources" /\ place.todo = {}
  /\ place' = Home
  /\ UNCHANGED <<sealChain, sealJournal, hidden, sealCrashes>>

---------------------------------------------------------------------------
(* The chain, what lands late, crashes.                                    *)

Off == UNCHANGED <<sealJournal, place, hidden, sealCrashes>>

DayPasses ==
  /\ day < DayBound /\ day' = day + 1
  /\ UNCHANGED <<blocks, firstEpoch, budget, sealedEpochs, staked, carry, entry>> /\ Off
Announce(s) ==
  /\ firstEpoch[s] = Unannounced /\ Len(blocks) < BlockBound
  /\ blocks' = Append(blocks, s) /\ firstEpoch' = [firstEpoch EXCEPT ![s] = day]
  /\ UNCHANGED <<day, budget, sealedEpochs, staked, carry, entry>> /\ Off
EmptyBlock ==
  /\ Len(blocks) < BlockBound /\ blocks' = Append(blocks, NoSource)
  /\ UNCHANGED <<day, firstEpoch, budget, sealedEpochs, staked, carry, entry>> /\ Off

Event(deposit) == [day |-> day, running |-> staked, deposit |-> deposit]
Room(l) == Len(carry[l].events) < EventBound

\* A token's fee, or a lane's: without stakers it becomes carry, by an event that is
\* not processed yet.
FeeArrives(s) ==
  /\ firstEpoch[s] # Unannounced
  /\ s \in Lanes => Room(s)
  /\ budget' = IF s \in Lanes /\ ~staked THEN budget
                 ELSE [budget EXCEPT ![s] = @ \cup {day}]
  /\ carry' = IF s \in Lanes THEN [carry EXCEPT ![s].events = Append(@, Event(~staked))]
                ELSE carry
  /\ UNCHANGED <<day, blocks, firstEpoch, sealedEpochs, staked, entry>> /\ Off
\* The event records the stake as it was until now.
StakeChanges ==
  /\ \A l \in Lanes : Room(l)
  /\ staked' \in BOOLEAN
  /\ carry' = [l \in Lanes |->
                 IF firstEpoch[l] = Unannounced THEN carry[l]
                 ELSE [carry[l] EXCEPT !.events = Append(@, Event(FALSE))]]
  /\ UNCHANGED <<day, blocks, firstEpoch, budget, sealedEpochs, entry>> /\ Off
\* releaseCarry, of the events there are.
ReleaseCarry(l) ==
  /\ carry[l].events # <<>>
  /\ budget' = [budget EXCEPT ![l] = @ \cup ReleasedInto(l)]
  /\ carry' = [carry EXCEPT ![l] = Processed(l)]
  /\ UNCHANGED <<day, blocks, firstEpoch, sealedEpochs, staked, entry>> /\ Off
SealLands(s, e) ==
  /\ sealTask[<<s, e>>].state = "air" /\ seal(s, e)
  /\ sealTask' = [sealTask EXCEPT ![<<s, e>>] = HasLanded(@)]
  /\ UNCHANGED <<found, scanNext, through, place, hidden, sealCrashes>>
SealReconcile(s, e) ==
  /\ place = Home
  /\ \E t \in Reconciled(sealTask[<<s, e>>]) : sealTask' = [sealTask EXCEPT ![<<s, e>>] = t]
  /\ UNCHANGED <<sealChain, found, scanNext, through, place, hidden, sealCrashes>>
SealCrash ==
  /\ place # Home /\ sealCrashes < SealCrashes
  /\ sealCrashes' = sealCrashes + 1
  /\ place' = Home
  /\ UNCHANGED <<sealChain, sealJournal, hidden>>

Ticking ==
  \/ BeginTick \/ ReadChunk \/ SaveCursorOfScan \/ EndScan \/ EndTick
  \/ \E s \in Sources :
       \/ NoteSource(s) \/ ReadEpochs(s) \/ CreateEntry(s) \/ EndSource(s)
       \/ \E e \in Epochs : SealUnconfirmed(s, e) \/ SealConfirmed(s, e)
SealNext ==
  \/ Ticking \/ ScanFails \/ SealCrash \/ DayPasses \/ EmptyBlock \/ StakeChanges
  \/ \E s \in Sources :
       \/ Announce(s) \/ FeeArrives(s)
       \/ \E e \in Epochs : SealLands(s, e) \/ SealReconcile(s, e)
  \/ \E l \in Lanes : ReleaseCarry(l)

SealSpec == SealInit /\ [][SealNext]_sealVars

\* The keeper ticks on, a node that has the block answers now and then, a transaction is
\* not refused for ever, and what is in flight is mined or given up.
UpToDate == SaveCursorOfScan /\ scanNext' # scanNext
SealAnswered ==
  \/ \E s \in Lanes : CreateEntry(s)
  \/ \E s \in Sources, e \in Epochs :
       SealConfirmed(s, e) \/ (SealReconcile(s, e) /\ sealTask' # sealTask)
SealFairness == WF_sealVars(Ticking) /\ SF_sealVars(UpToDate) /\ SF_sealVars(SealAnswered)
FairSeal == SealSpec /\ SealFairness

---------------------------------------------------------------------------
(* Properties.                                                             *)

SealTypeOK ==
  /\ day \in Epochs /\ Len(blocks) <= BlockBound
  /\ \A s \in Sources : budget[s] \subseteq Epochs /\ sealedEpochs[s] \subseteq Epochs
  /\ found \subseteq Sources /\ hidden \subseteq Sources /\ scanNext \in 1..(Len(blocks) + 1)
  /\ through \in [Sources -> -1..DayBound]
  /\ sealTask \in [Sources \X Epochs -> SendType]

\* What was announced before the cursor is in the journal, wherever the keeper died between
\* the logs and the cursor, but for a block that the logs' node did not have and the node
\* asked afterwards had: without that one case the scan, which never goes back, loses nothing.
NothingBehindCursor ==
  \A b \in DOMAIN blocks : b < scanNext => blocks[b] \in found \cup hidden \cup {NoSource}

\* discovery.mjs:65, "A node behind the head answers getLogs with an empty range: only move
\* past `to` once this node has that block": no source is left behind the cursor.
EverySourceIsFound ==
  \A b \in DOMAIN blocks : b < scanNext => blocks[b] \in found \cup {NoSource}

\* keeper.mjs:151, "Every epoch <= through is final (no seal will ever be needed)": it
\* has no budget, or is sealed, or was given up as older than the lookback.
FinalBelow(s) ==
  \A e \in Epochs :
    e <= through[s] /\ e \in budget[s] => e \in sealedEpochs[s] \/ e < day - Lookback
WatermarkIsFinal == \A s \in Tokens : FinalBelow(s)
CarryWatermarkIsFinal == \A s \in Lanes : FinalBelow(s)

\* Again and again every finished day with a budget is sealed, unless the keeper was away
\* for longer than the lookback, the seal was given up, the source was hidden from the scan,
\* or a lane's carry was released behind the watermark: neither a node that lags on, nor a
\* crash, nor a seal that lands late leaves a day out.
LeftOut(s, e) ==
  \/ s \in hidden \/ e < day - Lookback \/ sealTask[<<s, e>>].state = "stopped"
  \/ s \in Lanes /\ e <= through[s]
EveryEpochSealed ==
  []<>(\A s \in Sources, e \in Epochs :
         e \in budget[s] /\ e < day => e \in sealedEpochs[s] \/ LeftOut(s, e))
=============================================================================
