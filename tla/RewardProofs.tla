------------------------------ MODULE RewardProofs ------------------------------
(***************************************************************************)
(* What TLAPS proves of the keepers of rewards. SealKeeper, for every set  *)
(* of sources, chunk, lookback and number of blocks, events and crashes:   *)
(* every source announced before the cursor is known, or was hidden by a   *)
(* node behind the head (run DiscoveryNodes), and what the watermark of a  *)
(* token has passed is final (that of a staking lane is not: run           *)
(* SealWatermark). RoundKeeper, for any entries, groups, limits and        *)
(* bounds: the funding of a round is paid at most once. PushKeeper, for    *)
(* any allocations, accounts and batches: a day is closed only when every  *)
(* account had its turn. OracleDemand, for any requesters and times:       *)
(* concurrent requests cost one push. That every epoch is sealed, every    *)
(* round ends, every revision is walked and every demand is served rests   *)
(* on fairness and is left to TLC.                                         *)
(***************************************************************************)
EXTENDS SealKeeper, RoundKeeper, PushKeeper, OracleDemand,
        TLAPS, SequenceTheorems, WellFoundedInduction

-----------------------------------------------------------------------------
(* TaskSender: what becomes of the task of one transaction.                *)

\* A task that may still be sent has an attempt left.
SendOK(s) == s \in SendType /\ (s.state \in {"open", "air"} => s.attempts < SendAttempts)

\* Whatever becomes of a task, it keeps its type, and it runs only by landing or by
\* an answer.
LEMMA SendSteps ==
  ASSUME NEW s \in SendType, SendOK(s)
  PROVE  /\ SendOK(Answered(s)) /\ Answered(s).state = "done"
         /\ SendOK(HasLanded(s)) /\ HasLanded(s).state = "landed"
         /\ \A u \in Unanswered(s) \cup Reconciled(s) :
              /\ SendOK(u)
              /\ u.state \in {"landed", "done"} => s.state \in {"landed", "done"}
              /\ s.state \in {"landed", "done"} => u.state \in {"landed", "done"}
         /\ \A u \in Reconciled(s) :
              u.state = "air" => s.state = "air"
         /\ \A u \in Unanswered(s) :
              u.state = "air" => s.state \in {"open", "air"}
<1>1. SendAttempts \in Nat \ {0}  BY SenderAssumption
<1>2. s.attempts \in 0..SendAttempts /\ s.attempts \in Nat
      /\ s.state \in {"open", "air", "landed", "done", "stopped"}
      /\ s = [state |-> s.state, attempts |-> s.attempts]
  BY <1>1 DEF SendType
<1>3. SendOK(Answered(s)) /\ Answered(s).state = "done"
      /\ SendOK(HasLanded(s)) /\ HasLanded(s).state = "landed"
  BY <1>1, <1>2 DEF SendOK, SendType, Answered, HasLanded
<1>4. ASSUME s.state \in {"open", "air"}
      PROVE  /\ SendOK(InFlight(s)) /\ InFlight(s).state = "air"
             /\ SendOK(AttemptFailed(s)) /\ AttemptFailed(s).state \in {"open", "stopped"}
  BY <1>1, <1>2, <1>4 DEF SendOK, SendType, InFlight, AttemptFailed
<1>5. /\ Unanswered(s) \subseteq {s} \cup
           (IF s.state \in {"open", "air"} THEN {InFlight(s), AttemptFailed(s)} ELSE {})
      /\ Reconciled(s) \subseteq {s} \cup
           (IF s.state = "landed" THEN {Answered(s)} ELSE {}) \cup
           (IF s.state = "air" THEN {AttemptFailed(s)} ELSE {})
  BY <1>2 DEF Unanswered, Reconciled
<1> QED  BY <1>2, <1>3, <1>4, <1>5

-----------------------------------------------------------------------------
(* SealKeeper: the inductive invariant.                                    *)

SealTasks == Sources \X Epochs
EventType == [day : Epochs, running : BOOLEAN, deposit : BOOLEAN]
CarryType == [locked : BOOLEAN, events : Seq(EventType)]
SealPlaceType ==
  {Home}
    \cup [at : {"scan"}, today : Nat, safe : Nat]
    \cup [at : {"chunk"}, today : Nat, safe : Nat, to : Nat, todo : SUBSET Sources,
          missed : SUBSET Sources]
    \cup [at : {"sources"}, today : Nat, todo : SUBSET Sources]
    \cup [at : {"seal"}, today : Nat, todo : SUBSET Sources, source : Sources,
          epochs : SUBSET Int]

ChainOK ==
  /\ day \in Epochs
  /\ blocks \in Seq(Sources \cup {NoSource}) /\ Len(blocks) <= BlockBound
  /\ firstEpoch \in [Sources -> -1..DayBound] /\ \A s \in Sources : firstEpoch[s] <= day
  /\ budget \in [Sources -> SUBSET Epochs] /\ sealedEpochs \in [Sources -> SUBSET Epochs]
  /\ staked \in BOOLEAN
  /\ carry \in [Lanes -> CarryType]

JournalOK ==
  /\ found \subseteq Sources /\ hidden \subseteq Sources
  /\ scanNext \in 1..(Len(blocks) + 1)
  /\ through \in [Sources -> -1..DayBound]
  /\ sealTask \in [SealTasks -> SendType] /\ \A t \in SealTasks : SendOK(sealTask[t])

\* A tick scans no block that was not there when it began, and the day it works with
\* has come.
PlaceOK ==
  /\ place \in SealPlaceType
  /\ place # Home => place.today <= day
  /\ place.at = "scan" => place.safe <= Len(blocks)
  /\ place.at = "chunk" => place.safe <= Len(blocks) /\ place.to <= place.safe

\* What is announced in the chunk is noted, about to be, or was missing from the logs.
ChunkIsRead ==
  place.at = "chunk" =>
    \A b \in DOMAIN blocks :
      b >= scanNext /\ b <= place.to =>
        blocks[b] \in found \cup place.todo \cup place.missed \cup {NoSource}

\* A budget comes on the day itself, after the source was announced; the watermark stays
\* behind the day.
BudgetIsPast ==
  /\ \A s \in Sources : through[s] < day
  /\ \A s \in Tokens, e \in Epochs :
       e \in budget[s] => firstEpoch[s] # Unannounced /\ firstEpoch[s] <= e

SealInv ==
  /\ ChainOK /\ JournalOK /\ PlaceOK
  /\ ChunkIsRead /\ NothingBehindCursor
  /\ BudgetIsPast /\ WatermarkIsFinal

-----------------------------------------------------------------------------
(* The watermark.                                                          *)

\* A set of integers with an upper bound has a greatest member.
LEMMA HasGreatest ==
  ASSUME NEW S \in SUBSET Int, S # {}, NEW n \in Int, \A t \in S : t <= n
  PROVE  \E t \in S : \A u \in S : u <= t
<1> DEFINE D == {n - t : t \in S}
<1>1. D \subseteq Nat /\ D # {}
  <2>1. \A t \in S : n - t \in Nat  OBVIOUS
  <2>2. PICK t \in S : TRUE  OBVIOUS
  <2>3. n - t \in D  BY <2>2
  <2> QED  BY <2>1, <2>3
<1> HIDE DEF D
<1>2. PICK d \in D : \A e \in D : ~ (<<e, d>> \in OpToRel(<, Nat))
  BY <1>1, WFMin, NatLessThanWellFounded
<1>3. \A e \in D : d <= e
  <2> TAKE e \in D
  <2>1. d \in Nat /\ e \in Nat  BY <1>1
  <2>2. ~ (<<e, d>> \in OpToRel(<, Nat))  BY <1>2
  <2>3. e < d => <<e, d>> \in OpToRel(<, Nat)  BY <2>1 DEF OpToRel
  <2>4. ~ (e < d)  BY <2>2, <2>3
  <2> QED  BY <2>1, <2>4
<1> USE DEF D
<1>4. PICK t \in S : d = n - t  BY <1>2
<1>5. \A u \in S : u <= t
  <2> TAKE u \in S
  <2>1. n - u \in D  OBVIOUS
  <2>2. t \in Int /\ u \in Int /\ d <= n - u /\ d = n - t  BY <1>3, <1>4, <2>1
  <2> QED  BY <2>2
<1> QED  BY <1>5

\* advanceWatermark never goes back, never reaches today, and passes only final epochs
\* from the first one it has to look at.
LEMMA WatermarkPasses ==
  ASSUME NEW s \in Sources, NEW now \in Nat, NEW final,
         firstEpoch[s] \in Int, through[s] \in Int, Lookback \in Int
  PROVE  LET w == Watermark(s, now, final)
         IN /\ w \in Int /\ through[s] <= w
            /\ w = through[s] \/ w < now
            /\ \A e \in Int : e >= FromEpoch(s, now) /\ e <= w => e <= through[s] \/ e \in final
<1> DEFINE from == FromEpoch(s, now)
           passed == {t \in (from - 1)..(now - 1) : \A e \in from..t : e \in final}
           top == CHOOSE t \in passed : \A u \in passed : u <= t
           w == Watermark(s, now, final)
<1>1. from \in Int  BY DEF FromEpoch, Greatest
<1>2. w = IF from > now THEN through[s] ELSE Greatest(through[s], top)
  BY DEF Watermark
<1>3. CASE from > now
  BY <1>2, <1>3
<1>4. CASE ~(from > now)
  <2> HIDE DEF from
  <2>1. passed \in SUBSET Int /\ from - 1 \in passed /\ \A t \in passed : t <= now
    BY <1>1, <1>4
  <2> HIDE DEF passed
  <2>2. \E t \in passed : \A u \in passed : u <= t
    <3>1. passed # {} /\ now \in Int  BY <2>1
    <3> QED  BY <2>1, <3>1, HasGreatest
  <2>3. top \in passed
    BY <2>2
  <2> USE DEF passed
  <2> HIDE DEF top
  <2>4. top \in Int /\ top <= now - 1 /\ \A e \in from..top : e \in final
    BY <1>1, <2>3
  <2>5. w \in Int /\ through[s] <= w /\ (w = through[s] \/ w = top)
    BY <1>2, <1>4, <2>4 DEF Greatest
  <2> HIDE DEF w, passed
  <2>6. ASSUME NEW e \in Int, e >= from, e <= w PROVE e <= through[s] \/ e \in final
    BY <1>1, <2>4, <2>5, <2>6
  <2>7. w = through[s] \/ w < now  BY <2>4, <2>5
  <2> QED  BY <2>5, <2>6, <2>7 DEF w, from
<1> QED  BY <1>3, <1>4

-----------------------------------------------------------------------------
(* The chain.                                                              *)

LEMMA SealInvInit == SealInit => SealInv
<1> SUFFICES ASSUME SealInit PROVE SealInv
  OBVIOUS
<1> USE SealAssumption, SenderAssumption
<1>1. ChainOK
  <2>1. /\ day = 0 /\ blocks = <<>> /\ staked = FALSE
        /\ firstEpoch = [s \in Sources |-> -1] /\ DayBound \in Nat
    BY DEF SealInit, Unannounced
  <2>5. /\ day \in Epochs /\ Len(blocks) <= BlockBound /\ staked \in BOOLEAN
        /\ blocks \in Seq(Sources \cup {NoSource})
    <3>1. <<>> \in Seq(Sources \cup {NoSource}) /\ Len(<<>>) = 0 /\ BlockBound \in Nat
      OBVIOUS
    <3>2. 0 \in Epochs  BY DEF Epochs
    <3>3. blocks \in Seq(Sources \cup {NoSource})  BY <2>1, <3>1
    <3>4. Len(blocks) <= BlockBound  BY <2>1, <3>1
    <3> QED  BY <2>1, <3>2, <3>3, <3>4
  <2>6. firstEpoch \in [Sources -> -1..DayBound] /\ \A s \in Sources : firstEpoch[s] <= day
    BY <2>1
  <2>2. budget \in [Sources -> SUBSET Epochs] /\ sealedEpochs \in [Sources -> SUBSET Epochs]
    BY DEF SealInit
  <2>3. <<>> \in Seq(EventType)  OBVIOUS
  <2>4. carry \in [Lanes -> CarryType]  BY <2>3 DEF SealInit, CarryType
  <2> QED  BY <2>2, <2>4, <2>5, <2>6 DEF ChainOK
<1>2. JournalOK
  BY DEF SealInit, JournalOK, SealTasks, SendOK, SendType, Unsent
<1>3. PlaceOK /\ ChunkIsRead
  BY DEF SealInit, PlaceOK, ChunkIsRead, SealPlaceType, Home
<1>4. NothingBehindCursor
  BY DEF SealInit, NothingBehindCursor
<1>5. BudgetIsPast /\ WatermarkIsFinal
  BY DEF SealInit, BudgetIsPast, WatermarkIsFinal, FinalBelow, Sources, Epochs
<1> QED  BY <1>1, <1>2, <1>3, <1>4, <1>5 DEF SealInv

\* What others do on the chain: the log grows, days pass, a budget comes for today.
LEMMA ChainKeeps ==
  ASSUME SealInv, ChainOK', UNCHANGED <<sealJournal, place, hidden, sealedEpochs>>,
         Len(blocks) <= Len(blocks'), \A b \in DOMAIN blocks : blocks'[b] = blocks[b],
         day <= day',
         \A s \in Tokens : firstEpoch[s] # Unannounced => firstEpoch'[s] = firstEpoch[s],
         \A s \in Tokens, e \in Epochs :
           e \in budget'[s] =>
             e \in budget[s] \/ (e = day' /\ firstEpoch'[s] # Unannounced)
  PROVE  SealInv'
<1>1. /\ day \in Int /\ day' \in Int /\ Lookback \in Int
      /\ blocks \in Seq(Sources \cup {NoSource}) /\ blocks' \in Seq(Sources \cup {NoSource})
      /\ \A s \in Tokens : firstEpoch'[s] \in Int /\ firstEpoch'[s] <= day'
      /\ \A s \in Sources : through[s] \in Int /\ through[s] < day
      /\ Tokens \subseteq Sources /\ Epochs \subseteq Int
  BY SealAssumption DEF SealInv, ChainOK, JournalOK, BudgetIsPast, Sources, Epochs
<1>2. /\ found' = found /\ scanNext' = scanNext /\ through' = through /\ sealTask' = sealTask
      /\ place' = place /\ hidden' = hidden /\ sealedEpochs' = sealedEpochs
  BY DEF sealJournal
<1>3. JournalOK'
  BY <1>1, <1>2 DEF SealInv, JournalOK
<1>4. PlaceOK'
  <2>1. place # Home => place.today \in Int
    BY DEF SealInv, PlaceOK, SealPlaceType, Home
  <2>2. place.at \in {"scan", "chunk"} => place.safe \in Int
    BY DEF SealInv, PlaceOK, SealPlaceType, Home
  <2> QED  BY <1>1, <1>2, <2>1, <2>2 DEF SealInv, PlaceOK
<1>5. DOMAIN blocks = 1..Len(blocks) /\ DOMAIN blocks' = 1..Len(blocks')
      /\ Len(blocks) \in Nat /\ Len(blocks') \in Nat
  BY <1>1
<1>6. ChunkIsRead'
  <2> SUFFICES ASSUME place.at = "chunk", NEW b \in DOMAIN blocks',
                      b >= scanNext, b <= place.to
               PROVE  blocks'[b] \in found \cup place.todo \cup place.missed \cup {NoSource}
    BY <1>2 DEF ChunkIsRead
  <2>1. place.to \in Int /\ place.safe \in Int /\ place.to <= place.safe /\ place.safe <= Len(blocks)
    BY DEF SealInv, PlaceOK, SealPlaceType, Home
  <2>2. b \in DOMAIN blocks
    BY <1>5, <2>1
  <2> QED  BY <2>2 DEF SealInv, ChunkIsRead
<1>7. NothingBehindCursor'
  <2> SUFFICES ASSUME NEW b \in DOMAIN blocks', b < scanNext
               PROVE  blocks'[b] \in found \cup hidden \cup {NoSource}
    BY <1>2 DEF NothingBehindCursor
  <2>1. scanNext \in 1..(Len(blocks) + 1)
    BY DEF SealInv, JournalOK
  <2>2. b \in DOMAIN blocks
    BY <1>5, <2>1
  <2> QED  BY <2>2 DEF SealInv, NothingBehindCursor
<1>8. BudgetIsPast'
  <2>1. \A s \in Sources : through[s] < day'  BY <1>1
  <2>2. ASSUME NEW s \in Tokens, NEW e \in Epochs, e \in budget'[s]
        PROVE  firstEpoch'[s] # Unannounced /\ firstEpoch'[s] <= e
    <3>1. CASE e \in budget[s]
      <4>1. firstEpoch[s] # Unannounced /\ firstEpoch[s] <= e
        BY <3>1 DEF SealInv, BudgetIsPast
      <4> QED  BY <4>1
    <3>2. CASE e = day' /\ firstEpoch'[s] # Unannounced
      BY <1>1, <3>2
    <3> QED  BY <2>2, <3>1, <3>2
  <2> QED  BY <1>2, <2>1, <2>2 DEF BudgetIsPast
<1>9. WatermarkIsFinal'
  <2> SUFFICES ASSUME NEW s \in Tokens, NEW e \in Epochs, e <= through[s], e \in budget'[s]
               PROVE  e \in sealedEpochs[s] \/ e < day' - Lookback
    BY <1>2 DEF WatermarkIsFinal, FinalBelow
  <2>1. e \in budget[s]
    <3>1. e \in Int /\ s \in Sources  BY <1>1
    <3>2. e # day'  BY <1>1, <3>1
    <3> QED  BY <3>2
  <2>2. e \in sealedEpochs[s] \/ e < day - Lookback
    BY <2>1 DEF SealInv, WatermarkIsFinal, FinalBelow
  <2>3. e \in Int /\ day \in Int /\ day' \in Int /\ Lookback \in Int /\ day <= day'
    BY <1>1
  <2>4. e < day - Lookback => e < day' - Lookback
    BY <2>3
  <2> QED  BY <2>2, <2>4
<1> QED  BY <1>3, <1>4, <1>6, <1>7, <1>8, <1>9 DEF SealInv

\* What a lane's carry is released into are epochs, and the carry keeps its type.
LEMMA CarryTypes ==
  ASSUME SealInv, NEW l \in Lanes
  PROVE  ReleasedInto(l) \subseteq Epochs /\ Processed(l) \in CarryType
<1>1. carry[l] \in CarryType  BY DEF SealInv, ChainOK
<1>2. \A i \in DOMAIN carry[l].events : carry[l].events[i].day \in Epochs
  <2>1. carry[l].events \in Seq(EventType)  BY <1>1 DEF CarryType
  <2>2. \A i \in DOMAIN carry[l].events : carry[l].events[i] \in EventType  BY <2>1
  <2> QED  BY <2>2 DEF EventType
<1>3. ReleasedInto(l) \subseteq Epochs  BY <1>2 DEF ReleasedInto
<1>4. <<>> \in Seq(EventType)  OBVIOUS
<1>5. Processed(l) \in CarryType  BY <1>1, <1>4 DEF Processed, CarryType
<1> QED  BY <1>3, <1>5

LEMMA EventAppends ==
  ASSUME SealInv, NEW l \in Lanes, NEW deposit \in BOOLEAN
  PROVE  [carry[l] EXCEPT !.events = Append(@, Event(deposit))] \in CarryType
<1>1. carry[l] \in CarryType /\ day \in Epochs /\ staked \in BOOLEAN
  BY DEF SealInv, ChainOK
<1>2. Event(deposit) \in EventType  BY <1>1 DEF Event, EventType
<1>3. Append(carry[l].events, Event(deposit)) \in Seq(EventType)
  BY <1>1, <1>2 DEF CarryType
<1> QED  BY <1>1, <1>3 DEF CarryType

LEMMA OthersKeep ==
  ASSUME SealInv,
         \/ DayPasses \/ EmptyBlock \/ StakeChanges
         \/ \E s \in Sources : Announce(s) \/ FeeArrives(s)
         \/ \E l \in Lanes : ReleaseCarry(l)
  PROVE  SealInv'
<1>1. ChainOK  BY DEF SealInv
<1>2. /\ day \in Epochs /\ day \in Int /\ DayBound \in Int /\ Epochs = 0..DayBound
      /\ blocks \in Seq(Sources \cup {NoSource})
      /\ Tokens \subseteq Sources /\ Lanes \subseteq Sources /\ Tokens \cap Lanes = {}
      /\ \A s \in Sources : firstEpoch[s] \in Int /\ firstEpoch[s] <= day
  BY <1>1, SealAssumption DEF ChainOK, Epochs, Sources
<1>3. CASE DayPasses
  <2>1. /\ day' = day + 1 /\ day' \in Epochs /\ UNCHANGED <<sealJournal, place, hidden>>
        /\ UNCHANGED <<blocks, firstEpoch, budget, sealedEpochs, staked, carry>>
    BY <1>2, <1>3 DEF DayPasses, Off
  <2>2. ChainOK'  BY <1>1, <1>2, <2>1 DEF ChainOK
  <2> QED  BY <1>2, <2>1, <2>2, ChainKeeps
<1>4. ASSUME NEW s \in Sources \cup {NoSource}, Len(blocks) < BlockBound,
             blocks' = Append(blocks, s), UNCHANGED <<day, budget, sealedEpochs, staked, carry>>,
             firstEpoch' \in [Sources -> -1..DayBound], \A u \in Sources : firstEpoch'[u] <= day,
             \A u \in Sources : firstEpoch[u] # Unannounced => firstEpoch'[u] = firstEpoch[u],
             UNCHANGED <<sealJournal, place, hidden>>
      PROVE  SealInv'
  <2>1. /\ blocks' \in Seq(Sources \cup {NoSource}) /\ Len(blocks') = Len(blocks) + 1
        /\ \A b \in DOMAIN blocks : blocks'[b] = blocks[b]
        /\ Len(blocks) \in Nat /\ BlockBound \in Nat
    BY <1>2, <1>4, SealAssumption
  <2>2. ChainOK'  BY <1>1, <1>4, <2>1 DEF ChainOK
  <2> QED  BY <1>2, <1>4, <2>1, <2>2, ChainKeeps
<1>5. CASE EmptyBlock
  <2>1. firstEpoch' = firstEpoch /\ firstEpoch \in [Sources -> -1..DayBound]
    BY <1>1, <1>5 DEF EmptyBlock, ChainOK
  <2> QED  BY <1>2, <1>4, <1>5, <2>1 DEF EmptyBlock, Off
<1>6. ASSUME NEW s \in Sources, Announce(s) PROVE SealInv'
  <2>1. /\ firstEpoch' = [firstEpoch EXCEPT ![s] = day] /\ firstEpoch[s] = Unannounced
        /\ firstEpoch \in [Sources -> -1..DayBound]
    BY <1>1, <1>6 DEF Announce, ChainOK
  <2>2. /\ firstEpoch' \in [Sources -> -1..DayBound]
        /\ \A u \in Sources : firstEpoch'[u] <= day
        /\ \A u \in Sources : firstEpoch[u] # Unannounced => firstEpoch'[u] = firstEpoch[u]
    BY <1>2, <2>1
  <2> QED  BY <1>4, <1>6, <2>2 DEF Announce, Off
<1>7. ASSUME NEW budgets \in [Sources -> SUBSET Epochs], budget' = budgets,
             \A u \in Tokens : \A e \in budgets[u] :
               e \in budget[u] \/ (e = day /\ firstEpoch[u] # Unannounced),
             carry' \in [Lanes -> CarryType], staked' \in BOOLEAN,
             UNCHANGED <<day, blocks, firstEpoch, sealedEpochs, sealJournal, place, hidden>>
      PROVE  SealInv'
  <2>1. ChainOK'  BY <1>1, <1>7 DEF ChainOK
  <2> QED  BY <1>2, <1>7, <2>1, ChainKeeps
<1>8. ASSUME NEW s \in Sources, FeeArrives(s) PROVE SealInv'
  <2>1. budget' \in [Sources -> SUBSET Epochs]
    BY <1>1, <1>2, <1>8 DEF FeeArrives, ChainOK
  <2>2. /\ firstEpoch[s] # Unannounced
        /\ budget' \in {budget, [budget EXCEPT ![s] = @ \cup {day}]}
        /\ budget \in [Sources -> SUBSET Epochs]
    BY <1>1, <1>8 DEF FeeArrives, ChainOK
  <2>3. \A u \in Tokens : \A e \in budget'[u] :
           e \in budget[u] \/ (e = day /\ firstEpoch[u] # Unannounced)
    BY <1>2, <2>2
  <2>4. carry' \in [Lanes -> CarryType]
    <3>1. CASE s \in Lanes
      <4>1. carry' = [carry EXCEPT ![s] = [carry[s] EXCEPT !.events = Append(@, Event(~staked))]]
        BY <1>8, <3>1 DEF FeeArrives
      <4>2. [carry[s] EXCEPT !.events = Append(@, Event(~staked))] \in CarryType
        BY <3>1, EventAppends
      <4> QED  BY <1>1, <3>1, <4>1, <4>2 DEF ChainOK
    <3>2. CASE s \notin Lanes
      BY <1>1, <1>8, <3>2 DEF FeeArrives, ChainOK
    <3> QED  BY <3>1, <3>2
  <2>5. UNCHANGED <<day, blocks, firstEpoch, sealedEpochs, staked, sealJournal, place, hidden>>
    BY <1>8 DEF FeeArrives, Off
  <2> QED  BY <1>1, <1>7, <2>1, <2>3, <2>4, <2>5 DEF ChainOK
<1>9. CASE StakeChanges
  <2>1. carry' \in [Lanes -> CarryType]
    <3>1. \A l \in Lanes : carry[l] \in CarryType  BY <1>1 DEF ChainOK
    <3>2. \A l \in Lanes : [carry[l] EXCEPT !.events = Append(@, Event(FALSE))] \in CarryType
      BY EventAppends
    <3> QED  BY <1>9, <3>1, <3>2 DEF StakeChanges
  <2>2. UNCHANGED <<day, blocks, firstEpoch, budget, sealedEpochs, sealJournal, place, hidden>>
        /\ staked' \in BOOLEAN
    BY <1>9 DEF StakeChanges, Off
  <2> QED  BY <1>1, <1>7, <2>1, <2>2 DEF ChainOK
<1>10. ASSUME NEW l \in Lanes, ReleaseCarry(l) PROVE SealInv'
  <2>1. /\ budget' = [budget EXCEPT ![l] = @ \cup ReleasedInto(l)]
        /\ carry' = [carry EXCEPT ![l] = Processed(l)]
        /\ UNCHANGED <<day, blocks, firstEpoch, sealedEpochs, staked, sealJournal, place, hidden>>
    BY <1>10 DEF ReleaseCarry, Off
  <2>2. ReleasedInto(l) \subseteq Epochs /\ Processed(l) \in CarryType
    BY CarryTypes
  <2>3. budget' \in [Sources -> SUBSET Epochs] /\ carry' \in [Lanes -> CarryType]
    BY <1>1, <1>2, <2>1, <2>2 DEF ChainOK
  <2>4. \A u \in Tokens : budget'[u] = budget[u]
    BY <1>1, <1>2, <2>1 DEF ChainOK
  <2> QED  BY <1>1, <1>7, <2>1, <2>3, <2>4 DEF ChainOK
<1> QED  BY <1>3, <1>5, <1>6, <1>8, <1>9, <1>10

-----------------------------------------------------------------------------
(* The keeper.                                                             *)

\* A step that moves neither the cursor nor a watermark.
LEMMA WorkKeeps ==
  ASSUME SealInv, ChainOK', JournalOK', PlaceOK', ChunkIsRead',
         UNCHANGED <<day, blocks, firstEpoch, through, scanNext, hidden>>,
         found \subseteq found',
         \A s \in Tokens : budget'[s] = budget[s],
         \A s \in Tokens : sealedEpochs[s] \subseteq sealedEpochs'[s]
  PROVE  SealInv'
<1>1. NothingBehindCursor'  BY DEF SealInv, NothingBehindCursor
<1>2. BudgetIsPast'  BY DEF SealInv, BudgetIsPast
<1>3. WatermarkIsFinal'  BY DEF SealInv, WatermarkIsFinal, FinalBelow
<1> QED  BY <1>1, <1>2, <1>3 DEF SealInv

\* Only the place in the tick.
LEMMA MoveKeeps ==
  ASSUME SealInv, PlaceOK', ChunkIsRead', UNCHANGED <<sealChain, sealJournal, hidden>>
  PROVE  SealInv'
<1>1. ChainOK' /\ JournalOK'
  BY DEF SealInv, ChainOK, JournalOK, sealChain, sealJournal
<1> QED  BY <1>1, WorkKeeps DEF sealChain, sealJournal

\* A place that is not in the scan.
LEMMA OffScan ==
  ASSUME SealInv, UNCHANGED <<day, blocks>>, place' \in SealPlaceType,
         place'.at \in {"home", "sources", "seal"}, place' # Home => place'.today <= day
  PROVE  PlaceOK' /\ ChunkIsRead'
BY DEF PlaceOK, ChunkIsRead

\* What every step of a tick knows of its place.
LEMMA PlaceFacts ==
  ASSUME SealInv
  PROVE  /\ place \in SealPlaceType /\ day \in Nat /\ Len(blocks) \in Nat
         /\ Home \in SealPlaceType /\ found \subseteq Sources
         /\ place # Home => place.today \in Nat /\ place.today <= day
         /\ place # Home <=> place.at # "home"
         /\ DOMAIN blocks = 1..Len(blocks)
         /\ \A b \in DOMAIN blocks : blocks[b] \in Sources \cup {NoSource}
<1>1. place \in SealPlaceType /\ (place # Home => place.today <= day) /\ found \subseteq Sources
  BY DEF SealInv, PlaceOK, JournalOK
<1>2. day \in Nat /\ Len(blocks) \in Nat /\ blocks \in Seq(Sources \cup {NoSource})
  BY SealAssumption DEF SealInv, ChainOK, Epochs
<1>3. /\ DOMAIN blocks = 1..Len(blocks)
      /\ \A b \in DOMAIN blocks : blocks[b] \in Sources \cup {NoSource}
  BY <1>2
<1>4. Home \in SealPlaceType /\ place # Home => place.today \in Nat
  BY <1>1 DEF SealPlaceType, Home
<1>5. place # Home <=> place.at # "home"
  BY <1>1 DEF SealPlaceType, Home
<1>6. Home \in SealPlaceType  BY DEF SealPlaceType
<1>7. place # Home => place.today \in Nat
  BY <1>4, <1>6
<1> QED  BY <1>1, <1>2, <1>3, <1>5, <1>6, <1>7

LEMMA ToSourcesIsPlace ==
  ASSUME SealInv, place # Home
  PROVE  /\ ToSources(place.today) \in SealPlaceType
         /\ ToSources(place.today).at = "sources" /\ ToSources(place.today).today = place.today
BY PlaceFacts DEF ToSources, SealPlaceType

LEMMA ScanKeeps ==
  ASSUME SealInv,
         \/ BeginTick \/ ReadChunk \/ SaveCursorOfScan \/ EndScan \/ ScanFails \/ SealCrash
         \/ EndTick \/ \E s \in Sources : NoteSource(s)
  PROVE  SealInv'
<1>1. /\ place \in SealPlaceType /\ day \in Nat /\ Len(blocks) \in Nat
      /\ Home \in SealPlaceType /\ found \subseteq Sources
      /\ place # Home => place.today \in Nat /\ place.today <= day
      /\ place # Home <=> place.at # "home"
      /\ DOMAIN blocks = 1..Len(blocks)
      /\ \A b \in DOMAIN blocks : blocks[b] \in Sources \cup {NoSource}
  BY PlaceFacts
<1>2. place.at \in {"scan", "chunk"} => place.safe \in Nat /\ place.safe <= Len(blocks)
  BY <1>1 DEF SealInv, PlaceOK, SealPlaceType, Home
<1>3. place.at = "chunk" =>
        place.to \in Nat /\ place.to <= place.safe
          /\ place.todo \subseteq Sources /\ place.missed \subseteq Sources
  BY <1>1 DEF SealInv, PlaceOK, SealPlaceType, Home
<1>4. scanNext \in 1..(Len(blocks) + 1) /\ scanNext \in Nat /\ Chunk \in Nat
  BY <1>1, SealAssumption DEF SealInv, JournalOK
<1>5. Home.at = "home"  BY DEF Home
<1>6. CASE BeginTick
  <2>1. place' = [at |-> "scan", today |-> day, safe |-> Len(blocks)]
        /\ UNCHANGED <<sealChain, sealJournal, hidden>>
    BY <1>6 DEF BeginTick
  <2>2. place' \in SealPlaceType /\ place'.at = "scan"
    BY <1>1, <2>1 DEF SealPlaceType
  <2>3. PlaceOK' /\ ChunkIsRead'
    BY <1>1, <2>1, <2>2 DEF PlaceOK, ChunkIsRead, sealChain
  <2> QED  BY <2>1, <2>3, MoveKeeps
<1>7. CASE ReadChunk
  <2> DEFINE to == IF scanNext + Chunk - 1 < place.safe THEN scanNext + Chunk - 1 ELSE place.safe
             announced(bs) == {blocks[b] : b \in bs} \ {NoSource}
             noted(known) == announced({b \in scanNext..to : b <= known})
             absent(known) == announced({b \in scanNext..to : b > known})
  <2>1. /\ place.at = "scan" /\ scanNext <= place.safe
        /\ UNCHANGED <<sealChain, sealJournal, hidden>>
    BY <1>7 DEF ReadChunk
  <2>2. PICK known \in 0..Len(blocks) :
          place' = [at |-> "chunk", today |-> place.today, safe |-> place.safe, to |-> to,
                    todo |-> noted(known), missed |-> absent(known)]
    BY <1>7 DEF ReadChunk
  <2>3. to \in Nat /\ to <= place.safe  BY <1>2, <1>4, <2>1
  <2> HIDE DEF to
  <2>4. noted(known) \subseteq Sources /\ absent(known) \subseteq Sources
    BY <1>1, <1>2, <1>4, <2>1, <2>3
  <2>5. \A b \in DOMAIN blocks :
          b >= scanNext /\ b <= to => blocks[b] \in noted(known) \cup absent(known) \cup {NoSource}
    <3> TAKE b \in DOMAIN blocks
    <3> HAVE b >= scanNext /\ b <= to
    <3>1. b \in scanNext..to /\ (b <= known \/ b > known)
      BY <1>1, <1>4, <2>3
    <3> QED  BY <3>1
  <2> HIDE DEF noted, absent
  <2>6. place' \in SealPlaceType
    BY <1>1, <1>2, <2>1, <2>2, <2>3, <2>4, <1>5 DEF SealPlaceType
  <2>7. PlaceOK'
    BY <1>1, <1>2, <1>5, <2>1, <2>2, <2>3, <2>6 DEF PlaceOK, sealChain
  <2>8. ChunkIsRead'
    BY <2>1, <2>2, <2>5 DEF ChunkIsRead, sealChain, sealJournal
  <2> QED  BY <2>1, <2>7, <2>8, MoveKeeps
<1>8. ASSUME NEW s \in Sources, NoteSource(s) PROVE SealInv'
  <2>1. /\ place.at = "chunk" /\ s \in place.todo /\ found' = found \cup {s}
        /\ place' = [place EXCEPT !.todo = @ \ {s}]
        /\ UNCHANGED <<sealChain, scanNext, through, sealTask, hidden>>
    BY <1>8 DEF NoteSource
  <2>2. place \in [at : {"chunk"}, today : Nat, safe : Nat, to : Nat,
                   todo : SUBSET Sources, missed : SUBSET Sources]
    BY <1>1, <2>1 DEF SealPlaceType, Home
  <2>3. /\ place' \in [at : {"chunk"}, today : Nat, safe : Nat, to : Nat,
                       todo : SUBSET Sources, missed : SUBSET Sources]
        /\ place'.at = "chunk" /\ place'.today = place.today /\ place'.safe = place.safe
        /\ place'.to = place.to /\ place'.missed = place.missed
        /\ place'.todo = place.todo \ {s}
    BY <2>1, <2>2
  <2>4. PlaceOK'
    BY <1>1, <1>2, <1>3, <1>5, <2>1, <2>3 DEF PlaceOK, SealPlaceType, sealChain
  <2>5. ChunkIsRead'
    BY <2>1, <2>3 DEF SealInv, ChunkIsRead, sealChain
  <2>6. ChainOK' /\ JournalOK'
    BY <1>1, <2>1 DEF SealInv, ChainOK, JournalOK, sealChain
  <2> QED  BY <2>1, <2>4, <2>5, <2>6, WorkKeeps DEF sealChain
<1>9. ASSUME place.at = "chunk", place' = ToSources(place.today),
             UNCHANGED <<sealChain, sealJournal, hidden>>
      PROVE  SealInv'
  BY <1>1, <1>9, ToSourcesIsPlace, OffScan, MoveKeeps DEF sealChain
<1>10. ASSUME place.at = "chunk", place.todo = {}, PassChunk,
              UNCHANGED <<sealChain, found, through, sealTask>>
       PROVE  SealInv'
  <2>1. /\ place.at = "chunk" /\ place.todo = {} /\ scanNext' = place.to + 1
        /\ hidden' = hidden \cup place.missed
        /\ place' \in {[at |-> "scan", today |-> place.today, safe |-> place.safe],
                       ToSources(place.today)}
        /\ UNCHANGED <<sealChain, found, through, sealTask>>
    BY <1>10 DEF PassChunk
  <2>2. place # Home  BY <1>1, <2>1
  <2>3. [at |-> "scan", today |-> place.today, safe |-> place.safe] \in SealPlaceType
    BY <1>1, <1>2, <2>1, <2>2 DEF SealPlaceType
  <2>4. place' \in SealPlaceType /\ place'.at \in {"scan", "sources"}
        /\ place'.today = place.today /\ (place'.at = "scan" => place'.safe = place.safe)
    BY <2>1, <2>2, <2>3, ToSourcesIsPlace
  <2>5. PlaceOK' /\ ChunkIsRead'
    BY <1>1, <1>2, <2>1, <2>2, <2>4 DEF PlaceOK, ChunkIsRead, sealChain
  <2>6. ChainOK' /\ JournalOK'
    <3>1. ChainOK'  BY <2>1 DEF SealInv, ChainOK, sealChain
    <3>2. hidden' \subseteq Sources  BY <1>3, <2>1 DEF SealInv, JournalOK
    <3>3. scanNext' \in 1..(Len(blocks) + 1)  BY <1>1, <1>2, <1>3, <2>1
    <3> QED  BY <2>1, <3>1, <3>2, <3>3 DEF SealInv, JournalOK, sealChain
  <2>7. NothingBehindCursor'
    <3> SUFFICES ASSUME NEW b \in DOMAIN blocks, b < place.to + 1
                 PROVE  blocks[b] \in found \cup hidden \cup place.missed \cup {NoSource}
      BY <2>1 DEF NothingBehindCursor, sealChain
    <3>1. CASE b < scanNext
      BY <3>1 DEF SealInv, NothingBehindCursor
    <3>2. CASE ~(b < scanNext)
      <4>1. b >= scanNext /\ b <= place.to  BY <1>1, <1>3, <1>4, <2>1, <3>2
      <4> QED  BY <2>1, <4>1 DEF SealInv, ChunkIsRead
    <3> QED  BY <3>1, <3>2
  <2>8. BudgetIsPast' /\ WatermarkIsFinal'
    BY <2>1 DEF SealInv, BudgetIsPast, WatermarkIsFinal, FinalBelow, sealChain
  <2> QED  BY <2>5, <2>6, <2>7, <2>8 DEF SealInv
<1>11. CASE SaveCursorOfScan
  BY <1>9, <1>10, <1>11 DEF SaveCursorOfScan, sealJournal
<1>12. CASE EndScan \/ ScanFails
  <2>1. /\ place' = ToSources(place.today) /\ place # Home
        /\ UNCHANGED <<sealChain, sealJournal, hidden>>
    BY <1>1, <1>12 DEF EndScan, ScanFails
  <2> QED  BY <1>1, <2>1, ToSourcesIsPlace, OffScan, MoveKeeps DEF sealChain
<1>13. CASE EndTick \/ SealCrash
  <2>1. place' = Home /\ UNCHANGED <<sealChain, sealJournal, hidden>>
    BY <1>13 DEF EndTick, SealCrash
  <2> QED  BY <1>1, <1>5, <2>1, OffScan, MoveKeeps DEF sealChain
<1> QED  BY <1>6, <1>7, <1>8, <1>11, <1>12, <1>13

\* A seal that runs.
LEMMA SealRuns ==
  ASSUME SealInv, NEW s \in Sources, NEW e \in Epochs, seal(s, e)
  PROVE  /\ ChainOK' /\ UNCHANGED <<day, blocks, firstEpoch>>
         /\ \A t \in Tokens : budget'[t] = budget[t]
         /\ \A t \in Tokens : sealedEpochs[t] \subseteq sealedEpochs'[t]
<1>1. ChainOK /\ Tokens \subseteq Sources /\ Lanes \subseteq Sources /\ Tokens \cap Lanes = {}
  BY SealAssumption DEF SealInv, Sources
<1>2. BudgetAtSeal(s) \subseteq Epochs /\ (s \in Tokens => BudgetAtSeal(s) = budget[s])
  BY <1>1, CarryTypes DEF BudgetAtSeal, ChainOK
<1>3. /\ budget' = [budget EXCEPT ![s] = BudgetAtSeal(s)]
      /\ sealedEpochs' = [sealedEpochs EXCEPT ![s] = @ \cup {e}]
      /\ carry' = IF s \in Lanes THEN [carry EXCEPT ![s] = Processed(s)] ELSE carry
      /\ UNCHANGED <<day, blocks, firstEpoch, staked>>
  BY DEF seal
<1>4. /\ budget' \in [Sources -> SUBSET Epochs] /\ \A t \in Tokens : budget'[t] = budget[t]
      /\ sealedEpochs' \in [Sources -> SUBSET Epochs]
      /\ \A t \in Tokens : sealedEpochs[t] \subseteq sealedEpochs'[t]
  BY <1>1, <1>2, <1>3 DEF ChainOK
<1>5. carry' \in [Lanes -> CarryType]
  BY <1>1, <1>3, CarryTypes DEF ChainOK
<1> QED  BY <1>1, <1>3, <1>4, <1>5 DEF ChainOK

\* What becomes of one seal's task.
LEMMA TaskKeeps ==
  ASSUME SealInv, NEW t \in SealTasks, NEW v \in SendType, SendOK(v),
         sealTask' = [sealTask EXCEPT ![t] = v],
         UNCHANGED <<found, scanNext, through, blocks, hidden>>
  PROVE  JournalOK'
BY DEF SealInv, JournalOK

LEMMA SealsKeep ==
  ASSUME SealInv, NEW s \in Sources, NEW e \in Epochs,
         \/ SealConfirmed(s, e) \/ SealUnconfirmed(s, e)
         \/ SealLands(s, e) \/ SealReconcile(s, e)
  PROVE  SealInv'
<1> DEFINE t == <<s, e>>
<1>1. t \in SealTasks /\ sealTask[t] \in SendType /\ SendOK(sealTask[t])
  BY DEF SealInv, JournalOK, SealTasks
<1>2. /\ SendOK(Answered(sealTask[t])) /\ Answered(sealTask[t]) \in SendType
      /\ SendOK(HasLanded(sealTask[t])) /\ HasLanded(sealTask[t]) \in SendType
      /\ \A v \in Unanswered(sealTask[t]) \cup Reconciled(sealTask[t]) :
           SendOK(v) /\ v \in SendType
  BY <1>1, SendSteps DEF SendOK
<1>3. /\ place \in SealPlaceType
      /\ place # Home => place.today \in Nat /\ place.today <= day
      /\ place # Home <=> place.at # "home"
  BY PlaceFacts
<1>4. ASSUME place.at = "seal", NextEpoch(e)
      PROVE  /\ place' \in SealPlaceType /\ place'.at = "seal" /\ place'.today = place.today
  <2>1. place \in [at : {"seal"}, today : Nat, todo : SUBSET Sources, source : Sources,
                   epochs : SUBSET Int]
    BY <1>3, <1>4 DEF SealPlaceType, Home
  <2>2. /\ place' \in [at : {"seal"}, today : Nat, todo : SUBSET Sources, source : Sources,
                       epochs : SUBSET Int]
        /\ place'.at = "seal" /\ place'.today = place.today
    BY <1>4, <2>1 DEF NextEpoch
  <2> QED  BY <2>2 DEF SealPlaceType
<1>5. CASE SealConfirmed(s, e)
  <2>1. /\ place.at = "seal" /\ NextEpoch(e)
        /\ seal(s, e) \/ UNCHANGED sealChain
        /\ sealTask' = [sealTask EXCEPT ![t] = Answered(sealTask[t])]
        /\ UNCHANGED <<found, scanNext, through, hidden>>
    BY <1>5 DEF SealConfirmed, AtSeal
  <2>2. /\ ChainOK' /\ UNCHANGED <<day, blocks, firstEpoch>>
        /\ \A u \in Tokens : budget'[u] = budget[u]
        /\ \A u \in Tokens : sealedEpochs[u] \subseteq sealedEpochs'[u]
    BY <2>1, SealRuns DEF SealInv, ChainOK, sealChain
  <2>3. JournalOK'  BY <1>1, <1>2, <2>1, <2>2, TaskKeeps
  <2>4. PlaceOK' /\ ChunkIsRead'  BY <1>3, <1>4, <2>1, <2>2, OffScan
  <2> QED  BY <2>1, <2>2, <2>3, <2>4, WorkKeeps
<1>6. CASE SealUnconfirmed(s, e)
  <2>1. /\ place.at = "seal" /\ NextEpoch(e)
        /\ \/ UNCHANGED sealTask
           \/ \E v \in Unanswered(sealTask[t]) : sealTask' = [sealTask EXCEPT ![t] = v]
        /\ UNCHANGED <<sealChain, found, scanNext, through, hidden>>
    BY <1>6 DEF SealUnconfirmed, AtSeal
  <2>2. ChainOK' /\ UNCHANGED <<day, blocks, firstEpoch, budget, sealedEpochs>>
    BY <2>1 DEF SealInv, ChainOK, sealChain
  <2>3. JournalOK'
    <3>1. CASE UNCHANGED sealTask  BY <2>1, <2>2, <3>1 DEF SealInv, JournalOK
    <3>2. CASE ~UNCHANGED sealTask  BY <1>1, <1>2, <2>1, <2>2, <3>2, TaskKeeps
    <3> QED  BY <3>1, <3>2
  <2>4. PlaceOK' /\ ChunkIsRead'  BY <1>3, <1>4, <2>1, <2>2, OffScan
  <2> QED  BY <2>1, <2>2, <2>3, <2>4, WorkKeeps
<1>7. CASE SealLands(s, e)
  <2>1. /\ seal(s, e) /\ sealTask' = [sealTask EXCEPT ![t] = HasLanded(sealTask[t])]
        /\ UNCHANGED <<found, scanNext, through, place, hidden>>
    BY <1>7 DEF SealLands
  <2>2. /\ ChainOK' /\ UNCHANGED <<day, blocks, firstEpoch>>
        /\ \A u \in Tokens : budget'[u] = budget[u]
        /\ \A u \in Tokens : sealedEpochs[u] \subseteq sealedEpochs'[u]
    BY <2>1, SealRuns
  <2>3. JournalOK'  BY <1>1, <1>2, <2>1, <2>2, TaskKeeps
  <2>4. PlaceOK' /\ ChunkIsRead'
    BY <2>1, <2>2 DEF SealInv, PlaceOK, ChunkIsRead
  <2> QED  BY <2>1, <2>2, <2>3, <2>4, WorkKeeps
<1>8. CASE SealReconcile(s, e)
  <2>1. PICK v \in Reconciled(sealTask[t]) : sealTask' = [sealTask EXCEPT ![t] = v]
    BY <1>8 DEF SealReconcile
  <2>2. UNCHANGED <<sealChain, found, scanNext, through, place, hidden>>
    BY <1>8 DEF SealReconcile
  <2>3. ChainOK' /\ UNCHANGED <<day, blocks, firstEpoch, budget, sealedEpochs>>
    BY <2>2 DEF SealInv, ChainOK, sealChain
  <2>4. JournalOK'  BY <1>1, <1>2, <2>1, <2>2, <2>3, TaskKeeps
  <2>5. PlaceOK' /\ ChunkIsRead'
    BY <2>2, <2>3 DEF SealInv, PlaceOK, ChunkIsRead
  <2> QED  BY <2>2, <2>3, <2>4, <2>5, WorkKeeps
<1> QED  BY <1>5, <1>6, <1>7, <1>8

\* A source whose entry is created, or that is done with.
LEMMA SourceKeeps ==
  ASSUME SealInv, NEW s \in Sources, CreateEntry(s) \/ EndSource(s)
  PROVE  SealInv'
<1>1. /\ place \in SealPlaceType /\ place # Home => place.today \in Nat /\ place.today <= day
  BY PlaceFacts
<1>2. CASE CreateEntry(s)
  <2>1. /\ UNCHANGED <<day, blocks, firstEpoch, budget, sealedEpochs, staked, carry>>
        /\ UNCHANGED <<found, scanNext, through, sealTask, place, hidden>>
    BY <1>2 DEF CreateEntry, sealJournal
  <2>2. ChainOK' /\ JournalOK' /\ PlaceOK' /\ ChunkIsRead'
    BY <2>1 DEF SealInv, ChainOK, JournalOK, PlaceOK, ChunkIsRead
  <2> QED  BY <2>1, <2>2, WorkKeeps
<1>3. CASE EndSource(s)
  <2>1. /\ place.at = "seal" /\ UNCHANGED <<sealChain, sealJournal, hidden>>
        /\ place' = [at |-> "sources", today |-> place.today, todo |-> place.todo]
    BY <1>3 DEF EndSource, AtSeal, NextSource
  <2>2. place # Home /\ place.todo \subseteq Sources /\ place.today \in Nat /\ place.today <= day
    BY <1>1, <2>1, PlaceFacts DEF SealPlaceType, Home
  <2>3. place' \in SealPlaceType
    BY <2>1, <2>2 DEF SealPlaceType
  <2> QED  BY <2>1, <2>2, <2>3, OffScan, MoveKeeps DEF sealChain
<1> QED  BY <1>2, <1>3

\* The watermark of a source moves over what is final.
LEMMA ReadKeeps ==
  ASSUME SealInv, NEW s \in Sources, ReadEpochs(s)
  PROVE  SealInv'
<1> DEFINE now == place.today
           w == Watermark(s, now, FinalEpochs(s))
           due == {e \in FromEpoch(s, now)..(now - 1) :
                     e \notin sealedEpochs[s] /\ (e \in budget[s] \/ carryPending(s))}
<1>1. /\ place.at = "sources" /\ through' = [through EXCEPT ![s] = w]
      /\ place' = [at |-> "seal", today |-> now, todo |-> place.todo \ {s}, source |-> s,
                   epochs |-> due]
      /\ UNCHANGED <<sealChain, found, scanNext, sealTask, hidden>>
  BY DEF ReadEpochs
<1>2. /\ now \in Nat /\ now <= day /\ day \in Int /\ Lookback \in Int
      /\ place.todo \subseteq Sources /\ place # Home
  BY <1>1, PlaceFacts, SealAssumption DEF SealPlaceType, Home
<1>3. /\ through \in [Sources -> -1..DayBound] /\ through[s] \in Int /\ DayBound \in Int
      /\ firstEpoch[s] \in Int /\ through[s] < day /\ day <= DayBound
  BY SealAssumption DEF SealInv, ChainOK, JournalOK, BudgetIsPast, Epochs
<1>4. /\ w \in Int /\ through[s] <= w /\ (w = through[s] \/ w < now)
      /\ \A e \in Int : e >= FromEpoch(s, now) /\ e <= w => e <= through[s] \/ e \in FinalEpochs(s)
  <2> HIDE DEF now
  <2> QED  BY <1>2, <1>3, WatermarkPasses
<1>5. due \subseteq Int
  <2>1. FromEpoch(s, now) \in Int  BY <1>2, <1>3 DEF FromEpoch, Greatest
  <2> QED  BY <1>2, <2>1
<1> HIDE DEF w, due
<1>6. place' \in SealPlaceType
  BY <1>1, <1>2, <1>5 DEF SealPlaceType
<1>7. PlaceOK' /\ ChunkIsRead'
  BY <1>1, <1>2, <1>6, OffScan DEF sealChain
<1>8. w \in -1..DayBound /\ w < day
  <2>1. through[s] \in -1..DayBound  BY <1>3
  <2> QED  BY <1>2, <1>3, <1>4, <2>1
<1>9. /\ through' \in [Sources -> -1..DayBound] /\ through'[s] = w
      /\ \A t \in Sources : t # s => through'[t] = through[t]
  BY <1>1, <1>3, <1>8
<1>10. ChainOK' /\ JournalOK' /\ NothingBehindCursor'
  BY <1>1, <1>9 DEF SealInv, ChainOK, JournalOK, NothingBehindCursor, sealChain
<1>11. BudgetIsPast'
  BY <1>1, <1>8, <1>9 DEF SealInv, BudgetIsPast, sealChain
<1>12. WatermarkIsFinal'
  <2> SUFFICES ASSUME NEW t \in Tokens, NEW e \in Epochs, e <= through'[t], e \in budget[t]
               PROVE  e \in sealedEpochs[t] \/ e < day - Lookback
    BY <1>1 DEF WatermarkIsFinal, FinalBelow, sealChain
  <2>1. t \in Sources /\ e \in Int  BY DEF Sources, Epochs
  <2>2. e <= through[t] => e \in sealedEpochs[t] \/ e < day - Lookback
    BY DEF SealInv, WatermarkIsFinal, FinalBelow
  <2>3. CASE t # s  BY <1>9, <2>1, <2>2, <2>3
  <2>4. CASE t = s /\ ~(e <= through[s])
    <3>1. firstEpoch[s] # Unannounced /\ firstEpoch[s] <= e
      BY <2>4 DEF SealInv, BudgetIsPast
    <3>2. e <= w  BY <1>9, <2>4
    <3>3. CASE e >= FromEpoch(s, now)
      <4>1. e \in FinalEpochs(s)  BY <1>4, <2>1, <2>4, <3>2, <3>3
      <4> QED  BY <2>4, <4>1 DEF FinalEpochs
    <3>4. CASE ~(e >= FromEpoch(s, now))
      <4> HIDE DEF now
      <4>1. ~(e >= now - Lookback)
        BY <1>2, <1>3, <2>1, <2>4, <3>1, <3>4 DEF FromEpoch, Greatest
      <4> QED  BY <1>2, <2>1, <4>1
    <3> QED  BY <3>3, <3>4
  <2>5. CASE t = s /\ e <= through[s]  BY <2>2, <2>5
  <2> QED  BY <2>3, <2>4, <2>5
<1> QED  BY <1>7, <1>10, <1>11, <1>12 DEF SealInv

-----------------------------------------------------------------------------
(* The theorems.                                                           *)

LEMMA SealStepKeeps ==
  ASSUME SealInv, [SealNext]_sealVars
  PROVE  SealInv'
<1>1. CASE UNCHANGED sealVars
  <2>1. PlaceOK' /\ ChunkIsRead'
    BY <1>1 DEF sealVars, sealChain, sealJournal, SealInv, PlaceOK, ChunkIsRead
  <2> QED  BY <1>1, <2>1, MoveKeeps DEF sealVars
<1>2. CASE Ticking
  BY <1>2, ScanKeeps, SealsKeep, SourceKeeps, ReadKeeps DEF Ticking
<1>3. CASE SealNext /\ ~Ticking
  BY <1>3, ScanKeeps, SealsKeep, OthersKeep DEF SealNext
<1> QED  BY <1>1, <1>2, <1>3

THEOREM SealInvariant == SealSpec => []SealInv
<1>1. SealInit => SealInv  BY SealInvInit
<1>2. SealInv /\ [SealNext]_sealVars => SealInv'  BY SealStepKeeps
<1> QED  BY <1>1, <1>2, PTL DEF SealSpec

\* The keeper keeps its types: no watermark outruns the days, no seal is attempted more
\* often than SendAttempts, and no budget or seal falls outside the epochs.
THEOREM SealTypes == SealSpec => []SealTypeOK
<1>1. SealInv => SealTypeOK
  BY DEF SealInv, ChainOK, JournalOK, SealTypeOK, SealTasks
<1> QED  BY <1>1, SealInvariant, PTL

\* Whatever nodes answer and wherever the keeper dies, every source announced before the
\* cursor is in the journal (discovery.mjs:65), but for those whose block the node that
\* answered with the logs lacked while the node asked for the block had it.
THEOREM NoSourceIsLost == SealSpec => []NothingBehindCursor
<1>1. SealInv => NothingBehindCursor  BY DEF SealInv
<1> QED  BY <1>1, SealInvariant, PTL

\* What the watermark of a token has passed needs no seal any more (keeper.mjs:151).
THEOREM PassedIsFinal == SealSpec => []WatermarkIsFinal
<1>1. SealInv => WatermarkIsFinal  BY DEF SealInv
<1> QED  BY <1>1, SealInvariant, PTL

-----------------------------------------------------------------------------
(* RoundKeeper: the inductive invariant.                                   *)

IsSeq(s) == \E S : s \in Seq(S)

IsRound(x) ==
  x \in [order : {x.order}, status : {x.status}, funded : {x.funded}, result : {x.result},
         paid : {0, 1}, tries : {x.tries}]

IsRec(x) == x \in [dispatch : {"none", "intent"}, terminal : BOOLEAN]

\* The keeper's place, as far as the dispatch is concerned.
IsPlace ==
  \/ batch = Outside
  \/ batch = [step |-> "group", active |-> batch.active, todo |-> batch.todo]
  \/ batch = [step |-> batch.step, active |-> batch.active, todo |-> batch.todo,
              group |-> batch.group, order |-> batch.order]
     /\ batch.step \in {"fees", "start"}
  \/ batch = [step |-> "dispatch", round |-> batch.round]

\* What is paid has its intent on record; the lane is only called for a round whose intent is
\* on record and which was not paid.
PaidOnRecord ==
  \A r \in DOMAIN rounds : rounds[r].paid = 1 => roundRec[r].dispatch = "intent"
CalledOnce ==
  batch.step = "dispatch" =>
    /\ batch.round \in DOMAIN rounds
    /\ rounds[batch.round].paid = 0 /\ roundRec[batch.round].dispatch = "intent"

RoundInv ==
  /\ IsSeq(rounds) /\ \A r \in DOMAIN rounds : IsRound(rounds[r])
  /\ IsSeq(roundRec) /\ \A r \in DOMAIN roundRec : IsRec(roundRec[r])
  /\ Len(roundRec) = Len(rounds)
  /\ IsPlace /\ PaidOnRecord /\ CalledOnce

-----------------------------------------------------------------------------
(* Sequences.                                                              *)

LEMMA Domains ==
  ASSUME NEW s, IsSeq(s)
  PROVE  Len(s) \in Nat /\ DOMAIN s = 1..Len(s)
BY DEF IsSeq

LEMMA Appends ==
  ASSUME NEW s, IsSeq(s), NEW x
  PROVE  LET t == Append(s, x)
         IN /\ IsSeq(t) /\ Len(t) = Len(s) + 1
            /\ DOMAIN t = DOMAIN s \cup {Len(s) + 1}
            /\ t[Len(s) + 1] = x /\ \A i \in DOMAIN s : t[i] = s[i]
<1>1. PICK S : s \in Seq(S)  BY DEF IsSeq
<1>2. s \in Seq(S \cup {x}) /\ x \in S \cup {x}  BY <1>1
<1>3. Append(s, x) \in Seq(S \cup {x})  BY <1>2
<1> QED  BY <1>2, <1>3 DEF IsSeq

\* One element replaced.
LEMMA Replaces ==
  ASSUME NEW s, IsSeq(s), NEW i \in DOMAIN s, NEW x
  PROVE  LET t == [s EXCEPT ![i] = x]
         IN /\ IsSeq(t) /\ Len(t) = Len(s) /\ DOMAIN t = DOMAIN s
            /\ t[i] = x /\ \A j \in DOMAIN s : j # i => t[j] = s[j]
<1>1. PICK S : s \in Seq(S)  BY DEF IsSeq
<1>2. s \in Seq(S \cup {x}) /\ x \in S \cup {x} /\ i \in 1..Len(s)  BY <1>1
<1>3. [s EXCEPT ![i] = x] \in Seq(S \cup {x}) /\ Len([s EXCEPT ![i] = x]) = Len(s)
  BY <1>2, ExceptSeq
<1> QED  BY <1>3 DEF IsSeq

LEMMA SameDomain ==
  ASSUME RoundInv
  PROVE  /\ DOMAIN roundRec = DOMAIN rounds /\ Len(rounds) \in Nat
         /\ DOMAIN rounds = 1..Len(rounds)
BY Domains DEF RoundInv

-----------------------------------------------------------------------------
(* The steps.                                                              *)

LEMMA RoundInvInit == RoundInit => RoundInv
<1> SUFFICES ASSUME RoundInit PROVE RoundInv  OBVIOUS
<1>1. rounds = <<>> /\ roundRec = <<>> /\ batch = Outside  BY DEF RoundInit
<1>2. IsSeq(<<>>) /\ DOMAIN rounds = {} /\ DOMAIN roundRec = {}
  <2>1. <<>> \in Seq({})  OBVIOUS
  <2> QED  BY <1>1, <2>1 DEF IsSeq
<1>3. batch.step = "outside"  BY <1>1 DEF Outside
<1> QED  BY <1>1, <1>2, <1>3 DEF RoundInv, IsPlace, PaidOnRecord, CalledOnce

\* The place may change to any that does not call the lane.
Walks ==
  \/ batch' = batch
  \/ IsPlace' /\ batch'.step # "dispatch"

\* No round is paid and no intent is written or taken back.
LEMMA NoPayment ==
  ASSUME RoundInv, Walks, roundRec' = roundRec,
         IsSeq(rounds'), DOMAIN rounds' = DOMAIN rounds, Len(rounds') = Len(rounds),
         \A r \in DOMAIN rounds : IsRound(rounds'[r]) /\ rounds'[r].paid = rounds[r].paid
  PROVE  RoundInv'
BY DEF RoundInv, Walks, IsPlace, PaidOnRecord, CalledOnce

LEMMA SameRounds ==
  ASSUME RoundInv, Walks, UNCHANGED <<rounds, roundRec>>
  PROVE  RoundInv'
BY DEF RoundInv, Walks, IsPlace, PaidOnRecord, CalledOnce

\* One round's record changes but for what was paid.
LEMMA RoundChanges ==
  ASSUME RoundInv, Walks, roundRec' = roundRec, NEW r \in DOMAIN rounds, NEW x,
         IsRound(x), x.paid = rounds[r].paid, rounds' = [rounds EXCEPT ![r] = x]
  PROVE  RoundInv'
<1>1. IsSeq(rounds)  BY DEF RoundInv
<1>2. /\ IsSeq(rounds') /\ Len(rounds') = Len(rounds) /\ DOMAIN rounds' = DOMAIN rounds
      /\ rounds'[r] = x /\ \A j \in DOMAIN rounds : j # r => rounds'[j] = rounds[j]
  BY <1>1, Replaces
<1>3. \A j \in DOMAIN rounds : IsRound(rounds'[j]) /\ rounds'[j].paid = rounds[j].paid
  BY <1>2 DEF RoundInv
<1> QED  BY <1>2, <1>3, NoPayment

\* A started round was neither paid nor dispatched.
LEMMA StartSteps ==
  ASSUME RoundInv, Walks, NEW o, executeAndStart(o)
  PROVE  RoundInv'
<1> DEFINE x == [order |-> o, status |-> "Funding", funded |-> FALSE,
                 result |-> "none", paid |-> 0, tries |-> 0]
           y == [dispatch |-> "none", terminal |-> FALSE]
           n == Len(rounds) + 1
<1>1. rounds' = Append(rounds, x) /\ roundRec' = Append(roundRec, y)
  BY DEF executeAndStart
<1>2. IsRound(x) /\ x.paid = 0 /\ IsRec(y)  BY DEF IsRound, IsRec
<1> HIDE DEF x, y
<1>3. /\ IsSeq(rounds') /\ Len(rounds') = n /\ DOMAIN rounds' = DOMAIN rounds \cup {n}
      /\ rounds'[n] = x /\ \A i \in DOMAIN rounds : rounds'[i] = rounds[i]
  BY <1>1, Appends DEF RoundInv
<1>4. /\ IsSeq(roundRec') /\ Len(roundRec') = n /\ DOMAIN roundRec' = DOMAIN roundRec \cup {n}
      /\ roundRec'[n] = y /\ \A i \in DOMAIN roundRec : roundRec'[i] = roundRec[i]
  BY <1>1, Appends DEF RoundInv
<1>5. DOMAIN roundRec = DOMAIN rounds /\ n \notin DOMAIN rounds  BY SameDomain
<1> HIDE DEF n
<1>6. PaidOnRecord'  BY <1>2, <1>3, <1>4, <1>5 DEF RoundInv, PaidOnRecord
<1>7. CalledOnce'  BY <1>3, <1>4, <1>5 DEF RoundInv, CalledOnce, Walks
<1>8. IsPlace'  BY DEF RoundInv, Walks, IsPlace
<1> QED  BY <1>2, <1>3, <1>4, <1>6, <1>7, <1>8 DEF RoundInv

LEMMA MoveSteps ==
  ASSUME RoundInv, Walks, roundRec' = roundRec, NEW r \in DOMAIN rounds, MoveRound(r)
  PROVE  RoundInv'
<1>1. PICK status : Moves(r, status)  BY DEF MoveRound, poke, submit, finalize
<1> DEFINE x == [rounds[r] EXCEPT !.status = status, !.tries = 0]
<1>2. IsRound(rounds[r])  BY DEF RoundInv
<1>3. rounds' = [rounds EXCEPT ![r] = x]  BY <1>1 DEF Moves
<1>4. IsRound(x) /\ x.paid = rounds[r].paid  BY <1>2 DEF IsRound
<1> HIDE DEF x
<1> QED  BY <1>3, <1>4, RoundChanges

\* Each of these changes one field of one round.
LEMMA FieldSteps ==
  ASSUME RoundInv, NEW r \in DOMAIN rounds,
         ProgressFails(r) \/ FundingArrives(r) \/ HubAnswers(r)
  PROVE  RoundInv'
<1>1. IsRound(rounds[r]) /\ Walks /\ roundRec' = roundRec
  BY DEF RoundInv, Walks, ProgressFails, FundingArrives, HubAnswers
<1>2. \E x : IsRound(x) /\ x.paid = rounds[r].paid /\ rounds' = [rounds EXCEPT ![r] = x]
  <2>1. CASE ProgressFails(r)
    <3> DEFINE x == [rounds[r] EXCEPT !.tries = @ + 1]
    <3>1. rounds' = [rounds EXCEPT ![r] = x]  BY <2>1 DEF ProgressFails
    <3>2. IsRound(x) /\ x.paid = rounds[r].paid  BY <1>1 DEF IsRound
    <3> QED  BY <3>1, <3>2
  <2>2. CASE rounds' = [rounds EXCEPT ![r].funded = TRUE]
    <3> DEFINE x == [rounds[r] EXCEPT !.funded = TRUE]
    <3>1. rounds' = [rounds EXCEPT ![r] = x]  BY <2>2
    <3>2. IsRound(x) /\ x.paid = rounds[r].paid  BY <1>1 DEF IsRound
    <3> QED  BY <3>1, <3>2
  <2>3. ASSUME NEW result, rounds' = [rounds EXCEPT ![r].result = result]
        PROVE  \E x : IsRound(x) /\ x.paid = rounds[r].paid /\ rounds' = [rounds EXCEPT ![r] = x]
    <3> DEFINE x == [rounds[r] EXCEPT !.result = result]
    <3>1. rounds' = [rounds EXCEPT ![r] = x]  BY <2>3
    <3>2. IsRound(x) /\ x.paid = rounds[r].paid  BY <1>1 DEF IsRound
    <3> QED  BY <3>1, <3>2
  <2> QED  BY <2>1, <2>2, <2>3 DEF FundingArrives, HubAnswers
<1> QED  BY <1>1, <1>2, RoundChanges

\* A round's own record changes, within what it says of the dispatch.
LEMMA RecChanges ==
  ASSUME RoundInv, rounds' = rounds, NEW r \in DOMAIN rounds, NEW y, IsRec(y), IsPlace',
         roundRec' = [roundRec EXCEPT ![r] = y],
         rounds[r].paid = 1 => y.dispatch = "intent",
         batch'.step = "dispatch" => batch'.round = r /\ rounds[r].paid = 0 /\ y.dispatch = "intent"
  PROVE  RoundInv'
<1>1. IsSeq(roundRec) /\ r \in DOMAIN roundRec  BY SameDomain DEF RoundInv
<1>2. /\ IsSeq(roundRec') /\ Len(roundRec') = Len(roundRec)
      /\ DOMAIN roundRec' = DOMAIN roundRec /\ roundRec'[r] = y
      /\ \A j \in DOMAIN roundRec : j # r => roundRec'[j] = roundRec[j]
  BY <1>1, Replaces
<1>3. PaidOnRecord'  BY <1>2, SameDomain DEF RoundInv, PaidOnRecord
<1>4. CalledOnce'  BY <1>2, SameDomain DEF CalledOnce
<1> QED  BY <1>2, <1>3, <1>4 DEF RoundInv

LEMMA DispatchSteps ==
  ASSUME RoundInv,
         \/ DispatchSent \/ DispatchRefused
         \/ \E r \in DOMAIN rounds : DispatchIntent(r) \/ CloseRound(r)
  PROVE  RoundInv'
<1> USE DEF RoundInv
<1>1. Outside.step = "outside"  BY DEF Outside
<1>2. CASE DispatchSent
  <2> DEFINE r == batch.round
  <2>1. PICK p \in {0, 1} : rounds' = [rounds EXCEPT ![r].paid = @ + p]
    BY <1>2 DEF DispatchSent
  <2>2. /\ batch.step = "dispatch" /\ roundRec' = roundRec
        /\ batch' = Outside /\ IsPlace' /\ batch'.step = "outside"
    BY <1>1, <1>2 DEF DispatchSent, OnOrder, IsPlace
  <2>3. r \in DOMAIN rounds /\ rounds[r].paid = 0 /\ roundRec[r].dispatch = "intent"
    BY <2>2 DEF CalledOnce
  <2> DEFINE x == [rounds[r] EXCEPT !.paid = @ + p]
  <2>4. rounds' = [rounds EXCEPT ![r] = x]  BY <2>1
  <2>5. IsRound(x)  BY <2>3 DEF IsRound
  <2> HIDE DEF x
  <2>6. /\ IsSeq(rounds') /\ Len(rounds') = Len(rounds) /\ DOMAIN rounds' = DOMAIN rounds
        /\ rounds'[r] = x /\ \A j \in DOMAIN rounds : j # r => rounds'[j] = rounds[j]
    <3>1. IsSeq(rounds)  OBVIOUS
    <3>2. r \in DOMAIN rounds  BY <2>3
    <3> HIDE DEF r, RoundInv
    <3>3. LET t == [rounds EXCEPT ![r] = x]
          IN /\ IsSeq(t) /\ Len(t) = Len(rounds) /\ DOMAIN t = DOMAIN rounds
             /\ t[r] = x /\ \A j \in DOMAIN rounds : j # r => t[j] = rounds[j]
      BY <3>1, <3>2, Replaces
    <3> QED  BY <2>4, <3>3
  <2>7. PaidOnRecord'  BY <2>2, <2>3, <2>6 DEF PaidOnRecord
  <2> QED  BY <2>2, <2>5, <2>6, <2>7 DEF CalledOnce
<1>3. CASE DispatchRefused
  <2> DEFINE r == batch.round
             y == [roundRec[r] EXCEPT !.dispatch = "none"]
  <2>1. /\ batch.step = "dispatch" /\ rounds' = rounds
        /\ roundRec' = [roundRec EXCEPT ![r] = y]
        /\ batch' = Outside /\ IsPlace' /\ batch'.step = "outside"
    BY <1>1, <1>3 DEF DispatchRefused, OnOrder, IsPlace
  <2>2. r \in DOMAIN rounds /\ rounds[r].paid = 0 /\ IsRec(roundRec[r])
    BY <2>1, SameDomain DEF CalledOnce
  <2>3. IsRec(y)  BY <2>2 DEF IsRec
  <2>5. batch'.step # "dispatch" /\ rounds[r].paid # 1  BY <2>1, <2>2
  <2>6. r \in DOMAIN rounds /\ rounds' = rounds /\ IsPlace'  BY <2>1, <2>2
  <2>7. roundRec' = [roundRec EXCEPT ![r] = y]  BY <2>1
  <2> HIDE DEF y, r, RoundInv
  <2> QED  BY <2>3, <2>5, <2>6, <2>7, RecChanges
<1>4. ASSUME NEW r \in DOMAIN rounds, DispatchIntent(r)  PROVE RoundInv'
  <2> DEFINE y == [roundRec[r] EXCEPT !.dispatch = "intent"]
  <2>1. /\ rounds' = rounds /\ roundRec' = [roundRec EXCEPT ![r] = y]
        /\ batch' = [step |-> "dispatch", round |-> r] /\ roundRec[r].dispatch = "none"
    BY <1>4 DEF DispatchIntent
  <2>2. IsPlace' /\ batch'.round = r  BY <2>1 DEF IsPlace
  <2>3. IsRec(roundRec[r]) /\ IsRound(rounds[r])  BY SameDomain
  <2>4. rounds[r].paid = 0
    BY <2>1, <2>3 DEF PaidOnRecord, IsRound
  <2>5. IsRec(y) /\ y.dispatch = "intent"  BY <2>3 DEF IsRec
  <2> HIDE DEF y
  <2> QED  BY <2>1, <2>2, <2>4, <2>5, RecChanges
<1>5. ASSUME NEW r \in DOMAIN rounds, CloseRound(r)  PROVE RoundInv'
  <2> DEFINE y == [roundRec[r] EXCEPT !.terminal = TRUE]
  <2>1. /\ rounds' = rounds /\ roundRec' = [roundRec EXCEPT ![r] = y]
        /\ batch' = batch /\ batch = Outside
    BY <1>5 DEF CloseRound, Handling
  <2>2. IsPlace' /\ batch'.step = "outside"  BY <1>1, <2>1 DEF IsPlace
  <2>3. IsRec(roundRec[r])  BY SameDomain
  <2>4. IsRec(y) /\ y.dispatch = roundRec[r].dispatch  BY <2>3 DEF IsRec
  <2>5. rounds[r].paid = 1 => y.dispatch = "intent"  BY <2>4 DEF PaidOnRecord
  <2> HIDE DEF y
  <2> QED  BY <2>1, <2>2, <2>4, <2>5, RecChanges
<1> QED  BY <1>2, <1>3, <1>4, <1>5

LEMMA AfterGroupWalks ==
  ASSUME NEW g, NEW started, batch' = AfterGroup(g, started)
  PROVE  Walks
<1> DEFINE todo == batch.todo \ {g}
           active == batch.active + (IF started THEN 1 ELSE 0)
<1>1. batch' = Outside \/ batch' = [step |-> "group", active |-> active, todo |-> todo]
  BY DEF AfterGroup
<1> HIDE DEF todo, active
<1> QED  BY <1>1 DEF Walks, IsPlace, Outside

\* The steps of batchPhase call no lane.
LEMMA BatchSteps ==
  ASSUME RoundInv, Batching
  PROVE  RoundInv'
<1>1. CASE BeginBatch
  <2>1. Walks  BY <1>1 DEF BeginBatch, Walks, IsPlace
  <2> QED  BY <1>1, <2>1, SameRounds DEF BeginBatch
<1>2. CASE DepositFees
  <2>1. CASE batch' = [batch EXCEPT !.step = "start"] /\ batch.step = "fees"
    <3>1. batch = [step |-> batch.step, active |-> batch.active, todo |-> batch.todo,
                   group |-> batch.group, order |-> batch.order]
      BY <2>1 DEF RoundInv, IsPlace, Outside
    <3>2. batch' = [step |-> "start", active |-> batch.active, todo |-> batch.todo,
                    group |-> batch.group, order |-> batch.order]
      BY <2>1, <3>1
    <3> QED  BY <1>2, <3>2, SameRounds DEF DepositFees, Walks, IsPlace
  <2>2. CASE GiveUpGroup
    BY <1>2, <2>2, AfterGroupWalks, SameRounds DEF DepositFees, GiveUpGroup
  <2> QED  BY <1>2, <2>1, <2>2 DEF DepositFees, OnOrder
<1>3. CASE StartConfirmed
  <2>1. Walks  BY <1>3, AfterGroupWalks DEF StartConfirmed
  <2>2. executeAndStart(batch.order) \/ UNCHANGED <<rounds, roundRec>>
    BY <1>3 DEF StartConfirmed
  <2> QED  BY <2>1, <2>2, StartSteps, SameRounds
<1>4. CASE StartUnconfirmed
  BY <1>4, AfterGroupWalks, SameRounds DEF StartUnconfirmed, GiveUpGroup
<1>5. ASSUME NEW g \in Groups, DeferGroup(g)  PROVE RoundInv'
  BY <1>5, AfterGroupWalks, SameRounds DEF DeferGroup
<1>6. ASSUME NEW g \in Groups, NEW o, GoOnWith(g, o), UNCHANGED <<rounds, roundRec>>
      PROVE  RoundInv'
  <2>1. Walks  BY <1>6 DEF GoOnWith, Walks, IsPlace
  <2> QED  BY <1>6, <2>1, SameRounds
<1>7. ASSUME NEW g \in Groups, NewPlan(g)  PROVE RoundInv'
  <2>1. GoOnWith(g, Len(orders')) /\ UNCHANGED <<rounds, roundRec>>  BY <1>7 DEF NewPlan
  <2> QED  BY <1>6, <2>1
<1>8. ASSUME NEW g \in Groups, NEW o \in DOMAIN orders, UsePlan(g, o)  PROVE RoundInv'
  <2>1. GoOnWith(g, o) /\ UNCHANGED <<rounds, roundRec>>  BY <1>8 DEF UsePlan
  <2> QED  BY <1>6, <2>1
<1> QED  BY <1>1, <1>2, <1>3, <1>4, <1>5, <1>7, <1>8 DEF Batching

LEMMA OuterSteps ==
  ASSUME RoundInv, Outer
  PROVE  RoundInv'
<1>1. ASSUME NEW o \in DOMAIN orders, PlanAges(o) \/ DepositLands(o)  PROVE RoundInv'
  BY <1>1, SameRounds DEF PlanAges, DepositLands, Walks
<1>2. ASSUME NEW o \in DOMAIN orders, StartLands(o)  PROVE RoundInv'
  BY <1>2, StartSteps DEF StartLands, Walks
<1>3. ASSUME NEW r \in DOMAIN rounds, FundingArrives(r) \/ HubAnswers(r)  PROVE RoundInv'
  BY <1>3, FieldSteps
<1>4. ASSUME NEW r \in DOMAIN rounds, OthersMove(r)  PROVE RoundInv'
  BY <1>4, MoveSteps DEF OthersMove, Walks
<1> QED  BY <1>1, <1>2, <1>3, <1>4 DEF Outer

LEMMA RoundStepKeeps == RoundInv /\ [RoundNext]_roundVars => RoundInv'
<1> SUFFICES ASSUME RoundInv, [RoundNext]_roundVars PROVE RoundInv'  OBVIOUS
<1>1. CASE enqueue  BY <1>1, SameRounds DEF enqueue, Walks
<1>2. CASE Batching  BY <1>2, BatchSteps
<1>3. CASE Progressing
  <2>1. ASSUME NEW r \in DOMAIN rounds, ProgressRound(r)  PROVE RoundInv'
    BY <2>1, MoveSteps DEF ProgressRound, Walks
  <2>2. ASSUME NEW r \in DOMAIN rounds, ProgressFails(r)  PROVE RoundInv'
    BY <2>2, FieldSteps
  <2> QED  BY <1>3, <2>1, <2>2, DispatchSteps DEF Progressing
<1>4. CASE Outer  BY <1>4, OuterSteps
<1>5. CASE RoundCrash
  <2>1. Walks  BY <1>5 DEF RoundCrash, Walks, IsPlace, Outside
  <2> QED  BY <1>5, <2>1, SameRounds DEF RoundCrash
<1>6. CASE UNCHANGED roundVars
  BY <1>6, SameRounds DEF roundVars, Walks
<1> QED  BY <1>1, <1>2, <1>3, <1>4, <1>5, <1>6 DEF RoundNext

-----------------------------------------------------------------------------
(* The theorems.                                                           *)

\* The intent of a dispatch is on record before the lane is called and stays there once the
\* round is paid, whatever crashes, lands late or is moved by others.
THEOREM RoundInvariant == RoundSpec => []RoundInv
<1>1. RoundInit => RoundInv  BY RoundInvInit
<1>2. RoundInv /\ [RoundNext]_roundVars => RoundInv'  BY RoundStepKeeps
<1> QED  BY <1>1, <1>2, PTL DEF RoundSpec

\* keeper.mjs:330: the funding of a round is paid at most once.
THEOREM PaidOnce == RoundSpec => []DispatchedOnce
<1>1. RoundInv => DispatchedOnce
  <2> SUFFICES ASSUME RoundInv, NEW r \in DOMAIN rounds PROVE rounds[r].paid <= 1
    BY DEF DispatchedOnce
  <2>1. rounds[r].paid \in {0, 1}  BY DEF RoundInv, IsRound
  <2> QED  BY <2>1
<1> QED  BY <1>1, RoundInvariant, PTL

-----------------------------------------------------------------------------
(* PushKeeper: the inductive invariant.                                    *)

PushQueue == [alloc : PushAllocs, revision : Nat, cursor : 0..Accounts, due : BOOLEAN]
PushTask == [tries : Nat, confirmed : BOOLEAN]
PushRecord == [planDay : Int, skippedDay : Int, completedDay : Int, task : PushTask]
ServingType ==
  {Ready}
    \cup [at : {"listed"}, next : Nat]
    \cup [at : {"batch"}, queue : QueueIds, before : 0..Accounts, day : Nat]
    \cup [at : {"record"}, queue : QueueIds, before : 0..Accounts, day : Nat]

PushTyped ==
  /\ revision \in [PushAllocs -> Nat] /\ sealed \subseteq PushAllocs
  /\ queues \in Seq(PushQueue)
  /\ today \in Nat
  /\ pushList \subseteq QueueIds /\ pushScan \in Nat
  /\ pushRec \in [AllQueueIds -> PushRecord]
  /\ seen \in [AllQueueIds -> SUBSET (1..Accounts)]
  /\ serving \in ServingType

\* The accounts before the cursor had their turn.
Turned(from, turns, q) == 1..from[q].cursor \subseteq turns[q]

\* A cursor that is not at its end counts the turns since the last completion, and so does
\* every cursor after a batch that ran.
TurnsAreCounted ==
  /\ \A q \in QueueIds \cap AllQueueIds : queues[q].cursor < Accounts => Turned(queues, seen, q)
  /\ serving.at = "record" =>
       (serving.queue \in AllQueueIds => Turned(queues, seen, serving.queue))

\* Of a queue at its end a confirmed task is that of the batch that completed today.
ConfirmedIsToday ==
  \A q \in QueueIds \cap AllQueueIds :
    pushRec[q].task.confirmed /\ queues[q].cursor = Accounts => pushRec[q].completedDay = today

PushInv == PushTyped /\ TurnsAreCounted /\ ConfirmedIsToday

\* No day is closed by the step, and no task confirmed.
NoneConfirmed == \A q \in AllQueueIds : pushRec'[q].task.confirmed => pushRec[q].task.confirmed
NoneClosed == \A q \in AllQueueIds : pushRec'[q].completedDay = pushRec[q].completedDay

LEMMA PushStarts == ASSUME PushInit PROVE PushInv
<1>1. queues \in Seq(PushQueue) /\ Len(queues) = 0  BY DEF PushInit
<1>2. NoRecord \in PushRecord  BY DEF NoRecord, PushRecord, PushTask, NewTask, Never
<1>3. PushTyped  BY <1>1, <1>2 DEF PushInit, PushTyped, ServingType
<1>4. TurnsAreCounted  BY <1>1 DEF PushInit, TurnsAreCounted, QueueIds, Ready
<1>5. ConfirmedIsToday  BY <1>1 DEF PushInit, ConfirmedIsToday, QueueIds
<1> QED  BY <1>3, <1>4, <1>5 DEF PushInv

LEMMA QueueAt ==
  ASSUME PushInv, NEW q \in QueueIds
  PROVE  queues[q] \in PushQueue /\ queues[q].cursor \in 0..Accounts
<1>1. queues[q] \in PushQueue  BY DEF PushInv, PushTyped, QueueIds
<1> QED  BY <1>1 DEF PushQueue

\* The cursor of one queue after a batch: what it passed had its turn.
LEMMA BatchCovers ==
  ASSUME PushInv, NEW q \in QueueIds, batchDistribute(q)
  PROVE  /\ queues' \in Seq(PushQueue) /\ QueueIds' = QueueIds
         /\ seen' \in [AllQueueIds -> SUBSET (1..Accounts)]
         /\ pushRec' \in [AllQueueIds -> PushRecord] /\ NoneClosed /\ NoneConfirmed
         /\ q \in AllQueueIds => Turned(queues', seen', q)
         /\ q \in AllQueueIds /\ pushRec'[q].task.confirmed => queues'[q].cursor # Accounts
         /\ \A p \in (QueueIds \cap AllQueueIds) \ {q} :
              queues'[p] = queues[p] /\ seen'[p] = seen[p]
         /\ UNCHANGED <<revision, sealed>>
<1>1. PICK start : start = StartOf(queues[q].cursor)  OBVIOUS
<1>2. PICK end : end = IF start + BatchSize < Accounts THEN start + BatchSize ELSE Accounts
  OBVIOUS
<1>3. PICK stop \in start..end, blocked \in BOOLEAN :
        /\ queues' = [queues EXCEPT ![q].cursor = stop, ![q].due = blocked]
        /\ seen' = [seen EXCEPT ![q] = @ \cup ((start + 1)..stop)]
        /\ pushRec' = IF stop > start THEN [pushRec EXCEPT ![q].task = NewTask] ELSE pushRec
  BY <1>1, <1>2 DEF batchDistribute
<1>4. Accounts \in Nat \ {0} /\ BatchSize \in Nat \ {0}  BY PushAssumption
<1>5. queues[q] \in PushQueue /\ queues[q].cursor \in 0..Accounts  BY QueueAt
<1>6. start \in 0..Accounts /\ end \in 0..Accounts /\ stop \in 0..Accounts
  BY <1>1, <1>2, <1>3, <1>4, <1>5 DEF StartOf
<1>7. PICK record : record = [queues[q] EXCEPT !.cursor = stop, !.due = blocked]  OBVIOUS
<1>8. record \in PushQueue /\ record.cursor = stop  BY <1>3, <1>5, <1>6, <1>7 DEF PushQueue
<1>9. queues' = [queues EXCEPT ![q] = record]  BY <1>3, <1>7
<1>10. /\ queues' \in Seq(PushQueue) /\ Len(queues') = Len(queues) /\ queues'[q] = record
       /\ \A p \in QueueIds \ {q} : queues'[p] = queues[p]
  BY <1>8, <1>9 DEF PushInv, PushTyped, QueueIds
<1>11. seen' \in [AllQueueIds -> SUBSET (1..Accounts)]
       /\ \A p \in AllQueueIds \ {q} : seen'[p] = seen[p]
  <2>1. (start + 1)..stop \subseteq 1..Accounts  BY <1>4, <1>6
  <2> QED  BY <1>3, <2>1 DEF PushInv, PushTyped
<1>12. ASSUME q \in AllQueueIds  PROVE 1..stop \subseteq seen'[q]
  <2>1. seen'[q] = seen[q] \cup ((start + 1)..stop)
    BY <1>3, <1>12 DEF PushInv, PushTyped
  <2>2. CASE queues[q].cursor = Accounts
    <3>1. start = 0  BY <1>1, <2>2 DEF StartOf
    <3> QED  BY <2>1, <3>1
  <2>3. CASE queues[q].cursor # Accounts
    <3>1. start = queues[q].cursor /\ queues[q].cursor < Accounts
      BY <1>1, <1>4, <1>5, <2>3 DEF StartOf
    <3>2. 1..start \subseteq seen[q]
      BY <1>12, <3>1 DEF PushInv, TurnsAreCounted, Turned
    <3>3. 1..stop \subseteq (1..start) \cup ((start + 1)..stop)  BY <1>6
    <3> QED  BY <2>1, <3>2, <3>3
  <2> QED  BY <2>2, <2>3
<1>13. pushRec' \in [AllQueueIds -> PushRecord] /\ NoneClosed /\ NoneConfirmed
  <2>1. NewTask \in PushTask /\ ~NewTask.confirmed  BY DEF NewTask, PushTask
  <2> QED  BY <1>3, <2>1 DEF PushInv, PushTyped, PushRecord, NoneClosed, NoneConfirmed
<1>14. ASSUME q \in AllQueueIds, stop = Accounts  PROVE ~pushRec'[q].task.confirmed
  <2>1. CASE stop > start
    <3>1. pushRec' = [pushRec EXCEPT ![q].task = NewTask]  BY <1>3, <2>1
    <3> QED  BY <1>14, <3>1 DEF NewTask, PushInv, PushTyped
  <2>2. CASE ~(stop > start)
    <3>1. start = Accounts  BY <1>3, <1>4, <1>6, <1>14, <2>2
    <3> QED  BY <1>1, <1>4, <3>1 DEF StartOf
  <2> QED  BY <2>1, <2>2
<1>15. UNCHANGED <<revision, sealed>>  BY DEF batchDistribute
<1> QED  BY <1>8, <1>10, <1>11, <1>12, <1>13, <1>14, <1>15 DEF QueueIds, Turned

\* The place and the lists stay well typed while the queues only grow or move.
LEMMA ServingStays ==
  ASSUME PushInv, QueueIds \subseteq QueueIds', serving' = serving \/ serving' = Ready
  PROVE  serving' \in ServingType'
BY DEF PushInv, PushTyped, ServingType

\* A batch that ran, whoever sent it.
LEMMA BatchKeeps ==
  ASSUME PushInv, NEW q \in QueueIds, batchDistribute(q),
         UNCHANGED <<today, pushList, pushScan>>, serving' \in ServingType',
         serving' = serving \/ (serving'.at = "record" /\ serving'.queue = q)
  PROVE  PushInv' /\ NoneClosed
<1>1. /\ queues' \in Seq(PushQueue) /\ QueueIds' = QueueIds
      /\ seen' \in [AllQueueIds -> SUBSET (1..Accounts)]
      /\ pushRec' \in [AllQueueIds -> PushRecord] /\ NoneClosed /\ NoneConfirmed
      /\ q \in AllQueueIds => Turned(queues', seen', q)
      /\ q \in AllQueueIds /\ pushRec'[q].task.confirmed => queues'[q].cursor # Accounts
      /\ \A p \in (QueueIds \cap AllQueueIds) \ {q} :
           queues'[p] = queues[p] /\ seen'[p] = seen[p]
      /\ UNCHANGED <<revision, sealed>>
  BY BatchCovers
<1>2. PushTyped'  BY <1>1 DEF PushInv, PushTyped
<1>3. ASSUME NEW p \in QueueIds \cap AllQueueIds, Turned(queues, seen, p) \/ p = q
      PROVE  Turned(queues', seen', p)
  BY <1>1, <1>3 DEF Turned
<1>4. \A p \in QueueIds' \cap AllQueueIds :
        queues'[p].cursor < Accounts => Turned(queues', seen', p)
  BY <1>1, <1>3 DEF PushInv, TurnsAreCounted
<1>5. serving.at = "record" => serving.queue \in QueueIds
  BY DEF PushInv, PushTyped, ServingType, Ready
<1>6. serving'.at = "record" =>
        (serving'.queue \in AllQueueIds => Turned(queues', seen', serving'.queue))
  BY <1>1, <1>3, <1>5 DEF PushInv, TurnsAreCounted
<1>7. ConfirmedIsToday'
  <2> SUFFICES ASSUME NEW p \in QueueIds \cap AllQueueIds,
                      pushRec'[p].task.confirmed, queues'[p].cursor = Accounts
               PROVE  pushRec'[p].completedDay = today
    BY <1>1 DEF ConfirmedIsToday
  <2>1. p # q  BY <1>1
  <2>2. queues'[p] = queues[p] /\ pushRec[p].task.confirmed
    BY <1>1, <2>1 DEF NoneConfirmed
  <2>3. pushRec[p].completedDay = today
    BY <2>2 DEF PushInv, ConfirmedIsToday
  <2> QED  BY <1>1, <2>3 DEF NoneClosed
<1> QED  BY <1>1, <1>2, <1>4, <1>6, <1>7 DEF PushInv, TurnsAreCounted

\* openQueue, sealIndex and a delivery.
LEMMA OpenKeeps ==
  ASSUME PushInv, NEW a \in PushAllocs, sealIndex(a) \/ openQueue(a) \/ Delivery(a),
         UNCHANGED <<today, pushList, pushScan, serving, pushRec>>
  PROVE  PushInv' /\ NoneClosed
<1>1. /\ revision' \in [PushAllocs -> Nat] /\ sealed' \subseteq PushAllocs /\ UNCHANGED seen
  BY DEF sealIndex, openQueue, Delivery, PushInv, PushTyped
<1>2. /\ queues' \in Seq(PushQueue) /\ QueueIds \subseteq QueueIds'
      /\ \A p \in QueueIds : queues'[p] = queues[p]
      /\ \A p \in QueueIds' \ QueueIds : queues'[p].cursor = 0
  <2>1. CASE openQueue(a)
    <3>1. PICK record : record = [alloc |-> a, revision |-> revision[a], cursor |-> 0, due |-> TRUE]
      OBVIOUS
    <3>2. record \in PushQueue /\ record.cursor = 0
      BY <3>1, PushAssumption DEF PushQueue, PushInv, PushTyped
    <3>3. queues' = Append(queues, record)  BY <2>1, <3>1 DEF openQueue
    <3>4. queues \in Seq(PushQueue)  BY DEF PushInv, PushTyped
    <3>5. /\ queues' \in Seq(PushQueue) /\ Len(queues') = Len(queues) + 1
          /\ queues'[Len(queues) + 1] = record
          /\ \A p \in 1..Len(queues) : queues'[p] = queues[p]
      BY <3>2, <3>3, <3>4
    <3> QED  BY <3>2, <3>4, <3>5 DEF QueueIds
  <2>2. CASE UNCHANGED queues  BY <2>2 DEF PushInv, PushTyped, QueueIds
  <2> QED  BY <2>1, <2>2 DEF sealIndex, Delivery
<1>3. PushTyped'  BY <1>1, <1>2, ServingStays DEF PushInv, PushTyped
<1>4. Accounts \in Nat  BY PushAssumption
<1>5. ASSUME NEW p \in QueueIds' \cap AllQueueIds, p \in QueueIds => Turned(queues, seen, p)
      PROVE  Turned(queues', seen', p)
  <2>1. CASE p \in QueueIds  BY <1>1, <1>2, <1>5, <2>1 DEF Turned
  <2>2. CASE p \notin QueueIds
    <3>1. 1..queues'[p].cursor = {}  BY <1>2, <2>2
    <3> QED  BY <3>1 DEF Turned
  <2> QED  BY <2>1, <2>2
<1>6. \A p \in QueueIds' \cap AllQueueIds :
        queues'[p].cursor < Accounts => Turned(queues', seen', p)
  BY <1>2, <1>5 DEF PushInv, TurnsAreCounted
<1>7. serving.at = "record" => serving.queue \in QueueIds
  BY DEF PushInv, PushTyped, ServingType, Ready
<1>8. serving'.at = "record" =>
        (serving'.queue \in AllQueueIds => Turned(queues', seen', serving'.queue))
  BY <1>2, <1>5, <1>7 DEF PushInv, TurnsAreCounted
<1>9. NoneClosed  BY DEF NoneClosed
<1>10. ConfirmedIsToday'
  <2> SUFFICES ASSUME NEW p \in QueueIds' \cap AllQueueIds,
                      pushRec[p].task.confirmed, queues'[p].cursor = Accounts
               PROVE  pushRec[p].completedDay = today
    BY DEF ConfirmedIsToday
  <2>1. p \in QueueIds /\ queues[p].cursor = Accounts
    BY <1>2, PushAssumption
  <2> QED  BY <2>1 DEF PushInv, ConfirmedIsToday
<1> QED  BY <1>3, <1>6, <1>8, <1>9, <1>10 DEF PushInv, TurnsAreCounted

\* A quarter of an hour passes for one queue.
LEMMA QuarterKeeps ==
  ASSUME PushInv, NEW q \in QueueIds, QuarterPasses(q)
  PROVE  PushInv' /\ NoneClosed
<1>1. PICK record : record = [queues[q] EXCEPT !.due = TRUE]  OBVIOUS
<1>2. queues[q] \in PushQueue  BY DEF PushInv, PushTyped, QueueIds
<1>3. record \in PushQueue /\ record.cursor = queues[q].cursor  BY <1>1, <1>2 DEF PushQueue
<1>4. queues' = [queues EXCEPT ![q] = record]  BY <1>1 DEF QuarterPasses
<1>5. /\ queues' \in Seq(PushQueue) /\ QueueIds' = QueueIds
      /\ \A p \in QueueIds : queues'[p].cursor = queues[p].cursor
  BY <1>3, <1>4 DEF PushInv, PushTyped, QueueIds
<1>6. UNCHANGED <<revision, sealed, seen, today, pushList, pushScan, pushRec, serving>>
  BY DEF QuarterPasses, pushWorld, pushJournal, pushLists
<1>7. PushTyped'  BY <1>5, <1>6, ServingStays DEF PushInv, PushTyped
<1>8. \A p \in QueueIds : Turned(queues', seen', p) <=> Turned(queues, seen, p)
  BY <1>5, <1>6 DEF Turned
<1>9. serving.at = "record" => serving.queue \in QueueIds
  BY DEF PushInv, PushTyped, ServingType, Ready
<1>10. TurnsAreCounted'  BY <1>5, <1>6, <1>8, <1>9 DEF PushInv, TurnsAreCounted
<1>11. NoneClosed  BY <1>6 DEF NoneClosed
<1>12. ConfirmedIsToday'
  BY <1>5, <1>6 DEF PushInv, ConfirmedIsToday
<1> QED  BY <1>7, <1>10, <1>11, <1>12 DEF PushInv

\* The keeper's bookkeeping: the queues and the turns as they are.
LEMMA JournalKeeps ==
  ASSUME PushInv, UNCHANGED pushChain, today' \in Nat,
         pushList' \subseteq QueueIds, pushScan' \in Nat,
         pushRec' \in [AllQueueIds -> PushRecord], NoneClosed, NoneConfirmed,
         today' = today \/ \A q \in AllQueueIds : ~pushRec'[q].task.confirmed,
         serving' \in ServingType,
         \/ serving'.at # "record" \/ serving' = serving
         \/ serving'.queue \in AllQueueIds => Turned(queues, seen, serving'.queue)
  PROVE  PushInv' /\ NoneClosed
<1>1. UNCHANGED <<revision, sealed, queues, seen>>  BY DEF pushChain
<1>2. QueueIds' = QueueIds /\ ServingType' = ServingType
  BY <1>1 DEF QueueIds, ServingType
<1>3. PushTyped'  BY <1>1, <1>2 DEF PushInv, PushTyped
<1>4. TurnsAreCounted'  BY <1>1, <1>2 DEF PushInv, TurnsAreCounted, Turned
<1>5. ConfirmedIsToday'
  BY <1>1, <1>2 DEF PushInv, ConfirmedIsToday, NoneClosed, NoneConfirmed
<1> QED  BY <1>3, <1>4, <1>5 DEF PushInv

LEMMA FailedRecord ==
  ASSUME PushInv, NEW q
  PROVE  /\ FailedBatch(pushRec, q) \in [AllQueueIds -> PushRecord]
         /\ \A p \in AllQueueIds :
              LET rec == FailedBatch(pushRec, q)[p]
              IN /\ rec.completedDay = pushRec[p].completedDay
                 /\ rec.task.confirmed => pushRec[p].task.confirmed
<1>1. CASE q \in AllQueueIds
  <2>1. PICK t : t = [tries |-> pushRec[q].task.tries + 1, confirmed |-> FALSE]  OBVIOUS
  <2>2. t \in PushTask /\ ~t.confirmed
    BY <1>1, <2>1 DEF PushTask, PushInv, PushTyped, PushRecord
  <2>3. PICK r : r = [pushRec[q] EXCEPT !.task = t]  OBVIOUS
  <2>4. /\ r \in PushRecord /\ r.completedDay = pushRec[q].completedDay
        /\ ~r.task.confirmed
    BY <1>1, <2>2, <2>3 DEF PushInv, PushTyped, PushRecord
  <2>5. FailedBatch(pushRec, q) \in {pushRec, [pushRec EXCEPT ![q] = r]}
    BY <2>1, <2>3 DEF FailedBatch
  <2> QED  BY <1>1, <2>4, <2>5 DEF PushInv, PushTyped
<1>2. CASE q \notin AllQueueIds
  BY <1>2 DEF FailedBatch, PushInv, PushTyped
<1> QED  BY <1>1, <1>2

LEMMA BookkeepingKeeps ==
  ASSUME PushInv,
         \/ ListQueues \/ SaveScan \/ BatchUnconfirmed \/ NextDay \/ PushCrash
         \/ \E a \in PushAllocs : PrepareFails(a) \/ PriceChanges(a)
  PROVE  PushInv' /\ NoneClosed
<1>0. pushRec' = pushRec => NoneClosed /\ NoneConfirmed  BY DEF NoneClosed, NoneConfirmed
<1>1. CASE ListQueues
  <2>1. (pushScan + 1)..Len(queues) \subseteq QueueIds /\ Len(queues) \in Nat
    BY DEF QueueIds, PushInv, PushTyped
  <2>2. serving' \in ServingType /\ serving'.at # "record"
    BY <1>1, <2>1 DEF ListQueues, ServingType
  <2> QED
    BY <1>0, <1>1, <2>1, <2>2, JournalKeeps DEF ListQueues, pushWorld, PushInv, PushTyped
<1>2. CASE SaveScan
  <2>1. serving.next \in Nat  BY <1>2 DEF SaveScan, PushInv, PushTyped, ServingType, Ready
  <2> QED
    BY <1>0, <1>2, <2>1, JournalKeeps
    DEF SaveScan, pushWorld, PushInv, PushTyped, ServingType, Ready
<1>3. CASE BatchUnconfirmed
  <2>1. pushRec' \in [AllQueueIds -> PushRecord] /\ NoneClosed /\ NoneConfirmed
    BY <1>0, <1>3, FailedRecord
    DEF BatchUnconfirmed, NoneClosed, NoneConfirmed, PushInv, PushTyped
  <2> QED
    BY <1>3, <2>1, JournalKeeps
    DEF BatchUnconfirmed, pushWorld, pushLists, PushInv, PushTyped, ServingType, Ready
<1>4. CASE NextDay
  <2>1. NewTask \in PushTask /\ ~NewTask.confirmed  BY DEF NewTask, PushTask
  <2>2. /\ pushRec' \in [AllQueueIds -> PushRecord] /\ NoneClosed
        /\ \A q \in AllQueueIds : ~pushRec'[q].task.confirmed
    BY <1>4, <2>1 DEF NextDay, NoneClosed, PushInv, PushTyped, PushRecord
  <2> QED
    BY <1>4, <2>2, JournalKeeps DEF NextDay, pushLists, PushInv, PushTyped, NoneConfirmed
<1>5. CASE PushCrash \/ \E a \in PushAllocs : PrepareFails(a) \/ PriceChanges(a)
  <2>1. /\ UNCHANGED <<pushChain, today, pushList, pushScan, pushRec>>
        /\ serving' \in {serving, Ready}
    BY <1>5 DEF PushCrash, PrepareFails, PriceChanges, pushWorld, pushJournal, pushLists
  <2> QED  BY <1>0, <2>1, JournalKeeps DEF PushInv, PushTyped, ServingType, Ready
<1> QED  BY <1>1, <1>2, <1>3, <1>4, <1>5

LEMMA ServeKeeps ==
  ASSUME PushInv, NEW q \in pushList, SendBatch(q) \/ SkipDay(q)
  PROVE  PushInv' /\ NoneClosed
<1>1. q \in QueueIds /\ today \in Int /\ today \in Nat  BY DEF PushInv, PushTyped
<1>2. queues[q].cursor \in 0..Accounts /\ Accounts \in Nat  BY <1>1, QueueAt, PushAssumption
<1>3. /\ pushRec' = [pushRec EXCEPT ![q].planDay = today]
         \/ pushRec' = [pushRec EXCEPT ![q].skippedDay = today]
      /\ UNCHANGED <<pushChain, today, pushList, pushScan>>
  BY DEF SendBatch, SkipDay, pushWorld, pushLists
<1>4. pushRec' \in [AllQueueIds -> PushRecord] /\ NoneClosed /\ NoneConfirmed
  BY ZenonT(30), <1>1, <1>3 DEF PushInv, PushTyped, PushRecord, NoneClosed, NoneConfirmed
<1>5. \/ serving' = [at |-> "batch", queue |-> q, before |-> queues[q].cursor, day |-> today]
      \/ serving' = serving
      \/ /\ serving' = [at |-> "record", queue |-> q, before |-> queues[q].cursor, day |-> today]
         /\ pushRec[q].task.confirmed /\ pushRec[q].completedDay # today
  BY DEF SendBatch, SkipDay, MayServe, queueDecision
<1>6. serving' \in ServingType
  BY <1>1, <1>2, <1>5 DEF PushInv, PushTyped, ServingType
<1>7. pushRec[q].task.confirmed /\ pushRec[q].completedDay # today /\ q \in AllQueueIds =>
        Turned(queues, seen, q)
  BY <1>1, <1>2 DEF PushInv, ConfirmedIsToday, TurnsAreCounted
<1>8. \/ serving'.at # "record" \/ serving' = serving
      \/ serving'.queue \in AllQueueIds => Turned(queues, seen, serving'.queue)
  BY <1>5, <1>7
<1> QED  BY <1>1, <1>3, <1>4, <1>6, <1>8, JournalKeeps DEF PushInv, PushTyped

\* A day is closed at the end of a cycle, after a batch.
LEMMA RecordKeepsTurns ==
  ASSUME PushInv, RecordBatch
  PROVE  /\ PushInv'
         /\ \A q \in AllQueueIds :
              pushRec'[q].completedDay # pushRec[q].completedDay => seen[q] = 1..Accounts
<1>1. PICK q, after, completed :
        /\ q = serving.queue /\ after = queues[q].cursor
        /\ completed = Complete(serving.before, after)
  OBVIOUS
<1>2. /\ serving.at = "record" /\ serving' = Ready
      /\ UNCHANGED <<revision, sealed, queues, today, pushList, pushScan>>
      /\ seen' = IF completed THEN [seen EXCEPT ![q] = {}] ELSE seen
      /\ \/ /\ pushRec' = [pushRec EXCEPT ![q].completedDay =
                                            IF completed THEN serving.day ELSE @,
                                          ![q].task.confirmed = SameTask]
            /\ completed <=> after = Accounts
         \/ pushRec' = FailedBatch(pushRec, q) /\ ~completed
  BY <1>1 DEF RecordBatch, Complete, pushWorld, pushLists
<1>3. q \in QueueIds /\ serving.day \in Nat
  BY <1>1, <1>2 DEF PushInv, PushTyped, ServingType, Ready
<1>4. q \in AllQueueIds => Turned(queues, seen, q)  BY <1>1, <1>2 DEF PushInv, TurnsAreCounted
<1>5. completed => after = Accounts  BY <1>1 DEF Complete
<1>6. completed /\ q \in AllQueueIds => seen[q] = 1..Accounts
  BY <1>1, <1>4, <1>5 DEF Turned, PushInv, PushTyped
<1>7. SameTask \in BOOLEAN
  BY <1>1, <1>3 DEF SameTask, PushInv, PushTyped, PushQueue, QueueIds
<1>8. PICK same \in BOOLEAN : same = SameTask  BY <1>7
<1>9. /\ pushRec' \in [AllQueueIds -> PushRecord]
      /\ \A p \in AllQueueIds :
           pushRec'[p].completedDay # pushRec[p].completedDay => p = q /\ completed
      /\ \A p \in AllQueueIds :
           pushRec'[p].task.confirmed =>
             \/ pushRec[p].task.confirmed /\ p # q
             \/ pushRec[p].task.confirmed /\ pushRec'[p].completedDay = pushRec[p].completedDay
             \/ p = q /\ SameTask
                /\ (after = Accounts => pushRec'[p].completedDay = serving.day)
  <2>1. CASE pushRec' = FailedBatch(pushRec, q)  BY <2>1, FailedRecord
  <2>2. CASE pushRec' = [pushRec EXCEPT ![q].completedDay = IF completed THEN serving.day ELSE @,
                                        ![q].task.confirmed = same]
             /\ (completed <=> after = Accounts)
    <3>1. CASE q \notin AllQueueIds  BY <2>2, <3>1 DEF PushInv, PushTyped
    <3>2. CASE q \in AllQueueIds
      <4>1. PICK close : close = IF completed THEN serving.day ELSE pushRec[q].completedDay
        OBVIOUS
      <4>2. PICK r : r = [pushRec[q] EXCEPT !.completedDay = close, !.task.confirmed = same]
        OBVIOUS
      <4>3. pushRec[q] \in PushRecord  BY <3>2 DEF PushInv, PushTyped
      <4>4. close \in Int  BY <1>3, <4>1, <4>3 DEF PushRecord
      <4>5. r \in PushRecord /\ r.completedDay = close /\ r.task.confirmed = same
        BY <1>8, <4>2, <4>3, <4>4 DEF PushRecord, PushTask
      <4>6. pushRec' = [pushRec EXCEPT ![q] = r]
        BY <2>2, <3>2, <4>1, <4>2 DEF PushInv, PushTyped
      <4>7. /\ pushRec' \in [AllQueueIds -> PushRecord] /\ pushRec'[q] = r
            /\ \A p \in AllQueueIds \ {q} : pushRec'[p] = pushRec[p]
        BY <3>2, <4>5, <4>6 DEF PushInv, PushTyped
      <4>8. pushRec'[q].completedDay = close /\ (pushRec'[q].task.confirmed => SameTask)
        BY <1>8, <4>5, <4>7
      <4>9. after = Accounts => close = serving.day  BY <2>2, <4>1
      <4> QED  BY <3>2, <4>1, <4>7, <4>8, <4>9
    <3> QED  BY <3>1, <3>2
  <2> QED  BY <1>2, <1>8, <2>1, <2>2
<1>10. seen' \in [AllQueueIds -> SUBSET (1..Accounts)]
       /\ \A p \in AllQueueIds : seen'[p] = seen[p] \/ (p = q /\ completed)
  BY <1>2 DEF PushInv, PushTyped
<1>11. QueueIds' = QueueIds /\ Accounts \in Nat  BY <1>2, PushAssumption DEF QueueIds
<1>12. PushTyped'
  BY <1>2, <1>9, <1>10, <1>11 DEF PushInv, PushTyped, ServingType
<1>13. ASSUME NEW p \in QueueIds \cap AllQueueIds, queues[p].cursor < Accounts
       PROVE  Turned(queues', seen', p)
  <2>1. ~(p = q /\ completed)  BY <1>1, <1>5, <1>11, <1>13
  <2>2. seen'[p] = seen[p] /\ Turned(queues, seen, p)
    BY <1>10, <1>13, <2>1 DEF PushInv, TurnsAreCounted
  <2> QED  BY <1>2, <2>2 DEF Turned
<1>14. TurnsAreCounted'  BY <1>2, <1>11, <1>13 DEF TurnsAreCounted, Ready
<1>15. ConfirmedIsToday'
  <2> SUFFICES ASSUME NEW p \in QueueIds \cap AllQueueIds,
                      pushRec'[p].task.confirmed, queues[p].cursor = Accounts
               PROVE  pushRec'[p].completedDay = today
    BY <1>2, <1>11 DEF ConfirmedIsToday
  <2>1. pushRec[p].task.confirmed => pushRec[p].completedDay = today
    BY DEF PushInv, ConfirmedIsToday
  <2>2. p # q => pushRec'[p].completedDay = pushRec[p].completedDay  BY <1>9
  <2>3. SameTask => serving.day = today  BY DEF SameTask
  <2>4. p = q => after = Accounts  BY <1>1
  <2> QED  BY <1>9, <2>1, <2>2, <2>3, <2>4
<1> QED  BY <1>6, <1>9, <1>12, <1>14, <1>15 DEF PushInv

\* The receipt of the keeper's batch: it ran.
LEMMA ReceiptKeeps ==
  ASSUME PushInv, BatchConfirmed
  PROVE  PushInv' /\ NoneClosed
<1>1. /\ serving.at = "batch" /\ batchDistribute(serving.queue)
      /\ serving' = [serving EXCEPT !.at = "record"]
      /\ UNCHANGED <<today, pushList, pushScan>>
  BY DEF BatchConfirmed, pushWorld, pushLists
<1>2. serving \in [at : {"batch"}, queue : QueueIds, before : 0..Accounts, day : Nat]
  BY <1>1 DEF PushInv, PushTyped, ServingType, Ready
<1>3. serving' \in [at : {"record"}, queue : QueueIds, before : 0..Accounts, day : Nat]
      /\ serving'.queue = serving.queue
  BY <1>1, <1>2
<1>4. serving.queue \in QueueIds /\ serving' \in ServingType
      /\ serving'.at = "record" /\ serving'.queue = serving.queue
  BY <1>2, <1>3 DEF ServingType
<1>5. serving' \in ServingType'
  BY <1>1, <1>4, BatchCovers DEF ServingType
<1> QED  BY <1>1, <1>4, <1>5, BatchKeeps

LEMMA StrangersKeep ==
  ASSUME PushInv, Strangers
  PROVE  PushInv' /\ NoneClosed
<1>1. UNCHANGED <<today, pushList, pushScan, serving>>  BY DEF Strangers, pushWorld, pushLists
<1>2. CASE (\E a \in PushAllocs : prepare(a)) /\ UNCHANGED pushRec
  BY <1>1, <1>2, OpenKeeps DEF prepare
<1>3. CASE \E q \in QueueIds : batchDistribute(q)
  <2>1. PICK q \in QueueIds : batchDistribute(q)  BY <1>3
  <2>2. QueueIds' = QueueIds  BY <2>1, BatchCovers
  <2>3. serving' \in ServingType'  BY <1>1, <2>2, ServingStays
  <2> QED  BY <1>1, <2>1, <2>3, BatchKeeps
<1> QED  BY <1>2, <1>3 DEF Strangers

\* A day of the payout is closed only when every account had its turn since the last close
\* (push/decide.mjs:61), whoever ran the batches and whatever this keeper saw of them.
THEOREM ClosedIsWalked == PushSpec => CompletionCoversAll
<1>1. PushInit => PushInv  BY PushStarts
<1>2. PushInv /\ [PushNext]_pushVars =>
        /\ PushInv'
        /\ \A q \in AllQueueIds :
             pushRec'[q].completedDay # pushRec[q].completedDay => seen[q] = 1..Accounts
  <2>1. SUFFICES ASSUME PushInv, [PushNext]_pushVars
                 PROVE  PushInv' /\ (NoneClosed \/ RecordBatch)
    BY RecordKeepsTurns DEF NoneClosed
  <2>2. CASE Strangers  BY <2>1, <2>2, StrangersKeep
  <2>3. CASE \/ ListQueues \/ SaveScan \/ BatchUnconfirmed \/ NextDay \/ PushCrash
             \/ \E a \in PushAllocs : PrepareFails(a) \/ PriceChanges(a)
    BY <2>1, <2>3, BookkeepingKeeps
  <2>4. CASE RecordBatch  BY <2>1, <2>4, RecordKeepsTurns
  <2>5. CASE BatchConfirmed  BY <2>1, <2>5, ReceiptKeeps
  <2>6. CASE \E q \in pushList : SendBatch(q) \/ SkipDay(q)  BY <2>1, <2>6, ServeKeeps
  <2>7. CASE \E a \in PushAllocs : PrepareQueue(a) \/ Delivery(a)
    BY <2>1, <2>7, OpenKeeps DEF PrepareQueue, prepare, Delivery, pushWorld, pushLists
  <2>8. CASE \E q \in QueueIds : QuarterPasses(q)  BY <2>1, <2>8, QuarterKeeps
  <2>9. CASE UNCHANGED pushVars
    <3>1. UNCHANGED <<revision, sealed, queues, seen, today, pushList, pushScan, pushRec, serving>>
      BY <2>9 DEF pushVars, pushChain, pushWorld, pushJournal, pushLists
    <3> QED
      BY <2>1, <3>1 DEF PushInv, PushTyped, TurnsAreCounted, Turned, ConfirmedIsToday,
                        NoneClosed, QueueIds, ServingType
  <2> QED  BY <2>1, <2>2, <2>3, <2>4, <2>5, <2>6, <2>7, <2>8, <2>9 DEF PushNext, Awaiting, Preparing, Serving
<1> QED  BY <1>1, <1>2, PTL DEF PushSpec, CompletionCoversAll

-----------------------------------------------------------------------------
(* OracleDemand: the inductive invariant.                                  *)

EpisodeType == [pending : BOOLEAN, task : SendType]
MayRun(task) == task.state \in {"open", "air"}

DemandTyped ==
  /\ episode \in EpisodeType /\ SendOK(episode.task)
  /\ turn \in {Waits, "send", "save", "close"}
  /\ lastAge \in Nat /\ pokedAge \in Nat

\* A task is of a due episode: what was poked and is not yet on record is of the one that
\* is pending, and only a pending one is in flight.
TaskIsPending ==
  /\ turn # Waits => episode.pending
  /\ turn \in {"save", "close"} => RanAPoke(episode.task)
  /\ episode.task.state = "air" => episode.pending

\* The journal knows every poke but the one of a pending episode that ran.
PokesAreKnown ==
  /\ lastAge <= pokedAge \/ (episode.pending /\ RanAPoke(episode.task))
  /\ turn = "close" => lastAge <= pokedAge

\* What may still run was due: the last poke is more than the coalescing time ago.
DueIsApart == episode.pending /\ MayRun(episode.task) => pokedAge > Coalesce

DemandInv == DemandTyped /\ TaskIsPending /\ PokesAreKnown /\ DueIsApart

DemandNumbers ==
  Coalesce \in Nat /\ Old \in Nat /\ Old > Coalesce

LEMMA DemandBounds == DemandNumbers
BY DemandAssumption DEF DemandNumbers, Old

LEMMA DemandStarts == ASSUME DemandInit PROVE DemandInv
<1>1. SendAttempts \in Nat \ {0}  BY SenderAssumption
<1>2. SendOK(Unsent) /\ Unsent \in SendType /\ Unsent.state = "open"
  BY <1>1 DEF SendOK, SendType, Unsent
<1>3. Old \in Nat  BY DemandBounds DEF DemandNumbers
<1>4. /\ episode = [pending |-> FALSE, task |-> Unsent]
      /\ lastAge = Old /\ pokedAge = Old /\ turn = Waits
  BY DEF DemandInit
<1>5. ~episode.pending /\ episode.task = Unsent /\ episode \in EpisodeType
  BY <1>2, <1>4 DEF EpisodeType
<1>6. DemandTyped  BY <1>2, <1>3, <1>4, <1>5 DEF DemandTyped
<1>7. TaskIsPending /\ DueIsApart  BY <1>2, <1>4, <1>5 DEF TaskIsPending, DueIsApart, Waits
<1>8. PokesAreKnown  BY <1>3, <1>4 DEF PokesAreKnown, Waits
<1> QED  BY <1>6, <1>7, <1>8 DEF DemandInv

\* Time goes by for both ages alike.
LEMMA Ageing ==
  ASSUME NEW a \in Nat, NEW b \in Nat
  PROVE  /\ Older(a) \in Nat
         /\ a <= b => Older(a) <= Older(b)
         /\ a > Coalesce => Older(a) > Coalesce
BY DemandBounds DEF DemandNumbers, Older

\* Whatever task the episode has after a step, if it may run no more than before.
LEMMA EpisodeKeeps ==
  ASSUME DemandInv, NEW s, SendOK(s), NEW p \in BOOLEAN, episode' = [pending |-> p, task |-> s],
         UNCHANGED <<lastAge, pokedAge>>, turn' = turn \/ turn' = Waits,
         p = episode.pending,
         RanAPoke(episode.task) <=> RanAPoke(s),
         MayRun(s) => MayRun(episode.task),
         s.state = "air" => p
  PROVE  DemandInv'
<1>1. episode'.pending = p /\ episode'.task = s /\ episode' \in EpisodeType
  BY DEF EpisodeType, SendOK
<1>2. DemandTyped'  BY <1>1 DEF DemandInv, DemandTyped
<1>3. TaskIsPending'  BY <1>1 DEF DemandInv, TaskIsPending, Waits
<1>4. PokesAreKnown'  BY <1>1 DEF DemandInv, PokesAreKnown, Waits
<1>5. DueIsApart'  BY <1>1 DEF DemandInv, DueIsApart
<1> QED  BY <1>2, <1>3, <1>4, <1>5 DEF DemandInv

\* A poke runs: only what was due, and of the pending episode.
LEMMA PokeKeeps ==
  ASSUME DemandInv, PokeConfirmed \/ PokeLands
  PROVE  DemandInv' /\ (~RanAPoke(episode.task) => pokedAge > Coalesce)
<1>1. PICK s : s = episode'.task  OBVIOUS
<1>2. episode.task \in SendType /\ episode \in EpisodeType
  BY DEF DemandInv, DemandTyped, EpisodeType
<1>3. episode' = [episode EXCEPT !.task = s] /\ SendOK(s) /\ RanAPoke(s) /\ ~MayRun(s)
  <2>1. CASE PokeConfirmed
    BY <1>1, <1>2, <2>1, SendSteps
    DEF PokeConfirmed, DemandInv, DemandTyped, EpisodeType, RanAPoke, MayRun
  <2>2. CASE PokeLands
    BY <1>1, <1>2, <2>2, SendSteps
    DEF PokeLands, DemandInv, DemandTyped, EpisodeType, RanAPoke, MayRun
  <2> QED  BY <2>1, <2>2
<1>4. episode.pending
  BY DEF PokeConfirmed, PokeLands, DemandInv, TaskIsPending, Waits
<1>5. episode' \in EpisodeType /\ episode'.pending /\ episode'.task = s
  BY <1>2, <1>3, <1>4 DEF EpisodeType, SendOK
<1>6. /\ UNCHANGED lastAge /\ pokedAge' \in {0, pokedAge}
      /\ turn' = "save" \/ turn' = turn
  BY DEF PokeConfirmed, PokeLands, PokeRuns
<1>7. turn = "close" => turn' = "close" /\ RanAPoke(episode.task)
  BY DEF PokeConfirmed, PokeLands, DemandInv, TaskIsPending
<1>8. turn # "close"  \/ PokeLands  BY DEF PokeConfirmed
<1>9. PokeLands => ~RanAPoke(episode.task)  BY DEF PokeLands, RanAPoke
<1>10. turn' # "close"  BY <1>6, <1>7, <1>8, <1>9
<1>11. DemandTyped'  BY <1>3, <1>5, <1>6 DEF DemandInv, DemandTyped
<1>12. TaskIsPending'  BY <1>3, <1>5 DEF TaskIsPending
<1>13. PokesAreKnown'  BY <1>3, <1>5, <1>10 DEF PokesAreKnown
<1>14. DueIsApart'  BY <1>3, <1>5 DEF DueIsApart
<1>15. ASSUME ~RanAPoke(episode.task)  PROVE pokedAge > Coalesce
  BY <1>4, <1>15
  DEF PokeConfirmed, PokeLands, DemandInv, DueIsApart, MayRun, RanAPoke
<1> QED  BY <1>11, <1>12, <1>13, <1>14, <1>15 DEF DemandInv

\* A new episode is only begun when no poke is unknown, so that what the journal shows
\* to be due is due.
LEMMA EvaluateKeeps ==
  ASSUME DemandInv, Evaluate
  PROVE  DemandInv' /\ (RanAPoke(episode'.task) => RanAPoke(episode.task))
<1>1. PICK asked \in LiveStamps : lastAge > asked + Coalesce  BY DEF Evaluate, DemandDue
<1>2. asked \in Nat /\ Coalesce \in Nat /\ lastAge \in Nat /\ pokedAge \in Nat
  BY DemandAssumption DEF LiveStamps, DemandInv, DemandTyped
<1>3. lastAge > Coalesce  BY <1>1, <1>2
<1>4. SendOK(Unsent) /\ Unsent \in SendType /\ Unsent.state = "open"
  BY SenderAssumption DEF SendOK, SendType, Unsent
<1>5. PICK s : s = IF episode.pending THEN episode.task ELSE Unsent  OBVIOUS
<1>6. SendOK(s)  BY <1>4, <1>5 DEF DemandInv, DemandTyped
<1>7. /\ episode' = [pending |-> TRUE, task |-> s] /\ turn' = "send"
      /\ UNCHANGED <<lastAge, pokedAge>>
  BY <1>5 DEF Evaluate
<1>8. episode'.pending /\ episode'.task = s /\ episode' \in EpisodeType
  BY <1>6, <1>7 DEF EpisodeType, SendOK
<1>9. DemandTyped'  BY <1>6, <1>7, <1>8 DEF DemandInv, DemandTyped
<1>10. TaskIsPending'  BY <1>7, <1>8 DEF TaskIsPending
<1>11. CASE episode.pending
  <2>1. s = episode.task  BY <1>5, <1>11
  <2> QED
    BY <1>7, <1>8, <1>9, <1>10, <1>11, <2>1 DEF DemandInv, PokesAreKnown, DueIsApart
<1>12. CASE ~episode.pending
  <2>1. s = Unsent /\ lastAge <= pokedAge  BY <1>5, <1>12 DEF DemandInv, PokesAreKnown
  <2>2. pokedAge > Coalesce  BY <1>2, <1>3, <2>1
  <2> QED
    BY <1>4, <1>7, <1>8, <1>9, <1>10, <2>1, <2>2 DEF DemandInv, PokesAreKnown, DueIsApart, RanAPoke
<1> QED  BY <1>11, <1>12

\* An attempt without an answer, and the reconciliation.
LEMMA NoPokeKeeps ==
  ASSUME DemandInv, PokeUnconfirmed \/ OracleReconcile
  PROVE  DemandInv' /\ (RanAPoke(episode'.task) => RanAPoke(episode.task))
<1>1. PICK s \in Unanswered(episode.task) \cup Reconciled(episode.task) :
        /\ episode' = [episode EXCEPT !.task = s]
        /\ s \in Unanswered(episode.task) => PokeUnconfirmed \/ s \in Reconciled(episode.task)
  BY DEF PokeUnconfirmed, OracleReconcile
<1>2. episode \in EpisodeType /\ episode.task \in SendType /\ episode.pending \in BOOLEAN
  BY DEF DemandInv, DemandTyped, EpisodeType
<1>3. episode' = [pending |-> episode.pending, task |-> s]
  BY <1>1, <1>2 DEF EpisodeType
<1>4. /\ SendOK(s)
      /\ s.state \in {"landed", "done"} => episode.task.state \in {"landed", "done"}
      /\ episode.task.state \in {"landed", "done"} => s.state \in {"landed", "done"}
      /\ s \in Reconciled(episode.task) /\ s.state = "air" => episode.task.state = "air"
  BY <1>1, <1>2, SendSteps DEF DemandInv, DemandTyped
<1>5. MayRun(s) => MayRun(episode.task)
  BY <1>1, <1>2 DEF MayRun, Unanswered, Reconciled, SendType, AttemptFailed, InFlight, Answered
<1>6. PokeUnconfirmed => episode.pending
  BY DEF PokeUnconfirmed, DemandInv, TaskIsPending, Waits
<1>7. s.state = "air" => episode.pending
  BY <1>1, <1>4, <1>6 DEF DemandInv, TaskIsPending
<1>8. UNCHANGED <<lastAge, pokedAge>> /\ (turn' = turn \/ turn' = Waits)
  BY DEF PokeUnconfirmed, OracleReconcile
<1>9. RanAPoke(episode.task) <=> RanAPoke(s)  BY <1>4 DEF RanAPoke
<1>10. episode'.task = s  BY <1>3
<1>11. DemandInv'  BY <1>2, <1>3, <1>4, <1>5, <1>7, <1>8, <1>9, EpisodeKeeps
<1> QED  BY <1>9, <1>10, <1>11

\* The record of the push, and the end of its episode.
LEMMA RecordPushKeeps ==
  ASSUME DemandInv, SavePush \/ CloseEpisode
  PROVE  DemandInv' /\ episode'.task = episode.task
<1>1. episode \in EpisodeType /\ RanAPoke(episode.task) /\ SendOK(episode.task)
  BY DEF SavePush, CloseEpisode, DemandInv, DemandTyped, TaskIsPending
<1>2. CASE SavePush
  BY <1>1, <1>2
  DEF SavePush, DemandInv, DemandTyped, TaskIsPending, PokesAreKnown, DueIsApart, Waits
<1>3. CASE CloseEpisode
  <2>1. /\ episode'.pending = FALSE /\ episode'.task = episode.task /\ episode' \in EpisodeType
        /\ turn' = Waits /\ UNCHANGED <<lastAge, pokedAge>> /\ lastAge <= pokedAge
    BY <1>1, <1>3 DEF CloseEpisode, EpisodeType, DemandInv, PokesAreKnown
  <2> QED
    BY <1>1, <2>1
    DEF DemandInv, DemandTyped, TaskIsPending, PokesAreKnown, DueIsApart, Waits, RanAPoke
<1> QED  BY <1>2, <1>3

\* What the keeper learns of pushes, crashes, and whatever leaves its journal alone.
LEMMA LearningKeeps ==
  ASSUME DemandInv, UNCHANGED <<episode, pokedAge>>, turn' = turn \/ turn' = Waits,
         lastAge' \in {lastAge, pokedAge, 0}
  PROVE  DemandInv' /\ episode'.task = episode.task
<1>1. lastAge' \in Nat /\ (lastAge <= pokedAge => lastAge' <= pokedAge)
  BY DEF DemandInv, DemandTyped
<1> QED
  BY <1>1 DEF DemandInv, DemandTyped, TaskIsPending, PokesAreKnown, DueIsApart, Waits

LEMMA TickKeeps ==
  ASSUME DemandInv, DemandTick
  PROVE  DemandInv' /\ episode'.task = episode.task
<1>1. lastAge \in Nat /\ pokedAge \in Nat  BY DEF DemandInv, DemandTyped
<1>2. PICK l, p : l = Older(lastAge) /\ p = Older(pokedAge)  OBVIOUS
<1>3. /\ l \in Nat /\ p \in Nat /\ (lastAge <= pokedAge => l <= p)
      /\ pokedAge > Coalesce => p > Coalesce
  BY <1>1, <1>2, Ageing
<1>4. lastAge' = l /\ pokedAge' = p /\ UNCHANGED <<episode, turn>>
  BY <1>2 DEF DemandTick
<1> QED
  BY <1>3, <1>4 DEF DemandInv, DemandTyped, TaskIsPending, PokesAreKnown, DueIsApart

\* Concurrent requesters cost one push (decide.mjs:20-21): a poke of the keeper only runs
\* when its last one is more than the coalescing time ago, also when that one was
\* confirmed late or lost its record in a crash.
THEOREM OnePush == DemandSpec => OnePushPerWave
<1>1. DemandInit => DemandInv  BY DemandStarts
<1>2. DemandInv /\ [DemandNext]_demandVars =>
        DemandInv' /\ (~RanAPoke(episode.task) /\ RanAPoke(episode'.task) => pokedAge > Coalesce)
  <2>1. SUFFICES ASSUME DemandInv, [DemandNext]_demandVars
                 PROVE  DemandInv' /\ (~RanAPoke(episode.task) /\ RanAPoke(episode'.task) =>
                                         pokedAge > Coalesce)
    OBVIOUS
  <2>2. CASE PokeConfirmed \/ PokeLands  BY <2>1, <2>2, PokeKeeps
  <2>3. CASE Evaluate  BY <2>1, <2>3, EvaluateKeeps
  <2>4. CASE PokeUnconfirmed \/ OracleReconcile  BY <2>1, <2>4, NoPokeKeeps
  <2>5. CASE SavePush \/ CloseEpisode  BY <2>1, <2>5, RecordPushKeeps
  <2>6. CASE DemandTick  BY <2>1, <2>6, TickKeeps
  <2>7. CASE /\ UNCHANGED <<episode, pokedAge>> /\ (turn' = turn \/ turn' = Waits)
             /\ lastAge' \in {lastAge, pokedAge, 0}
    BY <2>1, <2>7, LearningKeeps
  <2>8. CASE AdoptPush \/ OracleCrash \/ OthersPush \/ Requesting
             \/ (\E r \in Requesters : NeedPrice(r))
             \/ (\E age \in flights : PriceArrives(age) \/ PriceLost(age))
    BY <2>7, <2>8
    DEF AdoptPush, OracleCrash, OthersPush, Requesting, ActOnPrice, AskForPrice, NeedPrice,
        PriceArrives, PriceLost
  <2>9. CASE UNCHANGED demandVars  BY <2>7, <2>9 DEF demandVars
  <2> QED
    BY <2>1, <2>2, <2>3, <2>4, <2>5, <2>6, <2>8, <2>9 DEF DemandNext, Pushing
<1> QED  BY <1>1, <1>2, PTL DEF DemandSpec, OnePushPerWave

=============================================================================
