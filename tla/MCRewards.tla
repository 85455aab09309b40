----------------------------- MODULE MCRewards -----------------------------
(* The keepers of rewards and prices for TLC, side by side: they share no  *)
(* state, so each behaviour has one of them at work, named by part, and    *)
(* the others rest in an initial state. Their fairness is that of their    *)
(* modules, or less, in the same order; only one part of a disjunction is  *)
(* ever enabled in a behaviour.                                            *)
EXTENDS SealKeeper, RoundKeeper, PushKeeper, OracleDemand

VARIABLE part

\* An entry of more than a round.
OneQueue == <<5>>
OneGroup == <<"g1">>

rewardVars == <<part, sealVars, roundVars, pushVars, demandVars>>

RewardInit ==
  /\ part \in {"seal", "round", "push", "demand"}
  /\ SealInit /\ RoundInit /\ PushInit /\ DemandInit

Seals(A) == part = "seal" /\ A /\ UNCHANGED <<part, roundVars, pushVars, demandVars>>
Runs(A) == part = "round" /\ A /\ UNCHANGED <<part, sealVars, pushVars, demandVars>>
Pushes(A) == part = "push" /\ A /\ UNCHANGED <<part, sealVars, roundVars, demandVars>>
Asks(A) == part = "demand" /\ A /\ UNCHANGED <<part, sealVars, roundVars, pushVars>>

\* One source of rewards is announced, a token or a lane; a lane sees one day end, no
\* crash and no node that is behind (the scan is the tokens', too). The nodes are behind on
\* the first day, before a token's first fee; one that is hidden earns nothing.
OneSource ==
  /\ \A s, t \in Sources : s # t => firstEpoch'[s] = -1 \/ firstEpoch'[t] = -1
  /\ \A l \in Lanes : firstEpoch'[l] # -1 => day' <= 1 /\ Len(blocks') <= 1 /\ sealCrashes' = 0
  /\ \/ place'.at = "chunk" /\ place'.missed # {}
     \/ place.at = "chunk" /\ place'.at = "sources" /\ UNCHANGED <<scanNext, sealCrashes>>
     => day = 0 /\ \A s \in Sources : IF s \in Lanes THEN firstEpoch[s] = -1 ELSE budget[s] = {}
  /\ hidden # {} => budget' = budget /\ day' = day /\ blocks' = blocks

\* A crash where it differs from a call that is refused or left in flight: with logs read
\* that are not in the journal yet, at a dispatch, between the queues listed and the scan
\* saved or a batch confirmed and its record, once a day has ended.
ChunkCrash == sealCrashes' # sealCrashes => place.at = "chunk" /\ place.todo # {}
CallCrash == roundCrashes' # roundCrashes => batch.step = "dispatch"
RecordCrash == pushCrashes' # pushCrashes =>
  IF serving.at = "record" THEN serving.day < today ELSE serving.at = "listed" /\ today > 0

\* The vault delivers again only on the first day, before the first queue had its turn, and
\* strangers leave that queue alone from then on.
NewerQueue ==
  /\ QueueIds # {} /\ revision' # revision =>
       today = 0 /\ pushRec[1].skippedDay = Never /\ pushRec[1].completedDay = Never
  /\ (\E a \in PushAllocs : revision[a] > 1) /\ QueueIds # {} /\ serving.at # "batch" =>
       queues'[1].cursor = queues[1].cursor

\* The price gets old between the ticks, when a batch of the first revision is due.
OldPrice == awaited' # awaited =>
  /\ serving = Ready
  /\ awaited = {} => \E q \in pushList : queueDecision(q) /\ revision[queues[q].alloc] = 1

RewardNext ==
  \/ Seals(SealNext /\ OneSource /\ ChunkCrash)
  \/ Runs(RoundNext /\ CallCrash)
  \/ Pushes(PushNext /\ RecordCrash /\ NewerQueue /\ OldPrice)
  \/ Asks(DemandNext)

RewardSpec == RewardInit /\ [][RewardNext]_rewardVars

RoundMoves == \E r \in DOMAIN rounds : ProgressRound(r) \/ ProgressFails(r) \/ DispatchIntent(r)
WorldMoves == \E r \in DOMAIN rounds : FundingArrives(r) \/ HubAnswers(r)
Prepares == ListQueues \/ \E a \in PushAllocs : Preparing(a)
Serves == \E q \in pushList : Serving(q)
Quarter(q) == q \in QueueIds /\ QuarterPasses(q)
RewardFairness ==
  /\ WF_rewardVars(\/ Seals(Ticking) \/ Runs(Batching) \/ Pushes(Awaiting)
                   \/ Asks(Pushing \/ PokeConfirmed))
  /\ WF_rewardVars(Runs(WorldMoves) \/ Pushes(Quarter(1)) \/ Asks(DemandTick))
  /\ WF_rewardVars(Pushes(Quarter(2)) \/ Asks(\E age \in flights : PriceArrives(age)))
  /\ \A r \in Requesters : WF_rewardVars(Asks(ActOnPrice(r) \/ AskForPrice(r)))
  /\ SF_rewardVars(\/ Seals(UpToDate) \/ Runs(DispatchSent) \/ Pushes(Prepares)
                   \/ Asks(PokeConfirmed \/ (OracleReconcile /\ episode' # episode)))
  /\ SF_rewardVars(Seals(SealAnswered) \/ Runs(RoundMoves) \/ Pushes(BatchAnswered))
  /\ SF_rewardVars(Pushes(Serves))
FairRewards == RewardSpec /\ RewardFairness

RewardTypeOK == SealTypeOK /\ RoundTypeOK /\ PushTypeOK /\ DemandTypeOK
=============================================================================
