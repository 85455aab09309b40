---------------------------- MODULE OracleDemand ----------------------------
(* Prices on demand: keepers that need a fresh price on Arc ask for it in  *)
(* a shared file (keepers/v3/lib/price-demand.mjs); the oracle keeper      *)
(* (oracle/keeper.mjs, decide.mjs) answers with one episode, which travels    *)
(* over LayerZero and may be lost. A poke sent shortly before a request    *)
(* counts as its answer; a request that stays unanswered is stamped again. *)
(* One stock, its market open. Times are ages in units in which each       *)
(* process ticks at least once.                                            *)
EXTENDS Integers, FiniteSets, TaskSender

CONSTANTS
  Requesters,     \* the keepers that ask: round, payout, restock, desk
  Coalesce,       \* demandCoalesceSec
  Refresh, Ttl,   \* refreshSec, ttlSec
  Usable,         \* maxAge less the margin: how old a usable price may be
  MaxDelay,       \* bound: how long LayerZero takes
  MishapBound     \* bound: messages lost, stamps overwritten, crashes, others' pushes

ASSUME DemandAssumption ==
  /\ Coalesce \in Nat /\ MaxDelay \in Nat /\ MishapBound \in Nat
  /\ Refresh \in Nat \ {0} /\ Refresh <= Ttl /\ Ttl \in Nat /\ Usable \in Nat /\ MaxDelay < Usable

VARIABLES
  needy,       \* requesters whose action is due
  stamp,       \* demand file: the age of each request, or None
  arcAge,      \* Arc oracle: age of its observation
  flights,     \* LayerZero: ages of the observations under way
  lastAge,     \* oracle's journal: age of the last push it knows
  episode,        \* oracle's journal: the due episode and its task
  pokedAge,    \* Robinhood Chain: age of the keeper's newest poke
  turn,        \* oracle keeper: the next step of its tick
  acted,       \* who has ticked in this unit of time
  mishaps

demandVars ==
  <<needy, stamp, arcAge, flights, lastAge, episode, pokedAge, turn, acted, mishaps>>

None == -1
Old == Ttl + Coalesce + 1       \* an age from which on nothing changes
Waits == "wait"
Actors == Requesters \cup {"oracle"}

DemandInit ==
  /\ needy = {} /\ stamp = [r \in Requesters |-> None]
  /\ arcAge = Old /\ flights = {} /\ lastAge = Old
  /\ episode = [pending |-> FALSE, task |-> Unsent]
  /\ pokedAge = Old /\ turn = Waits /\ acted = {}
  /\ mishaps = 0

---------------------------------------------------------------------------
(* ensureFreshPrice of a requester.                                        *)

checkArcPrice == arcAge <= Usable

\* mergeRequest: an entry is stamped when it is new, expired or due for a refresh.
Restamped(age) == IF age = None \/ age >= Refresh THEN 0 ELSE age

NeedPrice(r) ==
  /\ r \notin needy
  /\ needy' = needy \cup {r}
  /\ UNCHANGED <<stamp, arcAge, flights, lastAge, episode, pokedAge, turn, acted, mishaps>>

\* Fresh: the request is cleared and the action goes on.
ActOnPrice(r) ==
  /\ r \in needy /\ checkArcPrice
  /\ needy' = needy \ {r}
  /\ stamp' = [stamp EXCEPT ![r] = None]
  /\ acted' = acted \cup {r}
  /\ UNCHANGED <<arcAge, flights, lastAge, episode, pokedAge, turn, mishaps>>

\* requestPush. A lock that stays busy is ignored: another's stamp may be overwritten.
AskForPrice(r) ==
  /\ r \in needy /\ ~checkArcPrice
  /\ \/ stamp' = [stamp EXCEPT ![r] = Restamped(@)] /\ UNCHANGED mishaps
     \/ /\ mishaps < MishapBound /\ mishaps' = mishaps + 1
        /\ \E other \in Requesters \ {r} :
             stamp' = [stamp EXCEPT ![r] = Restamped(@), ![other] = None]
  /\ acted' = acted \cup {r}
  /\ UNCHANGED <<needy, arcAge, flights, lastAge, episode, pokedAge, turn>>

---------------------------------------------------------------------------
(* OracleKeeper.evaluate and push.                                         *)

\* parseDemand, decidePush: the latest live stamp, unless a push was sent since it
\* or less than Coalesce before it.
LiveStamps == {stamp[r] : r \in Requesters} \cap 0..Ttl
\* Mutant: only a push after the request answers it.
DemandDueUncoalesced == \E asked \in LiveStamps : lastAge > asked
DemandDue == \E asked \in LiveStamps : lastAge > asked + Coalesce

\* One task for a due episode: what is pending goes on.
Evaluate ==
  /\ turn = Waits /\ DemandDue
  /\ episode' = [pending |-> TRUE, task |-> IF episode.pending THEN episode.task ELSE Unsent]
  /\ turn' = "send"
  /\ acted' = acted \cup {"oracle"}
  /\ UNCHANGED <<needy, stamp, arcAge, flights, lastAge, pokedAge, mishaps>>

PokeRuns == flights' = flights \cup {0} /\ pokedAge' = 0

PokeConfirmed ==
  /\ turn = "send"
  /\ \/ episode.task.state = "open" /\ PokeRuns
     \/ episode.task.state \in {"landed", "done"} /\ UNCHANGED <<flights, pokedAge>>
  /\ episode' = [episode EXCEPT !.task = Answered(@)]
  /\ turn' = "save"
  /\ UNCHANGED <<needy, stamp, arcAge, lastAge, acted, mishaps>>
PokeUnconfirmed ==
  /\ turn = "send" /\ episode.task.state \notin {"landed", "done"}
  /\ \E s \in Unanswered(episode.task) : episode' = [episode EXCEPT !.task = s]
  /\ turn' = Waits
  /\ UNCHANGED <<needy, stamp, arcAge, flights, lastAge, pokedAge, acted, mishaps>>

\* saveLast from the receipt, then the episode is over. A crash may come between.
SavePush ==
  /\ turn = "save"
  /\ lastAge' = pokedAge
  /\ turn' = "close"
  /\ UNCHANGED <<needy, stamp, arcAge, flights, episode, pokedAge, acted, mishaps>>
\* Mutant: the episode stays due.
EpisodeStaysOpen ==
  /\ turn = "close"
  /\ turn' = Waits
  /\ UNCHANGED <<needy, stamp, arcAge, flights, lastAge, episode, pokedAge, acted, mishaps>>
CloseEpisode ==
  /\ turn = "close"
  /\ episode' = [episode EXCEPT !.pending = FALSE]
  /\ turn' = Waits
  /\ UNCHANGED <<needy, stamp, arcAge, flights, lastAge, pokedAge, acted, mishaps>>

\* adoptPush: an event of a push newer than the last one known.
AdoptPush ==
  /\ turn = Waits /\ pokedAge < lastAge
  /\ lastAge' = pokedAge
  /\ UNCHANGED <<needy, stamp, arcAge, flights, episode, pokedAge, turn, acted, mishaps>>

OracleReconcile ==
  /\ turn = Waits
  /\ \E s \in Reconciled(episode.task) : episode' = [episode EXCEPT !.task = s]
  /\ UNCHANGED <<needy, stamp, arcAge, flights, lastAge, pokedAge, turn, acted, mishaps>>
OracleCrash ==
  /\ turn # Waits /\ mishaps < MishapBound
  /\ mishaps' = mishaps + 1
  /\ turn' = Waits
  /\ UNCHANGED <<needy, stamp, arcAge, flights, lastAge, episode, pokedAge, acted>>

---------------------------------------------------------------------------
(* The chains, LayerZero, other pushers and time.                          *)

PokeLands ==
  /\ episode.task.state = "air" /\ PokeRuns
  /\ episode' = [episode EXCEPT !.task = HasLanded(@)]
  /\ UNCHANGED <<needy, stamp, arcAge, lastAge, turn, acted, mishaps>>

\* Anyone may poke; the keeper's watcher sees it.
OthersPush ==
  /\ mishaps < MishapBound /\ mishaps' = mishaps + 1
  /\ flights' = flights \cup {0} /\ lastAge' = 0
  /\ UNCHANGED <<needy, stamp, arcAge, episode, pokedAge, turn, acted>>

\* An observation that is not newer is ignored.
PriceArrives(age) ==
  /\ age \in flights
  /\ arcAge' = IF age < arcAge THEN age ELSE arcAge
  /\ flights' = flights \ {age}
  /\ UNCHANGED <<needy, stamp, lastAge, episode, pokedAge, turn, acted, mishaps>>
PriceLost(age) ==
  /\ age \in flights /\ mishaps < MishapBound
  /\ flights' = flights \ {age} /\ mishaps' = mishaps + 1
  /\ UNCHANGED <<needy, stamp, arcAge, lastAge, episode, pokedAge, turn, acted>>

\* Who has nothing to do has acted. A stamp that is too old is dropped (prune).
HasActed(a) ==
  a \in acted \/ (IF a = "oracle" THEN turn = Waits /\ ~DemandDue ELSE a \notin needy)
Older(age) == IF age >= Old THEN Old ELSE age + 1
DemandTick ==
  /\ \A a \in Actors : HasActed(a)
  /\ \A age \in flights : age < MaxDelay
  /\ stamp' = [r \in Requesters |-> IF stamp[r] \in {None, Ttl} THEN None ELSE stamp[r] + 1]
  /\ arcAge' = Older(arcAge) /\ lastAge' = Older(lastAge) /\ pokedAge' = Older(pokedAge)
  /\ flights' = {age + 1 : age \in flights}
  /\ acted' = {}
  /\ UNCHANGED <<needy, episode, turn, mishaps>>

Requesting == \E r \in Requesters : ActOnPrice(r) \/ AskForPrice(r)
Pushing == Evaluate \/ PokeUnconfirmed \/ SavePush \/ CloseEpisode \/ AdoptPush
DemandNext ==
  \/ Requesting \/ Pushing \/ PokeConfirmed \/ OracleReconcile \/ OracleCrash
  \/ PokeLands \/ OthersPush \/ DemandTick
  \/ \E r \in Requesters : NeedPrice(r)
  \/ \E age \in flights : PriceArrives(age) \/ PriceLost(age)

DemandSpec == DemandInit /\ [][DemandNext]_demandVars

\* The processes tick, LayerZero delivers, and the chain does not refuse for ever.
DemandFairness ==
  /\ \A r \in Requesters : WF_demandVars(ActOnPrice(r) \/ AskForPrice(r))
  /\ WF_demandVars(Pushing \/ PokeConfirmed)
  /\ SF_demandVars(PokeConfirmed \/ (OracleReconcile /\ episode' # episode))
  /\ WF_demandVars(DemandTick) /\ WF_demandVars(\E age \in flights : PriceArrives(age))
FairDemand == DemandSpec /\ DemandFairness

---------------------------------------------------------------------------
(* Properties.                                                             *)

DemandTypeOK ==
  /\ needy \subseteq Requesters /\ acted \subseteq Actors
  /\ stamp \in [Requesters -> {None} \cup 0..Ttl]
  /\ flights \subseteq 0..MaxDelay
  /\ arcAge \in 0..Old /\ lastAge \in 0..Old /\ pokedAge \in 0..Old
  /\ episode \in [pending : BOOLEAN, task : SendType]

\* decide.mjs:20-21, "concurrent requesters cost one push": the keeper's own pokes are
\* more than the coalescing time apart, whoever asks while one travels, and however
\* the keeper learns of one that was confirmed late or lost its record in a crash.
RanAPoke(task) == task.state \in {"landed", "done"}
OnePushPerWave ==
  [][~RanAPoke(episode.task) /\ RanAPoke(episode'.task) => pokedAge > Coalesce]_demandVars

\* Whoever needs a price gets to act, though pushes are lost or fail, stamps are
\* overwritten, coalesced or expire, and the keeper dies; unless the poke of the due
\* episode was given up.
EveryDemandServed ==
  \A r \in Requesters : r \in needy ~> (r \notin needy \/ episode.task.state = "stopped")
=============================================================================
