# GoMate in TLA+

GoMate plans weekends. A person talks to a travel agent, whose answers may
need minutes of research in the background; or a group of people meets in an
*activity room*, agrees on a theme and lets the room's graph find an activity
and an itinerary. The backend (`src/src/wheretogo`, Python) keeps its state in
PostgreSQL and its locks in Redis, and runs in two processes: the web process
(FastAPI) and one worker (`src/docker-compose.prod.yml:92`).

This directory holds the models of that backend, their TLC configurations, and
the theorems about them that TLAPS checks. `PROJECT.json` lists the parts, the
runs, the hazards and, per definition, the source lines it models. Paths below
are relative to `src/src/wheretogo` unless they start with `src/`.

## 1. The system

| part | state | operations | interacts with |
|---|---|---|---|
| turns (`agent/transaction.py`, `prerequisites.py`, `decision.py`) | `agent_turns`, `clarification_requests`, the constraints and the conversation of `plans` | one transaction per message: number, interpret, decide, commit | creates runs and outbox rows; asks the active run to stop |
| runs (`agent/worker.py`, `supervisor.py`, `status.py`) | `agent_runs`, `agent_outbox`, heartbeats | claim, execute, finalize, settle, scan for stalled runs, cancel | takes the plan lock, drives the trip graph, writes results and events |
| events (`agent/events.py`, `bff/agent_api.py`) | `agent_run_events` | publish; an SSE generator polls and sends; browsers reconnect | every transaction of a run publishes |
| results (`agent/persist.py`, `workspace.py`, `metrics.py`) | `trip_bundles`, conversation | write a bundle; read the workspace | reads and writes the same plan row as the turns |
| plan lock (`infra/redis_client.py`) | `lock:plan:<id>` with a TTL | acquire with a timeout, release | worker, direct plan endpoints, rooms (`room-<id>`) |
| rooms (`bff/rooms.py`, `rooms/service.py`, `orchestration/room_graph.py`, `room_nodes.py`) | `rooms`, members, votes, the checkpoint of the room's graph | join, vote, spin, confirm, back, recommend (SSE), select (SSE) | the graph's last node writes the itinerary and the status |
| room itineraries (`rooms/service.py`, `rooms/revision.py`) | `room_itineraries` with `version` and `is_current` | publish, modify, undo | modify takes the room lock, undo does not |
| room algorithms (`rooms/algorithms.py`, `rooms/revision.py`) | none | common window, wheel, ranking, fairness, gathering; the revisions of an itinerary | called by rooms and graph |
| trip graph (`orchestration/graph.py`, `nodes.py`) | LangGraph checkpoint per thread | start, resume with bookings, replan, revise, more research | executed by the worker or by the direct endpoints |
| direct plan endpoints (`bff/app.py`) | `plans`, `bookings`, invitations | stream, resume, replan, revise, chat, import | same lock and thread as the runs |
| providers (`providers/`, `providers/gear/`) | breaker, token buckets, quota counts, cache | one call: cache, quota, limiter, breaker, primary, fallbacks | every node that asks the outside world |
| research (`research/`) | jobs and cache | rounds of search, extract, judge, verify under a deadline | calls providers in parallel; called by the graph's research node |
| activity intelligence (`intel/`) | `activities` | extract a page, look for a duplicate, upsert, supersede | threads of the research write through it |
| copilot (`copilot/`) | none | interpret a message, word an answer, draft an itinerary | called by the chat and the turns |
| trip domain (`domain/`) | none | aggregate a party, solve and validate a timeline, final gate | called by the graph's nodes and the party endpoint |
| retrieval, notify, memory, services | single writes or none | ranking, reminders, deletion | |
| front ends (`src/web-v2`, `src/web`, `src/extension`) | the last event number | subscribe, reconnect | SSE |

What is hard in it:

* **Long actions between a read and a write.** A message is interpreted by a
  model for seconds inside one transaction; a run streams for minutes; a room
  request reads the row, checks its status and commits later. PostgreSQL runs
  at READ COMMITTED and only `events.publish` locks a row.
* **Retries.** A stalled run is queued again with another outbox row; a client
  repeats a message with its idempotency key; a browser resumes the event
  stream; a recommendation is started again.
* **Deaths.** A process may die with a row claimed, a run running or the lock
  held. The lock expires by its TTL, the run is found by its heartbeat.
* **A lock that may be none.** When Redis does not answer, the plan lock is one
  of the process alone, and nothing renews the key of a long stream.
* **Two clocks of truth.** A run and its turn; a question and the turn that
  waits for its answer; a room's status and its graph's checkpoint; a plan's
  constraints and the thread that was computed from them; an itinerary's
  version and its current flag.
* **State that outlives its turn.** The channels of a checkpoint keep the
  baseline, the verdicts, the provider's status and the loop counters of
  earlier commands, and each of several exits resets some of them.
* **Threads that are abandoned, not stopped.** At the deadline of a research
  its ingests go on with sessions of their own.

What makes each part correct, and where it is checked:

| part | must hold | property |
|---|---|---|
| runs | an outbox row is executed by one worker at a time; a queued run is always looked at; turn and run agree; the lock's key keeps those apart who hold it; a child waits for its parent; only a cancel overturns a verdict; an active run ends | RowsHeldOnce, QueuedHasCarrier, TurnMirrorsRun, StreamExclusive, ChildAfterParent, OnlyCancelOverturns, VerdictStands, RunsEnd |
| turns | one turn per key and number, retries get its answer; a turn waits exactly as long as its question is open | ImplementsLog, AskedTurnWaits |
| events | numbers are consecutive in the order of visibility; each browser gets each event once, in order, and learns the end | NumberStaysFree, ImplementsFeed, EveryoneHears |
| rooms | a recommendation is published once; a published room has an itinerary | PublishedOnce, PublishedHasPlan |
| itineraries | versions differ; something is shown unless two undos cross; lone undos make a bounded history | VersionsDistinct, SomeCurrent, ImplementsHistory |
| outings | theme and slot suit every member; revisions in any order keep the activity and the quarter of an hour before it | OutingsSuit, OutingsGather |
| trip graph | feedback becomes a search; an extension and an outage keep the accepted plan; "improved" shows something new; "sufficient" is covered by verdicts; a stream comes to its pause or end | FeedbackIsSearched, ExtensionKeepsPlan, OutageKeepsPlan, ImprovementIsNew, SufficientIsCovered, TurnEnds |
| research | what is reported is stored; "no results" is no outage; it ends by the deadline | ReportIsStored, NoResultsIsHonest, CallEnds |
| activities | superseding never loses an event, but by an update that expires its own row; trust rests on an official page or on two different ones | EventStaysVisible, TrustedIsBacked |
| provider gear | a day is overspent by no more than the calls in flight; a service that recovered is used again | QuotaHolds, ServiceIsUsedAgain |
| chat | the plan that waits for bookings is of the constraints of today; research continues only on the destinations of its route; what is offered can be run | BookedPlanIsCurrent, ContinuesOnItsRoute, OfferIsServed |
| trips and drafts | limits and timeline suit every member; each required goal is in the itinerary | TripsSuit, DraftsServe |

## 2. Modules

| module | what it is |
|---|---|
| `RunLifecycle` | turns' runs, outbox, workers, plan lock, user's cancel |
| `TurnTransaction` | the messages of a plan, with the runs and results as far as the plan sees them |
| `TurnLog` | what the turns promise: a numbered log, one entry per key |
| `RunEvents` | publishers, event rows, SSE generators, browsers |
| `EventFeed` | what the events promise: each follower gets the whole feed in order |
| `RoomLifecycle` | a room, its graph's checkpoint, its lock, its members' requests |
| `RoomItineraries` | the itinerary table under publication, modification, undo, restart |
| `ItineraryHistory` | what it promises: a bounded history whose last entry is shown |
| `SemanticJudge` | the judge's verdicts on a batch of candidates, and its silences |
| `PlanSelection` | merging of rounds, coverage, choice of the plan, sufficiency |
| `TripGraph` | the planning graph on one checkpoint thread, and its commands |
| `ActivityIngest` | the activities table and the threads that write it |
| `ResearchLoop` | one research call after another: tasks, rounds, deadline, job, cache |
| `ProviderGear` | concurrent calls of one provider through its gear |
| `TurnInterpretation` | what a chat message means, by the model or by the rules |
| `PlanChat` | the chat-first web process: messages, threads, streams, a party |
| `RoomRules` | what an outing contains and what a revision changes in it |
| `TripRules` | a party's limits and the timeline solved from them |
| `DraftRepair` | the fallback itinerary of a reply, the model's draft and its repair |
| `MC*` | small instances for TLC |
| `*Proofs` | theorems and their proofs |

Each module's header says what it models; each action is one committed step of
the code, from one point where others can interfere to the next.

**RunLifecycle.** `run`, `turn`, `outbox`, `lock` are the rows and the Redis
key; `worker` is what a worker process remembers between its transactions
(`execute_run` reads the run, decides, and writes later by primary key, so the
copy matters). `Claim` is `_claim_next` with SKIP LOCKED; `ReadRun`, `Begin`,
`AcquireLock`, `StreamEvent`, `StreamEnd`, `Finish` are the transactions of
`execute_run`; `Settle` and `SettleRaised` those of `_settle_outbox`; `Scan` is
`scan_stalled`. `AcquireLock` takes the key or, when Redis is out, goes on without
(the process-local lock is free, since a worker executes one run at a time);
`StreamEnd` deletes the key only if it is still the owner's, and leaves it behind
(`Abandon`) when Redis fails then. `BeatStale` lets a heartbeat grow old; `Crash` ends a process
at any point. `TurnRead`, `TurnInsert`, `TurnCommit`, `CancelRead`,
`CancelWrite` are the web process.

**TurnTransaction.** A request walks through `ReadPlan`, `CheckKey`,
`NumberTurn`, `InsertTurn`, then `Commit`, `InterpretFails` or `RollBack`.
`seen` is what the SQLAlchemy session has loaded: the plan is loaded once and
never refreshed, the run and the clarifications are looked up once. A turn that
is inserted but not committed is invisible, but an insert that clashes with it
waits (`InsertTurn`). `Decide`, `KnownFacts`, `Hard`, `Soft` are the capability
table and the runtime decision, over four facts; the interpretation is any
proposal of a given set. A request without an idempotency key is one with a
key of its own. The ORM omits unchanged columns from UPDATE, so `Commit`
replaces `known` and `thread` only when the code assigns them. The runs are
abstracted to what the plan sees of them (`Take`, `ReadResult`, `WriteResult`,
`Finish`); `RunLifecycle` has them in detail. `WriteResult` reads and writes
the plan in two steps, as `persist.py` does.

**RunEvents.** `LockRun`, `Number`, `Commit`, `RollBack` are `events.publish`
in its transaction; `ReadRows` and `ReadRun` the two queries of a poll, `Send`
one event; `Connect` and `Drop` the browser's EventSource. Number, row and
status become visible together at the commit.

**RoomLifecycle.** The short endpoints are a read step and a write step. The
endpoints that drive the graph hold the lock from `starting` to the end of the
stream; the graph moves by nodes, which may raise, and a client may leave in
between. The checkpoint (`graph`) outlives the request.

**RoomItineraries.** `ModifyRead` loads the itinerary before the lock is taken;
`SaveRead`, `SaveReadTop` and `SaveWrite` read the current row, read the highest
version and write, under it. An undo takes no lock: `UndoReadPrevious` and
`UndoReadCurrent` are its two queries, `UndoWrite` its commit, and `crossed`
remembers that an undo committed between the two of another. A row that is to be
changed and was deleted meanwhile rolls the transaction back; one that is to be
deleted does not.

**TripGraph** extends `PlanSelection`, which extends `SemanticJudge`. Each node
of `orchestration/nodes.py` is one action that leaves a checkpoint: `next` is
the node to run, `st` the channels of the research loop, `trip` those of the
nodes after it. A candidate is its title; a collection maps titles to origin,
verdict and subgoals. `Research` is the node with everything it calls: a fresh
search may be exhausted, time out, lose the provider or raise, the judge may be
silent on any batch, and the round is merged with what was there
(`DeepOutcomes`, `RoundResult`, `ResearchRound`, `ResearchUnavailable`,
`ResearchRaises`). `Reflect` is split by its exits: outage, unverified, spent,
reranked, no better, retry, sufficient, loops spent, follow-up. `Start`,
`Resume`, `Replan`, `Continue` are the commands of `PlannerService`, given when
no stream holds the plan; a replan runs on behind any node the endpoint takes
(`bff/app.py:96`), and behind the last of them there is nothing to run; `Crash` ends a stream between two nodes, and `Elapse`
lets an activity's end pass. The coverage of several calls is judged as the
code does it, with the verdicts remembered in the checkpoint.

**ResearchLoop** extends **ActivityIngest**: the tables and threads of the
latter, and above them the loop. `Plan` cuts and completes the tasks the model
proposes; `Search`, `Extract`, `Collect`, `EndRound` are the phases of a round,
each bounded by `_bounded_parallel`, so `Collect` goes on when the deadline has
passed and leaves readers and checks running. A reader looks for a namesake
(`Extracts`), embeds its draft and looks for the nearest (`Embeds`), reads the
row it found again (`Compares`) and commits (`Stores`): its own row, if it is the
more trusted, and the evidence of the row it found, which is written back whole
from the copy, with the note of an agreement or a dispute. A check keeps its copy
of a row (`CheckReads`), takes up to two second pages one after another
(`CheckFinds`), each ingested by a reader, raises the copy and holds the row from
then on (`CheckUpgrades`), and commits (`CheckCommits`). `word` is history: on
whose word a status was given. `Close` writes job and cache,
and a call may be answered from the cache while earlier threads still write.

**ProviderGear.** A call stands before the cache, the quota, the bucket, the
breaker or the service; each gate is one step under that object's own lock.
`PrimaryAnswers` and `PrimaryFails` settle breaker, quota and cache. Time is
in `CoolsDown`, `Refill`, `DayTurns`, `Expires`; `ServiceTurns` and
`RedisTurns` are the world.

**PlanChat** extends **TurnInterpretation**, the pure part: `Interpreted` is
`interpret_turn`, `HandleTurn` the decision of `handle_turn`. A message
(`ChatBegins`) reads the plan, `ChatCommits` writes constraints, then
`ChatPrepares` (research-more) or `ChatRenews` (a new thread), then
`ChatAnswers`; an exception or a crash ends it after any commit (`ChatDegrades`). Streams, the
check of `/research-more` before the lock, resume and replan, and the party
(submit, aggregate, without the lock) interleave with it. `graph` is the
thread's checkpoint as far as the chat reads it; `TripGraph` has its nodes. A
stream finds its destinations in a step of its own (`Discovers`), commits the
checkpoint of the pause (`Pauses`) and then stores bundle and stage in another
transaction (`StoresBundle`); behind the pause it stores the confirmation
(`Confirms`) before the last checkpoint is written (`Completes`). It may break
between any two of these. A thread streamed anew keeps the destinations it had,
because their list has a reducer that appends. `Revise` writes any constraints
into the thread and leaves it wherever the run it starts may come to, storing
nothing. Three history variables say what the properties except: `apart`, that
constraints changed in a way that starts nothing; `moved`, that the route was
among them and the thread stayed; `told`, that the bundle of the pause is stored.

**RoomRules** has one outing: the wheel, the common window, the estimated slot
and the gathering make the plan that is published (`OutingInit`), and then
`Revise` is one call of `modify_plan_ep` after another, with each type of
revision of `apply_revision`. Who takes part, what is selected and what is asked
for are constants.

**TripRules** has one trip. `Meet` puts one more member's limits to those of the
party, as `aggregate_party` does in its loop; `Discover` finds an activity;
`PlaceAnchors`, `PlaceNext` and `Close` are `solve_timeline`: the bookings, one
activity at a time in the order of the stable sort, the way back. `Issues` is
the validator.

**DraftRepair** has one reply. `Offer`, `Offered` and `FallBack` are
`_fallback_response`, goal by goal; `Reply` is whatever the model drafts,
`Silence` its failure; `Repair`, `Repaired` and `Keep` are
`_ensure_subgoal_target_coverage` and the cut after it. `cut` remembers that
something was cut off.

These three share no state with the protocols, only the run: a behaviour of
`MCRoomLifecycle` is the race for a room or one outing, one of `MCPlanChat` a
conversation, one trip or one reply (`MCSpec`).

Composition: RunLifecycle and TurnTransaction meet in `runs` and `turns`, and
RoomLifecycle and RoomItineraries in the saved itineraries; each models the
other's share of the shared rows as far as its own properties depend on it.
`TurnLog`, `EventFeed` and `ItineraryHistory` are instantiated with a
refinement mapping inside the module that implements them.

## 3. Runs

| run | instance | shows |
|---|---|---|
| `run_workers` | 1 run, 2 workers, 1 requeue, 1 crash, 1 exception, cancel, web process uses the lock | rows, run and turn stay consistent, streams under living keys exclude each other, a verdict stands against a second executor |
| `run_deployed` | 2 runs of one plan, 1 worker, restart, exception, fairness | children wait, only a cancel overturns, every active run ends |
| `turn_log` | 3 requests, two with one key | the log is implemented and questions hold |
| `events_feed` | 2 publishers, 2 browsers, 3 events, batches of 2, 2 lost connections | the feed is implemented, everyone hears the end |
| `room_race` | 3 members, 2 themes, 7 requests, faults, restarts; beside it 8 groups, 4 activities, up to 3 revisions of any type | one publication per recommendation, published rooms have a plan; outings suit and gather |
| `itinerary_versions` | 2 publications, 4 modifications or undos, history of 3, restart | distinct versions, something shown unless undos cross, a bounded history implemented by lone undos |
| `itinerary_undos` | the same | **violated**: two undos leave no current version |
| `graph_loop` | 3 candidates, 2 subgoals, 2 commands, 2 loops, provider and judge that fail, streams that die | feedback is searched, accepted plans survive extension and outage, verdicts back "improved" and "sufficient", streams end |
| `graph_goals` | the same, 1 loop | **violated**: a sufficient plan lost the candidate of a subgoal |
| `research` | 3 pages of one event or two, 2 subgoals, 2 tasks, 2 rounds, in each a verification with up to 2 second pages | events stay visible, trust is backed, reports are stored and honest, calls end |
| `provider_gear` | 2 threads, threshold and recovery of 2, a bucket of 1 | the quota's excess is bounded, a recovered service is used |
| `plan_chat` | 10 messages of two cities, 4 turns, exceptions, crashes, a party; beside it 3 members, up to 4 activities of which the solver looks at 3; 4 candidates, 2 goals, all drafts of up to 2 entries, a fallback cut at 3 and an itinerary cut at 4 | what waits, what continues and what is offered agree with the constraints; trips suit, drafts serve |

**Bounds and why they suffice.** A stale copy needs a reader, one that
overtakes it and one more to notice: two workers, three requests, three
members, three pages. One requeue is enough for a duplicate row and for a run
to be given up; two runs are enough for a parent and a child. Batches of two
with three events make a poll stop in the middle and a connection break in the
middle of a batch (the code reads 500 at a time). A history of three with six
saves makes the clean-up delete (the code keeps five). Two themes are enough
to tell the confirmed one from the one in the checkpoint.

Two commands on a thread are the least that meets a checkpoint with a history,
and with the restart of a dead stream the channels of three streams mix; a
judge's batch of two with three candidates makes a round of two batches, one
of which may be silent; plans of three with one kept by default make the limit
and the default bite (the code has 10 and 4). The pages of `research` are an
official page and a blog of one event with two fingerprints of one meaning,
and a forum that tells of it under a similar title on another day: every
branch of the search for duplicates is taken, and each of superseding,
updating and raising meets each other, with both pages of a verification, in a
first round and in a second on top of what the first left. With two
verifications at once in a single round it was run once and the safety
properties hold as well (2.6 million states). Two threads of a provider pass a gate
together; two failures and two successes make the breaker count (the code has
5 and 2). Four turns of a chat are a plan, its explore stream, a change and
what a stale answer still offers; three are enough for a stream that breaks and a
message that asks for more. Three revisions are enough to change, undo
and change again; the groups have an infeasible window, a member without
limits and one who excludes every theme; a third activity meets one placed
before and one placed behind it.

`MaxRequests`, `MaxCrashes`, `MaxFaults`, `MaxDrops`, `MaxEvents`,
`MaxRetries`, `MaxTurns`, `MaxCalls`, `MaxRevisions`, `MaxFinds` and `MaxReply`
are the names of all bounds on behaviours; the theorems of section 4 hold for every
value of them, but for two that need `MaxRetries > 0`. `MaxLoops`, `MaxAttempts`, `MaxRounds`, `MaxTasks`,
`MaxVerified` (5, `research/supervisor.py:713`), `PlanLimit`, `KeptByDefault`, `Threshold`, `Recovery`, `Near`, `Capacity`,
`Keep`, `MaxPlaceable` (8), `MaxFallback` (12) and `MaxItinerary` (20) are
settings of the code. `graph_loop` replans as research, transport, weather and
compose, to end in five minutes; with all thirteen nodes it was run once and
holds as well (543,448 states). Deadlock checking is off wherever clients may
stop asking; `provider_gear` has it on, because time never stops.

**Fairness.** `RunLifecycle`: the worker's main loop (`worker.py:186`) claims,
executes and scans for ever; a heartbeat nobody renews grows old; the TTL of a
key expires; the web process gives the lock back. A worker's death or a user
owe nothing. `RunEvents`: the generator polls until it returns, and a browser
whose connection broke connects again (EventSource does). `TripGraph`: a
stream that is driven runs its next node (`graph.py:329`); nobody owes a
command, and a crash may come instead. `ResearchLoop`: the loop goes on and
its clock passes the deadline; the threads it started owe nothing, so that
`CallEnds` holds though every search and ingest hang for ever. `ProviderGear`:
a thread finishes its call (the clients have timeouts) and calls again, and
the clock goes on: cool-down, refill, midnight, TTL. `ServiceIsUsedAgain`
assumes that the service stays well and nothing else. Each is weak fairness of
an action the code keeps enabled by a loop or a clock.

## 4. Theorems

They hold for every value of the constants under the named assumptions of the
modules (sets that do not overlap with the markers used for "nobody", bounds
that are naturals). A theorem that needs more says so in its statement. Every
safety invariant, action property and refinement that a passing run of section 3
checks is a theorem. `TypeCorrect`, one for each of the modules with tables,
threads or checkpoints, is mostly not a property of a run: it is what the
inductive invariants start from.

* **RunLifecycleProofs.** `TypeCorrect`. `RowsAreHeldOnce` and `QueuedIsCarried`
  rest on `CarrierInv`: a slot of the outbox beyond the rows added is empty, each
  claimed row has one holder, and a queued run has a pending row, a worker that
  carries it, or was left by a dead worker; the row of a worker must be tracked
  through its program counter, which is why `QueuedHasCarrier` alone is not
  inductive. `StreamsExclude` assumes nothing of Redis and of the TTL, and says what
  the lock then still is worth: a worker whose key lives owns it, for a worker
  without a key, one whose key has expired and one that died never delete
  another's. That streams are serial altogether is false (section 5).
  `TurnsMirrorRuns` and `VerdictsStand` go through `Fate`, what any step of
  anybody may do to one run, and `VerdictInv`: what a worker read before it acts
  on a finished run still stands, or the run was requeued or asked to cancel
  meanwhile. Both assume that a run may be retried (`MaxRetries > 0`; the code
  has 2, `config.py:93`). With 0 TLC finds them violated: a scan then fails a
  run at once under the worker that still executes it. `ChildrenWait` and
  `OnlyCancelsOverturn` assume one worker process (`OneWorker`), as it is
  deployed (`src/docker-compose.prod.yml:92`); with two, TLC finds a worker that
  begins a parent the scan has given up, beside the child this released.
  `OneInv` adds that the run a worker holds was claimed after its parent ended.
  `RetriesAreBounded` is the part of `RunsEnd` that does not depend on fairness:
  with one worker process no active run has been retried more than `MaxRetries`
  times (`Counted` says which steps raise the count, `RetriesHold` that a run
  beyond the limit is over and nobody acts on it). With two, TLC finds a worker
  that begins a run the other has just given up.
* **TurnTransactionProofs.** `TypeCorrect`, `QuestionsHold` and
  `LogImplemented`. The numbers of the committed turns are `1..n`. That the
  next one is `n + 1` although it was computed from an older maximum needs
  that everything below a computed number is committed (`NumberedNext`), that
  an inserted turn clashes with no other (`InsertedFree`, `InsertedApart`, the
  unique indexes), and that a finished request has the number of its turn.
  The questions hold because `Answered` moves the question and its turn
  together and a run ends only a turn that is running (`RunsOfTurns`); this is
  the health figure `hidden_clarification_total` that `agent/metrics.py:42`
  wants to be 0.
* **RunEventsProofs.** `TypeCorrect`, `NumbersStayFree` and `FeedImplemented`.
  The invariant says that numbers are `1..n`, that the transaction at work
  holds the row and has computed `n + 1`, and that what a stream has sent and
  what its browser has seen are prefixes of them.
* **RoomLifecycleProofs.** `TypeCorrect` and `OnePublication`, with the
  invariant that itineraries come from started recommendations, that a
  published start has ended, and that a request inside the graph drives the
  start it began or resumed (`OnceInv`). `PublicationsHavePlans` adds that a
  checkpoint belongs to a start (`PublishedInv`). The same module proves the
  outing: `OutingsSuitAll` and `MembersStillMeet`, for arbitrary integers as
  times and any members. `OutingInv` says of the nodes, in any order a revision
  leaves them in, that there is a first activity and that every gathering lies
  a quarter of an hour before it unless the activity was replaced; the property
  looks only at the first of each kind, the invariant at every node, and it
  gives the times their type, so that a shift commutes with the quarter of an
  hour. What a greatest and a least element, the
  first position of a kind and the sequence without one element are, are lemmas
  (`HasMax`, `HasMin`, `FoundNode`, `RemoveFits`).
* **RoomItinerariesProofs.** `NumbersDistinct` and `AlwaysShown`. A saver holds
  the lock (`SaversHoldLock`), and the highest version it read still bounds the
  table, because undos only remove rows (`SaverSawTop`); a row belongs to one
  finished request (`RowsOfDone`, `IdsDistinct`). While no undo commits between
  the two reads of another, the row an undo returns to is not current when it
  reads the current one (`TargetStaysOld`), and so is not the row it deletes
  (`UndoKeepsTarget`); `AlwaysShown` holds of these behaviours, and TLC refutes it
  of the others (`itinerary_undos`). `HistoryImplemented` is the
  refinement of `ItineraryHistory`, of the behaviours that chose `undosAlone` at
  their start: in these an undo runs beside nobody. In the others it is false
  (section 5). `HistoryInv` adds that the newest row, and no other, is current,
  that a saver saw that row, and that what an undo read still holds; the mapping
  numbers the rows by how many are older (`Rank`).
* **TripGraphProofs.** `FeedbackIsServed`, `ExtensionsKeepThePlan`,
  `OutagesKeepThePlan`, `ImprovementsAreNew`, `SufficientMeansCovered`, for any
  candidates, subgoals, verdicts and commands. `GraphInv` follows a turn that
  asks for more through three phases (asked, searching, over: `MoreInv`), says
  that the plan it began with is remembered from the second on
  (`BaseIsBefore`), that every collection is one the judge can have made
  (`Truthful`), and that coverage was measured on the plan before and what was
  judged since (`FoundInv`). `SufficientIsCovered` speaks of turns that start or
  ask for more: a later replan begins with a plan that no longer holds the
  candidates its goals were once covered by. The attempt to prove it without
  that restriction failed at this step, and TLC with three commands shows the
  trace. `TypeCorrect` and `TurnsSearchBounded` are the part of `TurnEnds` that
  does not depend on fairness: whatever the judge, the provider and the exits of
  the reflection do, a turn runs its research at most `MaxLoops + 1` times, so a
  stream that is driven cannot be sent back for ever. The retry and the
  follow-up count on one counter that a new search resets; `RoundsFit` relates
  it to the rounds of the turn at every node. Two things came out of the
  attempt: a thread that waits for bookings may be live again after
  `/research-more`, and a replan as compose has nothing left to run.
* **ResearchLoopProofs.** `EventsStayVisible` and `TrustIsBacked` are about the
  threads of `ActivityIngest`, whoever starts them: a duplicate by meaning is
  a row of the page's event (`DupFits`), its own one included, which is what
  `EventsStayVisible` must except; and the status a row has, or a check is about to
  give it, was given on the word of an official page or of two (`WordsAreKept`).
  The word is kept in a history variable and not read off the row, because the
  evidence that names the pages is overwritten with older copies
  (`TrailIsKept`, section 5). Nearness of
  fingerprints is any relation, not transitive; an event is a set of
  fingerprints closed under it. `ReportsAreStored` follows because no step
  unstores a row (`RowsStay`), and `NoResultsAreHonest` because past a search
  the web was heard (`HeardBefore`). `ResearchNeverTurnsBack` is a ranking, the
  part of `CallEnds` that does not depend on fairness: each step of the loop
  lowers `StepsLeft`, at most five in each of `MaxRounds` rounds and one to
  report, and neither a thread nor a clock raises it. `OverspendIsBounded` is the quota of
  `ProviderGear`: used plus the threads between the quota's gate and its count
  stay below limit plus threads (`QuotaInv`). It assumes a limit above 0 or some
  thread: with neither, nothing is below nothing. `GearTypesCorrect` adds that a
  half open breaker still lacks a success. `RecoveryNeverTurnsBack` is the part
  of `ServiceIsUsedAgain` that does not depend on fairness, a ranking: while a
  provider is well (`Well`: it is up, and every call in flight will be answered,
  which is itself preserved, `WellLasts`), no call, probe or clock takes the
  breaker further from closed (`Distance`), and each answer to a half open
  breaker takes it nearer.
* **PlanChatProofs.** `BookedPlansAreCurrent`, `ResearchKeepsItsRoute`,
  `OffersAreServed`, for anything users say. While nothing else has touched the
  plan (`apart`), the thread is about its constraints except between a message's
  first commit and the step that prepares or renews it, and then it is about
  those the message found (`ThreadFits`, `Settled`); the bundle is asked for only
  once the pause has stored it, and then it is the thread's. The destinations are
  those of the thread's route as long as no route was changed under it
  (`RouteFits`), and that route is the plan's but for the same gap
  (`RouteSettled`); a prepared thread waits
  with its feedback (`PreparedWaits`), and neither a stream nor an offer stands
  beside a message (`OneAtATime`). The same module proves the trips and the
  drafts, for any party, activities, candidates, goals and drafts, because their
  loops are steps and what a loop computes is an invariant, not a fold.
  `TripsSuitAll`: the band put together is exact for the members met so far as
  long as some value suits all of them (`BandHolds`), nobody has to be back
  before the common limit (`LimitHolds`), and every slot keeps it (`SlotsSuit`)
  apart from all others (`SlotsApart`); the order in which activities are placed
  is not needed, so bad weather cannot break it. `DraftsServeGoals`: the
  fallback names nobody twice and has enough for each goal it has passed
  (`OfferInv`, `FallbackInv`), the repair has mended the goals behind it, and
  what is added for a later goal takes nothing from an earlier one (`Mended`,
  `RepairInv`); that a mended goal is served is a count: each of the fallback's
  candidates, named once, has a place of its own in the itinerary
  (`CountCovers`).

The assumptions added for proofs are facts of the code: constraints are records
(`ChatAssumption`), "none" is no page (`IngestAssumption`), a search returns
finitely many titles (`JudgeAssumption`), a graph may loop at least once
(`GraphAssumption`), a replan names one of the graph's nodes
(`ReplanAssumption`, the `Literal` of `bff/app.py:96`), a goal asks for 1 to 20
activities (`GoalsAssumption`) and an itinerary keeps at least one
(`CutsAssumption`).

Only model-checked: the five properties under fairness (`RunsEnd`,
`EveryoneHears`, `TurnEnds`, `CallEnds`, `ServiceIsUsedAgain`), because liveness
and ENABLED are beyond the prover; of four of them the safety half is a theorem
(`RetriesAreBounded`, `TurnsSearchBounded`, `ResearchNeverTurnsBack`,
`RecoveryNeverTurnsBack`). What an operator that walks a
sequence of any length computes (`PlannedTasks` of `ResearchLoop`) is checked
only through the actions that use it: for every input it would need an
induction the prover cannot instantiate. No module uses RECURSIVE.

## 5. What the models say against the documents

Two divergences are runs of their own: `itinerary_undos`, below under rooms, and
`graph_goals`: a follow-up round of a
revision ranks only candidates that are new (`nodes.py:818`), while the
coverage that stops the research counts the old ones too; the plan that is
called sufficient has then lost the candidate of a subgoal that the round
before had covered, against "每个 required subgoal 至少保留若干最优候选" and
"每个 required subgoal 在行程中的不同候选数必须达到 `target_count`"
(`src/技术方案/DeepResearch候选生命周期与旅行Agent上下文重构方案_v3.md:196`, `:436`).

The other divergences met on the way are stated here; the steps of those that
concern a modelled part are actions of its module. Where a name is given, the
module states what the code's words claim, no run checks it, and TLC refutes it
when it is put in place of the invariants of a cfg:

| claim | cfg | constants that differ |
|---|---|---|
| `StreamsAreSerial` | `RunLifecycle_workers` | |
| `DateIsConfirmed`, `NoCheckBlocksItself` | `ResearchLoop_rounds` | |
| `NoneExpiresItself` | `ResearchLoop_rounds` | `Pages <- TwoPages`, `PrintOf <- OnePrint` |
| `TrailIsKept` | `ResearchLoop_rounds` | `Pages <- TwoBlogs`, `PrintOf <- OnePrint`, `MaxCalls = 2` |
| `IteratesOnResults`, `SearchesItsRoute` | `PlanChat_turns` | |

**Runs, turns, events**

* cancel and execution both read the run unlocked and write it by primary key,
  so a turn that ended as CANCELLED is set RUNNING and ended again
  (`bff/agent_api.py:142`; `status.py:45` says "进入后不再变化");
* the plan lock does not make executions serial ("串行，避免并发写 checkpoint",
  DD-02 line 237; "看门狗", DD-01 line 403): without Redis it holds only in its own
  process, and nothing renews its key (`redis_client.py:86`; `StreamsAreSerial`);
* a child gets a heartbeat when it is queued and none while it waits, so the
  scan requeues and in the end fails it while its parent runs
  (`worker.py:145`; `worker.py:49`: "父任务未结束：保持 pending，稍后再领");
* the conversation is written from the copy read before the model call, and
  what the worker or another message said meanwhile is overwritten
  (`transaction.py:568`; `models/user_plan.py:66`); the constraints likewise
  (`transaction.py:184`);
* after a requeue a run has two rows, and two workers may both read it as QUEUED
  before either sets it RUNNING (`supervisor.py:253` is meant to prevent it);
  the lock keeps them apart while its key lives, and the second fails the run as busy, as does a
  retry that meets a dead worker's lock (`supervisor.py:374`), and a
  replacement whose predecessor still streams (`transaction.py:499`);
* the scan moves RUNNING to QUEUED (`worker.py:157`), and an answer moves a
  turn from NEEDS_INPUT to ANSWERED (`transaction.py:392`); both are missing
  in the transition tables of `status.py`, of which line 23 says that what is
  not in them is illegal;
* a replacement run cancels only the latest active run; an older one that is
  still running goes on (`transaction.py:497`);
* an answer plus a blocked transport search drops the question, and a blocked
  part is asked for only when no soft hint exists (`decision.py:122`, `:164`);
* a final event that commits between the two queries of a poll is replaced by
  a made-up one, meant for old data (`agent_api.py:85`, `:105`); the browser
  then stops and has the text only after reloading the workspace;
* a first message without a plan that is retried makes a second plan
  (`transaction.py:286`).

**Rooms**

* two undos at once may delete or unmark every version to show
  (`rooms/service.py:257`: "撤销：回退到上一个版本"; `itinerary_undos`), when the one
  commits between the two queries of the other;
* an undo takes no lock, and with a modification between its read and its
  writes two versions are current (`rooms/service.py:256`; `models/room.py:104`:
  "is_current 唯一当前版");
* after back-to-theme and a new confirmation a selection resumes the earlier
  recommendation and publishes the earlier theme (`bff/rooms.py:353`;
  `room_nodes.py:85`);
* a selection commits PLANNING before it asks for the lock; a busy lock, a
  thread without a pause or a raising node strands the room
  (`bff/rooms.py:353`; DD-18 line 529: "异常不阻塞");
* the wheel may turn more than twice, and a stale confirmation may take a
  published room back, when two requests read the row at once
  (`rooms/service.py:206`, `:213`);
* a modification starts from the itinerary it read before it waited for the
  lock and drops another member's change (`bff/rooms.py:410`);
* the wheel's endpoint never passes the weather its algorithm and the design
  know of; an estimated end may precede its start when the window is
  infeasible; departures may precede a member's earliest departure; with only
  starts or only ends given, all limits are discarded;
* `revision.py` announces that later nodes are recomputed: a shift never
  recomputes the members' departures or the gathering's target time, a
  replaced activity leaves gathering and departures as they were, the check
  against the window goes by time of day and misses midnight, and nothing
  consumes the pending flags.

**Trip graph**

* `prepare_research_more` does not reset the provider's status, so after a turn
  that lost the provider every later request for more research stops at the
  first reflection (`graph.py:278`, `nodes.py:1203`); `FeedbackIsSearched`
  excepts it;
* a round that raises can leave an extension without activities
  (`nodes.py:953`; `nodes.py:463`: "A failed extension must leave the previous
  valid plan intact"); `ExtensionKeepsPlan` excepts it;
* a replan as "weather" continues at the timeline, so `weather_awareness` never
  consumes its reason; a replan while the graph waits for bookings composes a
  confirmed plan without them;
* an outage in a second round, or with places found on the map, discards what
  was found; subgoals that the extractor merely suggested count as covered
  once any verdict exists; an old "unknown" hides a new verdict;
* the attempts of the validator are never reset (`nodes.py:1538`), but of its
  issues only an expired activity can come from the solver's output, and that
  is not one a rearrangement could repair;
* on the path of the agent the ledger of a plan is never written
  (`supervisor.py:184`), so an extension keeps only the first four items.

**Research and activities**

* an ingest writes back the evidence it read before a verification committed,
  and the row stays trusted without the second source that its note should name
  ("核实路径记入 evidence.note（可审计）", `research/supervisor.py:131`;
  `TrailIsKept`);
* a second page raises the activity whatever its ingest made of it, of another
  day too ("搜第二来源确认日期", `:711`; `DateIsConfirmed`);
* a verification that has raised its row waits in the ingest of the next page
  for its own transaction ("provider 自身超时负责最终回收", `:99`;
  `NoCheckBlocksItself`);
* the query by meaning may find the draft's own row, which the update then
  expires ("绝不能再把自己标 expired", `intel/ingest.py:207`;
  `NoneExpiresItself`);
* a partial result is served from the cache as a success; an outage of the map
  alone is reported as no results; a timeout hides an outage;
* a task on the map counts as covered as soon as any candidate exists, its
  places are appended every round, and tasks cut at the maximum may uncover
  subgoals;
* duplicates by title are not superseded; two upserts at once pass the check of
  trust; `_upgrade_verified` writes a stale copy over a newer row
  (`research/supervisor.py:126`).

**Providers**

* the breaker's comment promises one probe ("放行一次探测"), but every caller
  passes while it is half open; its "滑动窗口失败率" counts consecutive
  failures; failures of calls sent before it opened renew the cool-down; and
  failed calls are not counted in the quota (`gear/breaker.py`, `gear/quota.py`);
* gear is per process: two processes spend a quota twice; only Redis is shared.

**Chat**

* route cards, local recompositions, cleared origins, degraded answers and the
  aggregation of a party change the constraints without starting anything
  (`bff/app.py:779` says any change resets the graph), and `/revise` changes those
  of the thread; `apart` marks them;
* a stream that breaks between the checkpoint of its pause and the transaction
  that stores the bundle leaves a thread that waits beside an older bundle
  (`bff/app.py:289`); `BookedPlanIsCurrent` excepts it (`told`);
* constraints in a checkpoint count as results (`bff/app.py:568`): after a stream
  that broke before discovery a request for more research is prepared on a
  thread without destinations, and ends without a search, though `bff/app.py:754`
  has an answer for a plan without results (`IteratesOnResults`);
* a thread that is streamed anew keeps its destinations in front of those it
  discovers (`orchestration/state.py:32`; `graph.py:135` believes the list
  cleared), so after the aggregation of a party that moved the route the old one is
  searched (`SearchesItsRoute`);
* after a degraded answer the repeated message is told that its wishes are
  already in force; "extend" after a prepared "replace" that was not run
  overwrites the mode; `/research-more` is checked outside the lock.

**Trips**

* the solver ignores a member's earliest departure and drops an anchor's times
  (`timeline.py:69`, `backfill.py:126`); of three members, the conflict of the
  first two bands is forgotten when the third meets their envelope.

## 6. What is not modelled

The texts of plans, bundles, briefs and replies, prompts, scores and the order
of equals; the external services (a call succeeds, fails or hangs); the
plan that is revised before its thread ever ran; plans or runs that vanish
under their run; joining, profiles and votes of a room; the ranking and
fairness scores of a room; the import of bookings and the invitations (single
inserts); transport legs, hotels and dining data of a trip, destinations,
backfill and the offsets of reminders; retrieval (numeric ranking over a
database), reminders, memory and privacy (single transactions that no loop of
the repository drives); the crawler, which nothing schedules; HTTP errors after
which a browser gives up; the limit of 200 messages of a conversation. An
exception in `_settle_outbox` is a `Crash`. `EXPIRED` is in the table of room
states but no code sets it. The parts of section 1 are listed with what each
model leaves out in `PROJECT.json`.

Where a list's order decides only which of several equals is kept, the model
keeps any of them (`Limited` in `PlanSelection`). What a language model answers
is a constant of the instance or any of a set; whether it answers is chosen at
every call. The map's lines of a definition include those whose wording and
logging it abstracts from.

## 7. Plan

Written, in this order, because the first loses a user's work if it is wrong
and the rest build on it: RunLifecycle; RoomLifecycle; RoomItineraries with
ItineraryHistory; RunEvents with EventFeed; TurnTransaction with TurnLog; the
proofs of each; then TripGraph with PlanSelection and SemanticJudge;
ResearchLoop with ActivityIngest; ProviderGear; PlanChat with
TurnInterpretation; RoomRules, TripRules and DraftRepair. The runs that once showed the
divergences of runs, turns and rooms (section 5) gave way to runs of the later
modules.

What is left, in the order of its worth:

1. An abstract machine of a run (queued, running, ended, with its retries) that
   `RunLifecycle` implements for each run. The case split `Fate` of
   `RunLifecycleProofs` is most of that refinement; the machine has to allow the
   second executor that begins a run after its verdict.
2. A well-founded measure for `RunsEnd`, which `RetriesAreBounded` is a part of,
   as `ResearchNeverTurnsBack` is for `CallEnds`; the conclusion under fairness
   stays with TLC.
3. Transport legs, hotels and dining of a trip, with the offsets of reminders,
   as further steps behind `Close`.
