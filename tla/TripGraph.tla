------------------------------ MODULE TripGraph ------------------------------
(***************************************************************************)
(* The planning graph of orchestration/graph.py and nodes.py over one      *)
(* checkpoint thread: parse, discover, the loop of research and reflect,   *)
(* the pause that waits for bookings, and the chain down to the confirmed  *)
(* plan.  Every node is one step and leaves a checkpoint; a stream drives  *)
(* the nodes and may die between two of them; the callers start, resume,   *)
(* replan or prepare more research when no stream holds the plan's lock.   *)
(***************************************************************************)
EXTENDS PlanSelection

CONSTANTS
  MaxLoops,      \* _REFLECT_MAX_LOOPS (3)
  MaxAttempts,   \* _VALIDATE_MAX_ATTEMPTS (3)
  ReplanFrom,    \* the nodes callers replan as
  MaxTurns,      \* bound: commands given to the thread
  Keys           \* whether a search provider has a key

ASSUME GraphAssumption ==
  /\ MaxLoops \in Nat \ {0} /\ MaxAttempts \in Nat /\ MaxTurns \in Nat /\ Keys \in BOOLEAN

Nodes == {"parse", "discover", "research", "reflect", "transport", "await_booking", "hotel",
          "mobility", "dining", "weather", "timeline", "validate", "compose"}

ASSUME ReplanAssumption == ReplanFrom \subseteq Nodes

Edges == [parse |-> "discover", discover |-> "research", research |-> "reflect",
          transport |-> "await_booking", await_booking |-> "hotel", hotel |-> "mobility",
          mobility |-> "dining", dining |-> "weather", weather |-> "timeline",
          timeline |-> "validate", compose |-> "end"]

VARIABLES
  next,      \* the node the checkpoint runs next, "none" before the first, or "end"
  live,      \* a stream drives the graph
  waiting,   \* the interrupt of await_booking is pending
  answered,  \* a resume value is on its way to await_booking
  st,        \* the channels of TripPlanState the research loop reads and writes
  trip,      \* the channels of the nodes after it
  over,      \* the dated candidates whose end has passed
  turn       \* history: the command being served and what the plan was before it

vars == <<next, live, waiting, answered, st, trip, over, turn>>

Dated == Titles \ Open

InitialState(hard) ==
  [acts |-> None, base |-> None, judged |-> None, round |-> None, raw |-> FALSE,
   feedback |-> FALSE, active |-> FALSE, loop |-> 0, continue |-> FALSE,
   improved |-> FALSE, personalized |-> FALSE, outcome |-> "none", stop |-> "none",
   eval |-> NotEvaluated, research |-> [provider |-> "none", live |-> FALSE, sources |-> FALSE],
   started |-> FALSE, exhausted |-> FALSE, mode |-> "initial", hard |-> hard,
   shownIds |-> {}, shownTitles |-> {}, followUp |-> FALSE, locked |-> {}]

InitialTrip ==
  [stage |-> "explore", adverse |-> FALSE, reason |-> FALSE, timeline |-> {}, issues |-> {},
   attempts |-> 0]

NoTurn == [n |-> 0, kind |-> "none", before |-> {}, rounds |-> 0, raised |-> FALSE]

Init ==
  /\ next = "none" /\ live = FALSE /\ waiting = FALSE /\ answered = FALSE
  /\ st = InitialState(FALSE) /\ trip = InitialTrip /\ over = {} /\ turn = NoTurn

Goal == IF st.hard THEN Goals ELSE {}

------------------------------------------------------------------------------
(* Commands.  plan_lock lets one stream at a time into a plan; it runs on  *)
(* from a node, and from the end there is nothing to run.                  *)

Command(kind, before, node) ==
  /\ ~live /\ turn.n < MaxTurns
  /\ next' = node /\ live' = (node # "end")
  /\ turn' = [n |-> turn.n + 1, kind |-> kind, before |-> before, rounds |-> 0, raised |-> FALSE]

Start(hard) ==
  /\ Command("start", {}, "parse")
  /\ waiting' = FALSE /\ answered' = FALSE
  /\ st' = InitialState(hard) /\ trip' = InitialTrip
  /\ UNCHANGED over

Resume ==
  /\ waiting
  /\ Command("resume", DOMAIN st.acts, next)
  /\ waiting' = FALSE /\ answered' = TRUE
  /\ UNCHANGED <<st, trip, over>>

(* The node update_state pretends to be is not run: what follows it is.    *)
RouteAfterReflect == IF st.continue THEN "research" ELSE "transport"
RouteAfterValidate(issues, attempts) ==
  IF attempts >= MaxAttempts \/ issues = {} THEN "compose"
  ELSE IF "RETURN_TIGHT" \in issues THEN "transport" ELSE "timeline"
After(node) ==
  CASE node = "reflect" -> RouteAfterReflect
    [] node = "validate" -> RouteAfterValidate(trip.issues, trip.attempts)
    [] OTHER -> Edges[node]

Replan(node) ==
  /\ next # "none"
  /\ Command("replan", DOMAIN st.acts, After(node))
  /\ waiting' = FALSE /\ answered' = FALSE
  /\ trip' = [trip EXCEPT !.reason = TRUE]
  /\ UNCHANGED <<st, over>>

\* Mutant: the update is written as the reflect node.
PrepareAsReflect(mode, locked) ==
  /\ next # "none"
  /\ Command("more", DOMAIN st.acts, "transport")
  /\ waiting' = FALSE /\ answered' = FALSE
  /\ st' = [st EXCEPT !.feedback = TRUE, !.loop = 0, !.continue = FALSE, !.active = FALSE,
                      !.base = None, !.round = None, !.raw = FALSE, !.judged = None,
                      !.improved = FALSE, !.personalized = FALSE, !.outcome = "searching",
                      !.eval = NotEvaluated, !.stop = "none", !.started = FALSE,
                      !.exhausted = FALSE, !.mode = mode, !.locked = locked]
  /\ UNCHANGED <<trip, over>>

(* prepare_research_more writes as the research node, so that reflect      *)
(* turns the feedback into queries.  The agent's worker hands it the       *)
(* ledger of the checkpoint; the web chat one the user composed.           *)
PrepareResearchMore(mode, locked) ==
  /\ next # "none"
  /\ Command("more", DOMAIN st.acts, "reflect")
  /\ waiting' = FALSE /\ answered' = FALSE
  /\ st' = [st EXCEPT !.feedback = TRUE, !.loop = 0, !.continue = FALSE, !.active = FALSE,
                      !.base = None, !.round = None, !.raw = FALSE, !.judged = None,
                      !.improved = FALSE, !.personalized = FALSE, !.outcome = "searching",
                      !.eval = NotEvaluated, !.stop = "none", !.started = FALSE,
                      !.exhausted = FALSE, !.mode = mode, !.locked = locked]
  /\ UNCHANGED <<trip, over>>

(* /research-more runs the prepared thread on, and runs it on again after  *)
(* a lost stream while the feedback is not consumed.                       *)
Continue ==
  /\ ~live /\ next \notin {"none", "end"}
  /\ st.feedback \/ st.active
  /\ live' = TRUE
  /\ UNCHANGED <<next, waiting, answered, st, trip, over, turn>>

------------------------------------------------------------------------------
(* The nodes. *)

At(node) == live /\ next = node
Stay == UNCHANGED <<live, waiting, answered, over>>

(* Neither parse nor discover fails: without a database the target city    *)
(* is the candidate.                                                       *)
Parse == At("parse") /\ next' = "discover" /\ Stay /\ UNCHANGED <<st, trip, turn>>
Discover == At("discover") /\ next' = "research" /\ Stay /\ UNCHANGED <<st, trip, turn>>

Baseline == IF st.base # None THEN st.base ELSE st.acts
Fallback == IF st.hard THEN None ELSE Baseline
Iterative == st.followUp \/ st.active \/ st.base # None

(* The budget runs from the first deep research of the turn.               *)
DeepOutcomes ==
  IF ~Keys THEN {"skipped"}
  ELSE {"ok", "timeout", "unavailable"} \cup (IF st.started THEN {"spent"} ELSE {})

DeepRan(deep) == deep \in {"ok", "timeout"}

(* What passes the time window and was not shown before by its id.         *)
Fresh(found) == {t \in found : t \in Open \/ t \notin st.shownIds}

CountRound(raised) ==
  turn' = [turn EXCEPT !.rounds = IF @ > MaxLoops + 1 THEN @ ELSE @ + 1, !.raised = raised]

\* Mutant: an outage of a request with subgoals drops the plan.
ResearchUnavailableFallback ==
  /\ At("research") /\ "unavailable" \in DeepOutcomes
  /\ st' = [st EXCEPT !.acts = Fallback, !.round = None, !.raw = FALSE, !.judged = None,
                      !.improved = FALSE, !.personalized = FALSE,
                      !.eval = [NotEvaluated EXCEPT !.failure = "provider_unavailable"],
                      !.outcome = "provider_unavailable",
                      !.research = [@ EXCEPT !.provider = "unavailable", !.live = TRUE],
                      !.started = TRUE, !.exhausted = FALSE, !.continue = FALSE]
  /\ next' = "reflect" /\ CountRound(FALSE) /\ Stay /\ UNCHANGED trip

ResearchUnavailable ==
  /\ At("research") /\ "unavailable" \in DeepOutcomes
  /\ st' = [st EXCEPT !.acts = Baseline, !.round = None, !.raw = FALSE, !.judged = None,
                      !.improved = FALSE, !.personalized = FALSE,
                      !.eval = [NotEvaluated EXCEPT !.failure = "provider_unavailable"],
                      !.outcome = "provider_unavailable",
                      !.research = [@ EXCEPT !.provider = "unavailable", !.live = TRUE],
                      !.started = TRUE, !.exhausted = FALSE, !.continue = FALSE]
  /\ next' = "reflect" /\ CountRound(FALSE) /\ Stay /\ UNCHANGED trip

(* Anything that raises, before or after the deep research ran.            *)
ResearchRaises ==
  /\ At("research")
  /\ \E deep \in (DeepOutcomes \ {"unavailable"}) \cup {"skipped"} :
       st' = [st EXCEPT !.acts = Fallback, !.improved = FALSE, !.personalized = FALSE,
                        !.outcome = "searching",
                        !.started = @ \/ deep # "skipped",
                        !.exhausted = @ \/ deep \in {"spent", "timeout"}]
  /\ next' = "reflect" /\ CountRound(TRUE) /\ Stay /\ UNCHANGED trip

\* Mutant: old cards are offered again.
EligibleAll(judged) == judged

Eligible(judged) ==
  IF Iterative /\ st.mode # "extend"
  THEN Excluding(judged, DOMAIN Baseline \cup st.shownTitles)
  ELSE judged

(* What the round takes over from the choice c among the judged.           *)
RoundResult(deep, found, sources, outcome, c, judged, eval) ==
  LET improved == \/ c.fresh # None /\ ~st.hard
                  \/ \E t \in DOMAIN c.fresh : c.fresh[t].status = "matched"
      unverified == /\ c.fresh # None
                    /\ \/ eval.failure # "none"
                       \/ \E t \in DOMAIN c.fresh : c.fresh[t].status = "unknown"
  IN  [st EXCEPT
         !.acts = IF c.plan # None THEN c.plan ELSE Fallback,
         !.round = c.fresh, !.raw = @ \/ Fresh(found) # {}, !.judged = judged,
         !.improved = improved,
         !.personalized = Iterative /\ c.fresh # None /\ eval.matched /\ st.active,
         !.eval = eval,
         !.outcome = IF unverified THEN "partial_unverified"
                     ELSE IF ~Iterative THEN "initial"
                     ELSE IF improved THEN "improved" ELSE "searching",
         !.research = IF DeepRan(deep)
                      THEN [provider |-> "ok", live |-> TRUE, sources |-> sources]
                      ELSE [@ EXCEPT !.live = st.research.live \/ deep = "spent"],
         !.started = @ \/ deep # "skipped",
         !.exhausted = @ \/ deep \in {"spent", "timeout"}]

ResearchRound ==
  /\ At("research")
  /\ \E deep \in DeepOutcomes \ {"unavailable"}, sources \in BOOLEAN :
     \E found \in SUBSET (IF DeepRan(deep) THEN Titles ELSE Dated) :
     \E outcome \in JudgeOutcomes(Fresh(found)) :
       LET current == Ranked(Fresh(found), outcome.heard, st.hard, Goals)
           judged == Distinct(st.judged, current)
           eval == CollectionEvaluation(Distinct(Baseline, judged), Goals,
                                        BatchEvaluation(Fresh(found), outcome, Goals))
       IN  /\ IF DeepRan(deep) THEN found \cap Open # {} => sources
              ELSE sources = st.research.sources
           /\ \E c \in SelectPlan(st.mode, Baseline, Eligible(judged), st.locked) :
                st' = RoundResult(deep, found, sources, outcome, c, judged, eval)
  /\ next' = "reflect" /\ CountRound(FALSE) /\ Stay /\ UNCHANGED trip

------------------------------------------------------------------------------
(* Reflect decides whether the research goes on.  Its branches in order.   *)

Outage == st.research.provider = "unavailable" \/ st.eval.failure = "provider_unavailable"
Unverified == /\ st.eval.failure \in {"semantic_judge_unavailable", "semantic_judge_partial"}
              /\ st.raw \/ st.acts # None
NoGain == ~st.feedback /\ st.active /\ ~st.improved
Enough == ~st.feedback /\ Sufficient(st.acts, st.research, st.eval, Goal)

Shown == [ids |-> st.shownIds \cup (DOMAIN st.acts \ Open),
          titles |-> st.shownTitles \cup DOMAIN st.acts]

Deciding == At("reflect") /\ Stay /\ UNCHANGED <<trip, turn>>
Ends == next' = "transport"

ReflectOutage ==
  /\ Deciding /\ Outage /\ Ends
  /\ st' = [st EXCEPT !.continue = FALSE, !.feedback = FALSE, !.active = FALSE,
                      !.base = None, !.round = None, !.outcome = "provider_unavailable",
                      !.stop = "provider_unavailable"]

ReflectUnverified ==
  /\ Deciding /\ ~Outage /\ Unverified /\ Ends
  /\ st' = [st EXCEPT !.continue = FALSE, !.feedback = FALSE, !.active = FALSE,
                      !.base = None, !.improved = FALSE, !.outcome = "partial_unverified",
                      !.shownIds = Shown.ids, !.shownTitles = Shown.titles,
                      !.stop = st.eval.failure]

ReflectSpent ==
  /\ Deciding /\ ~Outage /\ ~Unverified /\ st.exhausted /\ Ends
  /\ st' = [st EXCEPT !.continue = FALSE, !.feedback = FALSE, !.active = FALSE,
                      !.stop = "budget_exhausted"]

Judging == Deciding /\ ~Outage /\ ~Unverified /\ ~st.exhausted

(* After feedback, an angle that brought nothing new is not enough.        *)
ReflectReranked ==
  /\ Judging /\ NoGain /\ st.personalized /\ Ends
  /\ st' = [st EXCEPT !.continue = FALSE, !.active = FALSE, !.base = None, !.round = None,
                      !.outcome = "reranked", !.stop = "personalized_rerank",
                      !.shownIds = Shown.ids, !.shownTitles = Shown.titles]

ReflectNoBetter ==
  /\ Judging /\ NoGain /\ ~st.personalized /\ st.loop >= MaxLoops /\ Ends
  /\ st' = [st EXCEPT !.acts = IF st.base # None THEN st.base ELSE @,
                      !.continue = FALSE, !.active = FALSE, !.base = None, !.round = None,
                      !.outcome = "no_better_alternatives", !.stop = "max_loops",
                      !.shownIds = Shown.ids, !.shownTitles = Shown.titles]

ReflectRetry ==
  /\ Judging /\ NoGain /\ ~st.personalized /\ st.loop < MaxLoops
  /\ st' = [st EXCEPT !.continue = TRUE, !.loop = @ + 1, !.followUp = TRUE,
                      !.stop = "continue_for_gap"]
  /\ next' = "research"

ReflectSufficient ==
  /\ Judging /\ ~NoGain /\ Enough /\ Ends
  /\ st' = [st EXCEPT !.continue = FALSE, !.active = FALSE, !.base = None, !.round = None,
                      !.outcome = IF st.active THEN "improved" ELSE @,
                      !.stop = "quality_sufficient",
                      !.shownIds = Shown.ids, !.shownTitles = Shown.titles]

ReflectMaxLoops ==
  /\ Judging /\ ~NoGain /\ ~Enough /\ st.loop >= MaxLoops /\ Ends
  /\ st' = [st EXCEPT !.acts = IF st.mode = "extend" THEN @
                               ELSE IF st.personalized /\ st.round = None THEN @
                               ELSE IF st.round # None THEN st.round
                               ELSE IF st.base # None THEN st.base ELSE @,
                      !.continue = FALSE, !.feedback = FALSE, !.active = FALSE,
                      !.base = None, !.round = None,
                      !.outcome = IF ~st.active THEN @
                                  ELSE IF st.personalized THEN "reranked"
                                  ELSE "no_better_alternatives",
                      !.stop = "max_loops",
                      !.shownIds = Shown.ids, !.shownTitles = Shown.titles]

\* Mutant: the follow-up does not count.
ReflectFollowUpUncounted ==
  /\ Judging /\ ~NoGain /\ ~Enough /\ st.loop < MaxLoops
  /\ st' = [st EXCEPT !.followUp = TRUE, !.continue = TRUE,
                      !.feedback = FALSE, !.active = @ \/ st.feedback,
                      !.base = IF st.feedback THEN st.acts ELSE @,
                      !.round = IF st.feedback THEN None ELSE @,
                      !.stop = "continue_for_gap",
                      !.shownIds = Shown.ids, !.shownTitles = Shown.titles]
  /\ next' = "research"

ReflectFollowUp ==
  /\ Judging /\ ~NoGain /\ ~Enough /\ st.loop < MaxLoops
  /\ st' = [st EXCEPT !.loop = @ + 1, !.followUp = TRUE, !.continue = TRUE,
                      !.feedback = FALSE, !.active = @ \/ st.feedback,
                      !.base = IF st.feedback THEN st.acts ELSE @,
                      !.round = IF st.feedback THEN None ELSE @,
                      !.stop = "continue_for_gap",
                      !.shownIds = Shown.ids, !.shownTitles = Shown.titles]
  /\ next' = "research"

Research == ResearchUnavailable \/ ResearchRaises \/ ResearchRound
Reflect ==
  \/ ReflectOutage \/ ReflectUnverified \/ ReflectSpent \/ ReflectReranked
  \/ ReflectNoBetter \/ ReflectRetry \/ ReflectSufficient \/ ReflectMaxLoops
  \/ ReflectFollowUp

------------------------------------------------------------------------------
(* From the plan to the confirmed bundle. *)

Step(node) == At(node) /\ next' = Edges[node] /\ Stay /\ UNCHANGED <<st, turn>>

Transport == Step("transport") /\ UNCHANGED trip

(* Without an answer the node pauses, again each time it is entered.       *)
AwaitBooking ==
  /\ At("await_booking") /\ ~answered
  /\ waiting' = TRUE /\ live' = FALSE
  /\ UNCHANGED <<next, answered, st, trip, over, turn>>

Booked ==
  /\ At("await_booking") /\ answered
  /\ trip' = [trip EXCEPT !.stage = "confirm"]
  /\ answered' = FALSE /\ next' = "hotel"
  /\ UNCHANGED <<live, waiting, st, over, turn>>

Hotel == Step("hotel") /\ UNCHANGED trip
Mobility == Step("mobility") /\ UNCHANGED trip
Dining == Step("dining") /\ UNCHANGED trip

(* A reason the user gave, or a warning of the weather service.            *)
Weather ==
  /\ Step("weather")
  /\ \E warned \in BOOLEAN : trip' = [trip EXCEPT !.adverse = trip.reason \/ warned]

(* Clashing slots and late ends are left out by the greedy solver.         *)
Timeline ==
  /\ Step("timeline")
  /\ \E T \in SUBSET ((DOMAIN st.acts \cap Dated) \ over) : trip' = [trip EXCEPT !.timeline = T]

Issues == IF trip.timeline \cap over # {} THEN {"EXPIRED_ACTIVITY"} ELSE {}

Validate ==
  /\ At("validate") /\ Stay /\ UNCHANGED <<st, turn>>
  /\ trip' = [trip EXCEPT !.issues = Issues, !.attempts = @ + 1]
  /\ next' = RouteAfterValidate(Issues, trip.attempts + 1)

Compose ==
  /\ At("compose") /\ next' = "end"
  /\ trip' = [trip EXCEPT !.stage = "confirm"]
  /\ live' = FALSE
  /\ UNCHANGED <<waiting, answered, st, over, turn>>

(* The final gate raises: the stream ends with an error event.             *)
GateRefuses ==
  /\ At("compose") /\ live' = FALSE
  /\ UNCHANGED <<next, waiting, answered, st, trip, over, turn>>

------------------------------------------------------------------------------
(* The process dies or the stream is left: the last checkpoint stays.      *)
Crash ==
  /\ live /\ live' = FALSE
  /\ UNCHANGED <<next, waiting, answered, st, trip, over, turn>>

(* Time passes between the solver and the validator: an activity of the    *)
(* trip is over.  Earlier, the solver would have left it out.              *)
Elapse ==
  /\ next = "validate"
  /\ \E t \in Dated \ over : over' = over \cup {t}
  /\ UNCHANGED <<next, live, waiting, answered, st, trip, turn>>

Node ==
  \/ Parse \/ Discover \/ Research \/ Reflect \/ Transport \/ AwaitBooking \/ Booked
  \/ Hotel \/ Mobility \/ Dining \/ Weather \/ Timeline \/ Validate \/ Compose

Commands ==
  \/ \E hard \in BOOLEAN : Start(hard)
  \/ Resume
  \/ \E node \in ReplanFrom : Replan(node)
  \/ PrepareResearchMore("alternative", {})
  \/ \E locked \in {{}, DOMAIN st.acts} : PrepareResearchMore("extend", locked)
  \/ Continue

Next == Node \/ Commands \/ GateRefuses \/ Crash \/ Elapse

Spec == Init /\ [][Next]_vars /\ WF_vars(Node)

------------------------------------------------------------------------------
(* The shapes of the checkpoint's channels, and who may be waiting.        *)
TypeOK ==
  /\ next \in Nodes \cup {"none", "end"} /\ live \in BOOLEAN
  /\ waiting \in BOOLEAN /\ answered \in BOOLEAN
  /\ waiting => next = "await_booking" /\ ~answered
  /\ \A c \in {st.acts, st.base, st.judged, st.round} : IsCollection(c)
  /\ st.raw \in BOOLEAN /\ st.loop \in 0 .. MaxLoops /\ st.eval \in Evaluation
  /\ trip.timeline \subseteq Dated /\ over \subseteq Dated

Paused(kind) == waiting /\ turn.kind = kind

(* A request for more research is served by research: the pause that       *)
(* presents the next plan is not reached before a round ran, so that the   *)
(* feedback has become a query (graph.py prepare_research_more) -- unless  *)
(* the last thing the thread heard of the provider was an outage.          *)
FeedbackIsSearched ==
  Paused("more") /\ st.research.provider # "unavailable" => turn.rounds > 0

(* An extension keeps what the user accepted: the locked titles of the old *)
(* plan, or as many of it as are kept by default, are in the new one, also *)
(* when rounds found nothing, timed out or lost the provider -- unless the *)
(* last round raised (nodes.py _select_plan_candidates).                   *)
ExtensionKeepsPlan ==
  Paused("more") /\ st.mode = "extend" /\ ~turn.raised =>
    LET promised == st.locked \cap turn.before
        size == Cardinality(turn.before)
    IN  IF promised # {} THEN promised \subseteq DOMAIN st.acts
        ELSE Cardinality(turn.before \cap DOMAIN st.acts)
               >= (IF size < KeptByDefault THEN size ELSE KeptByDefault)

(* A lost provider never empties a plan: a turn that ends with its outage  *)
(* shows every activity the turn began with.                               *)
OutageKeepsPlan ==
  Paused("more") /\ st.outcome = "provider_unavailable" => turn.before \subseteq DOMAIN st.acts

(* Old cards are not passed off as new ones: outside an extension a turn   *)
(* reported as improved shows an activity the plan did not have before.    *)
ImprovementIsNew ==
  Paused("more") /\ st.outcome = "improved" /\ st.mode # "extend" =>
    ~(DOMAIN st.acts \subseteq turn.before)

(* Research stops as sufficient only when every required subgoal has its   *)
(* number of candidates the judge accepted, among those the plan had or    *)
(* the turn found: neither silence nor a suggestion counts.  A later turn  *)
(* that only replans begins with less: see GoalsKeptInPlan.                *)
Holding(S, g) == {t \in S : Meets[t] # {} /\ g \in Suggests[t] \cup Meets[t]}
SufficientIsCovered ==
  st.hard /\ st.stop = "quality_sufficient" /\ turn.kind \in {"start", "more"} =>
    \A g \in Goals :
      Cardinality(Holding(turn.before \cup DOMAIN st.judged, g)) >= TargetCount[g]

(* Each required subgoal keeps its candidates in the plan that was called  *)
(* sufficient (the design's selection rule and its property list).         *)
GoalsKeptInPlan ==
  st.hard /\ st.stop = "quality_sufficient" /\ next = "transport" =>
    \A g \in Goals : Cardinality(Holding(DOMAIN st.acts, g)) >= TargetCount[g]

(* Every stream comes to the pause, the end or an error. *)
TurnEnds == live ~> ~live
=============================================================================
