----------------------------- MODULE ResearchLoop -----------------------------
(***************************************************************************)
(* Deep research, research/service.py and research/supervisor.py: tasks    *)
(* are planned, searched for in parallel, their pages read for candidates  *)
(* and ingested as activities, what is new is verified, and rounds repeat  *)
(* until coverage, convergence or the deadline.  Work that is pending at   *)
(* the deadline is abandoned, not stopped: its threads go on as readers    *)
(* and checks of ActivityIngest after the research has reported.           *)
(***************************************************************************)
EXTENDS ActivityIngest, SequencesExt

CONSTANTS
  Wanted,        \* the subgoals of the request, a sequence
  Gaps,          \* how many follow-up queries the graph hands over
  RawPlans,      \* what the model may answer when asked for tasks; <<>> is an outage
  Tools,         \* the tools with a key
  Dated,         \* the pages that tell of a dated occurrence
  MaxTasks, MaxRounds, MinCoverage,   \* settings; the coverage in percent
  MaxVerified,   \* how many of a round's activities are verified, 5 in the code
  MaxCalls       \* bound: calls that are not answered from the cache

ASSUME ResearchAssumption ==
  /\ Dated \subseteq Pages /\ MaxTasks \in Nat \ {0} /\ MaxRounds \in Nat \ {0}
  /\ MinCoverage \in 0 .. 100 /\ MaxVerified \in Nat /\ MaxCalls \in Nat /\ Gaps \in Nat

VARIABLES
  loop,     \* the running research
  result,   \* what the last call returned
  cache,    \* the row of deep_research_cache for the request
  calls

researchVars == <<ingestVars, loop, result, cache, calls>>

Min2(a, b) == IF a < b THEN a ELSE b
Covered(tasks) == UNION {tasks[i].goals : i \in DOMAIN tasks}
PreferWeb(tools) == IF "web_search" \in tools THEN "web_search" ELSE "map_places"

(* A plan without subgoals gets them in turn; a subgoal no task covers     *)
(* gets a task while there is room; the rest is cut.                       *)
Tagged(tasks, goals) ==
  IF goals # <<>> /\ Covered(tasks) = {}
  THEN [i \in DOMAIN tasks |-> [tasks[i] EXCEPT !.goals = {goals[((i - 1) % Len(goals)) + 1]}]]
  ELSE tasks

Completed(tasks, goals, tools, max) ==
  LET missing == SelectSeq(goals, LAMBDA g : g \notin Covered(tasks))
      room == IF Len(tasks) >= max THEN 0 ELSE Min2(max - Len(tasks), Len(missing))
  IN  tasks \o [i \in 1 .. room |-> [tool |-> PreferWeb(tools), goals |-> {missing[i]}]]

(* Without a usable plan each gap, or else each subgoal, is a query.       *)
FallbackTasks(goals, gaps, tools, max) ==
  LET wanted == IF gaps > 0 THEN gaps ELSE IF goals # <<>> THEN Len(goals) ELSE 1
  IN  [i \in 1 .. Min2(wanted, max) |->
         [tool |-> PreferWeb(tools), goals |-> IF i <= Len(goals) THEN {goals[i]} ELSE {}]]

PlannedTasks(raw, goals, gaps, tools, max) ==
  LET usable == SelectSeq(raw, LAMBDA t : t.tool \in tools)
      all == Completed(Tagged(usable, goals), goals, tools, max)
  IN  IF usable = <<>> THEN FallbackTasks(goals, gaps, tools, max)
      ELSE SubSeq(all, 1, Min2(Len(all), max))

------------------------------------------------------------------------------
Phases == {"idle", "plan", "search", "extract", "ingest", "verify", "closing", "done"}
Running == loop.phase \notin {"idle", "done"}

NoLoop ==
  [phase |-> "idle", round |-> 1, late |-> FALSE, timedOut |-> FALSE, explicit |-> FALSE,
   tasks |-> <<>>, found |-> {}, hits |-> 0, seen |-> {}, cands |-> FALSE, grew |-> FALSE,
   sources |-> FALSE, asked |-> {}, ids |-> {}, fresh |-> {}, termination |-> "completed",
   heard |-> FALSE]

NoResult == [status |-> "none", ids |-> {}, cands |-> FALSE, provider |-> "ok"]
NoCache == [state |-> "none", ids |-> {}, cands |-> FALSE]

Init ==
  /\ IngestInit
  /\ loop = NoLoop /\ result = NoResult /\ cache = NoCache /\ calls = 0

(* A call is answered from the cache unless the graph asks for something   *)
(* else than before, and then as a success whatever was cached.            *)
Hit(refresh) == ~refresh /\ cache.state = "fresh"

CallHits ==
  /\ ~Running /\ Hit(FALSE)
  /\ result' = [status |-> "succeeded", ids |-> cache.ids, cands |-> cache.cands,
                provider |-> "ok"]
  /\ UNCHANGED <<loop, cache, calls, ingestVars>>

CallRuns ==
  /\ ~Running /\ calls < MaxCalls
  /\ \E refresh, explicit \in BOOLEAN :
       /\ ~Hit(refresh)
       /\ loop' = [NoLoop EXCEPT !.phase = "plan", !.explicit = explicit]
  /\ calls' = calls + 1 /\ result' = NoResult
  /\ UNCHANGED <<cache, ingestVars>>

Plan ==
  /\ loop.phase = "plan"
  /\ \E raw \in RawPlans :
       loop' = [loop EXCEPT !.tasks = PlannedTasks(raw, Wanted, Gaps, Tools, MaxTasks),
                            !.phase = "search"]
  /\ UNCHANGED <<result, cache, calls, ingestVars>>

Web == {i \in DOMAIN loop.tasks : loop.tasks[i].tool = "web_search"}
Map == DOMAIN loop.tasks \ Web

(* The clock may pass the deadline while a phase runs. *)
Clock == {l \in BOOLEAN : loop.late => l}

(* One answer per task: of the two web queries one is enough to be heard.  *)
(* Pages seen in an earlier round are not returned again.                  *)
Answers(late) ==
  {a \in [DOMAIN loop.tasks -> {"found", "empty", "failed", "pending"}] :
     (\E i \in DOMAIN a : a[i] = "pending") => late}
With(a, S, kind) == {i \in S : a[i] = kind}
PagesFor(hits) ==
  {P \in SUBSET {p \in Pages \ loop.seen : Idle(p)} :
     IF hits = {} THEN P = {} ELSE Cardinality(P) >= Cardinality(hits)}

(* Every web call that came back failed and nothing was found.             *)
Unavailable(a) ==
  /\ With(a, Web, "failed") # {}
  /\ \A i \in Web : a[i] \in {"failed", "pending"}

Search ==
  /\ loop.phase = "search" /\ ~loop.late
  /\ \E late \in Clock : \E a \in Answers(late) : \E P \in PagesFor(With(a, Web, "found")) :
       LET pending == With(a, DOMAIN a, "pending") # {}
           pois == With(a, Map, "found") # {}
       IN  loop' = [loop EXCEPT
             !.late = late, !.timedOut = @ \/ pending,
             !.found = P, !.hits = Cardinality(With(a, Web, "found")), !.seen = @ \cup P,
             !.cands = @ \/ pois, !.grew = pois, !.sources = @ \/ P # {} \/ pois,
             !.heard = @ \/ \E i \in Web : a[i] \in {"found", "empty"},
             !.phase = IF Unavailable(a) \/ pending THEN "closing" ELSE "extract",
             !.termination = IF Unavailable(a) THEN "provider_unavailable" ELSE @]
  /\ UNCHANGED <<result, cache, calls, ingestVars>>

RoundTooLate ==
  /\ loop.phase = "search" /\ loop.late
  /\ loop' = [loop EXCEPT !.timedOut = TRUE, !.phase = "closing"]
  /\ UNCHANGED <<result, cache, calls, ingestVars>>

(* With explicit subgoals nothing is ingested; else the pages of dated     *)
(* candidates are, or every page when no candidate was extracted.          *)
ToIngest(extracted) ==
  IF loop.explicit THEN {} ELSE IF extracted # {} THEN extracted \cap Dated ELSE loop.found

Extract ==
  /\ loop.phase = "extract"
  /\ \E late \in Clock : \E extracted \in SUBSET loop.found, cut \in BOOLEAN :
     \E asked \in SUBSET ToIngest(extracted) :
       /\ cut => late
       /\ asked # ToIngest(extracted) => late
       /\ loop' = [loop EXCEPT !.late = late, !.timedOut = @ \/ cut, !.asked = asked,
                               !.cands = @ \/ extracted # {}, !.grew = @ \/ extracted # {},
                               !.phase = "ingest"]
       /\ reader' = [p \in Pages |-> IF p \in asked THEN "started" ELSE reader[p]]
  /\ UNCHANGED <<rows, dup, check, word, selfExpired, result, cache, calls>>

\* Mutant: the ids of pages that are still being read are reported.
ReturnedEarly == {PrintOf[p] : p \in loop.asked}
ReturnedIds == UNION {Returned(p) : p \in loop.asked}
Waiting == \E p \in loop.asked : ~Idle(p)

(* What came back in time.  A map task counts as covered by any candidate. *)
Coverage == loop.hits + (IF loop.cands THEN Cardinality(Map) ELSE 0)

Verified(new) == {S \in SUBSET new : Cardinality(S) = Min2(Cardinality(new), MaxVerified)}

Collected ==
  LET new == ReturnedIds \ loop.ids
      converged == new = {} /\ ~loop.grew /\ loop.round > 1
  IN  /\ loop' = [loop EXCEPT !.timedOut = @ \/ Waiting, !.ids = @ \cup new, !.fresh = new,
                              !.phase = IF converged THEN "closing" ELSE "verify",
                              !.termination = IF converged THEN "converged" ELSE @]
      /\ \E S \in IF converged \/ loop.late THEN {{}} ELSE Verified(new) :
           check' = [f \in Prints |-> IF f \in S /\ check[f].at = "idle"
                                      THEN [check[f] EXCEPT !.at = "asked"] ELSE check[f]]
      /\ UNCHANGED <<rows, reader, dup, word, selfExpired, result, cache, calls>>

\* Mutant: the round waits for its pages as a with-block of the executor would.
CollectWaits == loop.phase = "ingest" /\ ~Waiting /\ Collected
Collect == loop.phase = "ingest" /\ (Waiting => loop.late) /\ Collected

Verifying == \E f \in loop.fresh : check[f].at # "idle"
Enough == (loop.fresh # {} \/ loop.grew) /\ 100 * Coverage >= MinCoverage * Len(loop.tasks)

EndRound ==
  /\ loop.phase = "verify" /\ (Verifying => loop.late)
  /\ loop' = IF loop.late \/ Enough \/ loop.round = MaxRounds
             THEN [loop EXCEPT !.timedOut = @ \/ loop.late, !.phase = "closing"]
             ELSE [loop EXCEPT !.round = @ + 1, !.phase = "search"]
  /\ UNCHANGED <<result, cache, calls, ingestVars>>

(* Of a research that is over the properties know whether a web query was  *)
(* answered, if there was one.                                             *)
Over == [NoLoop EXCEPT !.phase = "done", !.heard = loop.heard \/ Web = {}]

Termination ==
  IF loop.timedOut THEN "timeout"
  ELSE IF loop.termination = "provider_unavailable" THEN "provider_unavailable"
  ELSE IF ~loop.sources /\ ~loop.cands THEN "no_sources" ELSE loop.termination

\* Mutant: an outage is reported as an answer without results.
StatusOfAnswer ==
  CASE Termination = "timeout" -> IF loop.ids # {} THEN "partial" ELSE "timeout"
    [] OTHER -> IF loop.ids # {} \/ loop.cands THEN "succeeded" ELSE "no_results"

JobStatus ==
  CASE Termination = "provider_unavailable" -> "failed"
    [] Termination = "timeout" -> IF loop.ids # {} THEN "partial" ELSE "timeout"
    [] OTHER -> IF loop.ids # {} \/ loop.cands THEN "succeeded" ELSE "no_results"

(* Only what can be acted on is cached.                                    *)
Close ==
  /\ loop.phase = "closing"
  /\ result' = [status |-> JobStatus, ids |-> loop.ids, cands |-> loop.cands,
                provider |-> IF Termination = "provider_unavailable" THEN "unavailable" ELSE "ok"]
  /\ cache' = IF (loop.ids # {} \/ loop.cands) /\ JobStatus \in {"succeeded", "partial"}
              THEN [state |-> "fresh", ids |-> loop.ids, cands |-> loop.cands] ELSE cache
  /\ loop' = Over
  /\ UNCHANGED <<calls, ingestVars>>

Raises ==
  /\ Running
  /\ result' = [NoResult EXCEPT !.status = "failed", !.provider = "unavailable"]
  /\ loop' = Over
  /\ UNCHANGED <<cache, calls, ingestVars>>

DeadlinePasses ==
  /\ loop.phase \in {"search", "ingest", "verify"} /\ ~loop.late
  /\ loop' = [loop EXCEPT !.late = TRUE]
  /\ UNCHANGED <<result, cache, calls, ingestVars>>

CacheExpires ==
  /\ cache.state = "fresh"
  /\ cache' = [cache EXCEPT !.state = "stale"]
  /\ UNCHANGED <<loop, result, calls, ingestVars>>

LoopStep == Plan \/ Search \/ RoundTooLate \/ Extract \/ Collect \/ EndRound \/ Close

Next ==
  \/ CallHits \/ CallRuns \/ LoopStep \/ Raises \/ DeadlinePasses \/ CacheExpires
  \/ (PageStep \/ CheckStep) /\ UNCHANGED <<loop, result, cache, calls>>

(* The deadline is wall time; the loop waits for nothing beyond it.  What  *)
(* a page's thread waits for has no bound of its own.                      *)
Spec == Init /\ [][Next]_researchVars /\ WF_researchVars(LoopStep) /\ WF_researchVars(DeadlinePasses)

------------------------------------------------------------------------------
(* What a research reports is committed: no id of a page whose thread was  *)
(* abandoned or failed, from the run itself or from the cache              *)
(* (research/supervisor.py _bounded_parallel).                             *)
ReportIsStored == result.ids \subseteq {f \in Prints : Stored(f)}

(* "No results" is said of the world, never of the search service: some    *)
(* web query was answered (research/supervisor.py, provider_unavailable).  *)
NoResultsIsHonest == result.status = "no_results" => loop.heard

(* A research ends although the threads it started may hang for ever.      *)
CallEnds == Running ~> ~Running
=============================================================================
