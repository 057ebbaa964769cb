------------------------------ MODULE PlanChat ------------------------------
(***************************************************************************)
(* A plan of the chat-first web process, bff/app.py: one message after     *)
(* another changes its constraints, and what was computed from them must   *)
(* follow.  A message either prepares the checkpoint thread for more       *)
(* research, or moves the plan to a new thread that starts again, or does  *)
(* neither.  The chat commits in several steps; an exception or a crash    *)
(* between two of them leaves the earlier ones.  Chat and streams exclude  *)
(* each other by the plan's lock; the aggregation of a party does not      *)
(* take it.                                                                *)
(***************************************************************************)
EXTENDS TurnInterpretation, Naturals

CONSTANTS
  Turns,      \* what a user may say: [m |-> message, reading |-> reading]
  Forms,      \* constraints a plan may be created with
  Areas,      \* where companions set out
  MaxTurns    \* bound: messages, aggregations and commands

(* Constraints are functions from the fields they name. *)
ASSUME ChatAssumption ==
  MaxTurns \in Nat /\ \A c \in Forms : c = [f \in DOMAIN c |-> c[f]]

VARIABLES
  plan,       \* the plan's row: constraints and stage
  graph,      \* the checkpoint thread the plan points to
  shown,      \* the latest explore bundle
  slot,       \* the question the last answer of the conversation asked
  chat,       \* the message being answered
  stream,     \* the stream that runs, and whether /research-more has passed its check
  offer,      \* next_run of the last answer
  party,      \* areas the companions submitted, and the aggregation under way
  apart,      \* history: constraints changed in a way that starts nothing
  moved,      \* history: the route changed and the thread stayed
  turns

vars == <<plan, graph, shown, slot, chat, stream, offer, party, apart, moved, turns>>

(* next: "loop" is a node up to reflect, "tail" one behind it.  found is   *)
(* the route whose destinations come first, if any are discovered; told is *)
(* history: the bundle of the pause is stored.                             *)
NoThread == [next |-> "none", constraints |-> Nothing, found |-> Nothing, discovered |-> FALSE,
             feedback |-> FALSE, mode |-> "initial", told |-> FALSE]
NoPlan == [exists |-> FALSE, constraints |-> Nothing, stage |-> "explore"]
NotShown == [is |-> FALSE, basis |-> Nothing, draft |-> FALSE]
Quiet == [at |-> "idle"]

Init ==
  /\ plan = NoPlan /\ graph = NoThread /\ shown = NotShown /\ slot = "none"
  /\ chat = Quiet /\ stream = [runs |-> "none", asked |-> FALSE] /\ offer = "none"
  /\ party = [areas |-> {}, read |-> FALSE, base |-> Nothing]
  /\ apart = FALSE /\ moved = FALSE /\ turns = 0

Free == chat = Quiet /\ stream.runs = "none"
Counts == turns < MaxTurns /\ turns' = turns + 1

CreatePlan ==
  /\ ~plan.exists /\ Free
  /\ \E c \in Forms : plan' = [NoPlan EXCEPT !.exists = TRUE, !.constraints = c]
  /\ UNCHANGED <<graph, shown, slot, chat, stream, offer, party, apart, moved, turns>>

------------------------------------------------------------------------------
(* POST /plans/{id}/chat *)

Results == shown.is \/ graph.next # "none"

(* What the message adds to the constraints the chat has loaded: equal     *)
(* values are dropped, soft preferences accumulate.                        *)
Patch(current, said) ==
  LET soft == IF Has(said, "soft") /\ "soft" \in DOMAIN current
              THEN With(said, "soft", current["soft"] \cup said["soft"]) ELSE said
  IN  Without(soft, {f \in DOMAIN soft : f \in DOMAIN current /\ current[f] = soft[f]})

Requirements(c) == IF Has(c, "requirements") THEN c["requirements"] ELSE {}
RevisionMode(current, said) ==
  LET old == Requirements(current)
      new == Requirements(Over(current, said))
  IN  IF old # {} /\ old # new /\ old \subseteq new THEN "extend"
      ELSE IF DOMAIN said \cap {"requirements", "subgoals"} # {} THEN "replace" ELSE "alternative"

\* Mutant: a change of the origin is not a change of the route.
ChangesTarget(patch) == "target" \in DOMAIN patch
(* A research-only resume keeps the discovery of destinations, so a change *)
(* of the route must start a new thread.                                   *)
ChangesRoute(patch) == DOMAIN patch \cap RouteFields # {}

Decided(d, base) ==
  LET new == plan.exists /\ d.patch # Nothing
  IN  [at |-> "decided", d |-> d, base |-> base, constraints |-> base, results |-> Results,
       patch |-> IF new THEN Patch(base, d.patch) ELSE d.patch,
       mode |-> IF new THEN RevisionMode(base, d.patch) ELSE "alternative",
       local |-> Results /\ "recompose_plan" \in d.acts /\ "research_more" \notin d.acts,
       prepared |-> FALSE, restart |-> FALSE]

(* The row is loaded once; the session does not see what others commit     *)
(* while the model thinks.                                                 *)
ChatBegins ==
  /\ Free /\ Counts
  /\ \E t \in Turns :
       chat' = Decided(HandleTurn(t.m, t.reading, plan.constraints, slot, Results), plan.constraints)
  /\ offer' = "none"
  /\ UNCHANGED <<plan, graph, shown, slot, stream, party, apart, moved>>

(* The first message with constraints creates the plan.  The whole column  *)
(* is written from the loaded copy.                                        *)
ChatCommits ==
  /\ chat.at = "decided"
  /\ chat' = [chat EXCEPT !.at = "committed", !.constraints = Over(chat.base, chat.patch)]
  /\ IF chat.patch = Nothing THEN UNCHANGED plan
     ELSE plan' = [plan EXCEPT !.exists = TRUE, !.constraints = Over(chat.base, chat.patch)]
  /\ UNCHANGED <<graph, shown, slot, stream, offer, party, apart, moved, turns>>

Iterates == chat.d.feedback /\ plan.exists /\ chat.results /\ ~ChangesRoute(chat.patch)
Ready == plan.exists /\ ~Missing(chat.constraints)

Prepared(c) ==
  [graph EXCEPT !.next = "loop", !.constraints = c.constraints, !.feedback = TRUE, !.mode = c.mode]

\* Mutant: the checkpoint is counted as prepared before it is written.
ChatPreparesEarly ==
  /\ chat.at = "committed"
  /\ \E done \in IF Iterates /\ graph.next # "none" THEN BOOLEAN ELSE {FALSE} :
       /\ graph' = IF done THEN Prepared(chat) ELSE graph
       /\ chat' = [chat EXCEPT !.at = "prepared", !.prepared = Iterates /\ graph.next # "none",
                               !.restart = chat.d.feedback /\ ~Iterates /\ Ready]
  /\ UNCHANGED <<plan, shown, slot, stream, offer, party, apart, moved, turns>>

(* prepare_research_more may fail, and a thread that never ran has nothing *)
(* to go on from: then the chat offers a first run.                        *)
ChatPrepares ==
  /\ chat.at = "committed"
  /\ \E done \in IF Iterates /\ graph.next # "none" THEN BOOLEAN ELSE {FALSE} :
       /\ graph' = IF done THEN Prepared(chat) ELSE graph
       /\ chat' = [chat EXCEPT !.at = "prepared", !.prepared = done,
                               !.restart = chat.d.feedback /\ ~done /\ Ready]
  /\ UNCHANGED <<plan, shown, slot, stream, offer, party, apart, moved, turns>>

\* Mutant: only a change of the route starts again.
RenewsOnRoute ==
  /\ ChangesRoute(chat.patch) /\ Ready /\ ~chat.prepared /\ ~chat.local
  /\ chat.d.intent # "design_itinerary"
(* Whatever changed the constraints starts again, unless it was prepared,  *)
(* recomposed from the candidates at hand, or answered by a route card.    *)
Renews ==
  /\ chat.patch # Nothing /\ Ready /\ ~chat.prepared /\ ~chat.local
  /\ chat.d.intent # "design_itinerary"

\* What nothing is started for.
Bypasses ==
  /\ chat.patch # Nothing /\ ~chat.prepared
  /\ chat.local \/ chat.d.intent = "design_itinerary" \/ ~Ready

Stays == graph.next # "none" \/ stream.runs # "none"

ChatRenews ==
  /\ chat.at = "prepared"
  /\ IF Renews
     THEN /\ plan' = [plan EXCEPT !.stage = "explore"] /\ graph' = NoThread
          /\ chat' = [chat EXCEPT !.at = "renewed", !.restart = TRUE]
          /\ moved' = FALSE /\ UNCHANGED apart
     ELSE /\ chat' = [chat EXCEPT !.at = "renewed"] /\ UNCHANGED <<plan, graph>>
          /\ apart' = (apart \/ Bypasses)
          /\ moved' = (moved \/ (Bypasses /\ ChangesRoute(chat.patch) /\ Stays))
  /\ UNCHANGED <<shown, slot, stream, offer, party, turns>>

(* A recomposed draft is shown in a bundle of its own, over the candidates *)
(* of the one before.                                                      *)
Recomposes == chat.local /\ plan.exists /\ (chat.d.draft \/ shown.draft)

ChatAnswers ==
  /\ chat.at = "renewed"
  /\ chat' = Quiet
  /\ shown' = IF Recomposes THEN [shown EXCEPT !.is = TRUE, !.draft = TRUE] ELSE shown
  /\ slot' = IF plan.exists THEN chat.d.slot ELSE slot
  /\ offer' = IF ~plan.exists THEN "none"
              ELSE IF chat.prepared THEN "more"
              ELSE IF chat.restart THEN "stream"
              ELSE IF chat.d.weather THEN "replan" ELSE "none"
  /\ UNCHANGED <<plan, graph, stream, party, apart, moved, turns>>

(* Any exception is answered by an apology and a crash by nothing; what    *)
(* was committed stays.                                                    *)
Unsettled == chat.at \in {"committed", "prepared"} /\ chat.patch # Nothing /\ ~chat.prepared
ChatDegrades ==
  /\ chat # Quiet
  /\ chat' = Quiet
  /\ apart' = (apart \/ Unsettled)
  /\ moved' = (moved \/ (Unsettled /\ ChangesRoute(chat.patch) /\ Stays))
  /\ UNCHANGED <<plan, graph, shown, slot, stream, offer, party, turns>>

------------------------------------------------------------------------------
(* Streams hold the lock; the offer goes with whatever the user runs.      *)

Runs(kind) ==
  /\ Free /\ plan.exists /\ Counts
  /\ stream' = [runs |-> kind, asked |-> stream.asked /\ kind # "more"]
  /\ offer' = "none"
Ends == stream' = [stream EXCEPT !.runs = "none"]

(* The thread is given everything anew, except the destinations: their     *)
(* list has a reducer that appends, so the empty list of _initial_state    *)
(* clears nothing, and whoever asks for the destination takes the first.   *)
Stream ==
  /\ Runs("start")
  /\ graph' = [next |-> "loop", constraints |-> plan.constraints, found |-> graph.found,
               discovered |-> graph.discovered, feedback |-> FALSE, mode |-> "initial", told |-> FALSE]
  /\ apart' = FALSE
  /\ UNCHANGED <<plan, shown, slot, chat, party, moved>>

(* 409 when nothing waits to be researched.  The check is made before the  *)
(* lock is taken, and may be out of date when the stream runs.             *)
ResearchMoreChecks ==
  /\ graph.feedback /\ ~stream.asked
  /\ stream' = [stream EXCEPT !.asked = TRUE]
  /\ UNCHANGED <<plan, graph, shown, slot, chat, offer, party, apart, moved, turns>>

ResearchMoreIsBusy ==
  /\ stream.asked /\ ~Free
  /\ stream' = [stream EXCEPT !.asked = FALSE]
  /\ UNCHANGED <<plan, graph, shown, slot, chat, offer, party, apart, moved, turns>>

ResearchMore ==
  /\ stream.asked
  /\ Runs("more")
  /\ UNCHANGED <<plan, graph, shown, slot, chat, party, apart, moved>>

Resume ==
  /\ graph.next = "waiting"
  /\ Runs("resume")
  /\ graph' = [graph EXCEPT !.next = "tail"]
  /\ UNCHANGED <<plan, shown, slot, chat, party, apart, moved>>

(* From any node the body names.                                           *)
Replan ==
  /\ graph.next # "none"
  /\ Runs("replan")
  /\ \E next \in {"loop", "tail"} : graph' = [graph EXCEPT !.next = next]
  /\ UNCHANGED <<plan, shown, slot, chat, party, apart, moved>>

(* The node of discovery comes before research, but a prepared thread goes *)
(* on behind it.                                                           *)
Discovers ==
  /\ stream.runs # "none" /\ graph.next = "loop" /\ ~graph.discovered
  /\ graph.feedback => stream.runs = "replan"
  /\ graph' = [graph EXCEPT !.discovered = TRUE, !.found = Route(graph.constraints)]
  /\ UNCHANGED <<plan, shown, slot, chat, stream, offer, party, apart, moved, turns>>

(* The checkpoint in front of the pause.  Reflect consumed the feedback; a *)
(* timeline whose way back is too tight comes here from behind it.         *)
Pauses ==
  /\ stream.runs # "none"
  /\ \/ graph.next = "loop" /\ (graph.discovered \/ graph.feedback \/ stream.runs = "replan")
     \/ graph.next = "tail"
  /\ graph' = [graph EXCEPT !.next = "waiting", !.told = FALSE,
                            !.feedback = graph.next = "tail" /\ graph.feedback]
  /\ UNCHANGED <<plan, shown, slot, chat, stream, offer, party, apart, moved, turns>>

(* Then the interrupt: its bundle is stored in a transaction of its own.   *)
(* A thread that waits already is interrupted again.                       *)
StoresBundle ==
  /\ stream.runs # "none" /\ graph.next = "waiting"
  /\ \E draft \in BOOLEAN : shown' = [is |-> TRUE, basis |-> graph.constraints, draft |-> draft]
  /\ plan' = [plan EXCEPT !.stage = "await_booking"]
  /\ graph' = [graph EXCEPT !.told = TRUE]
  /\ slot' = "none" /\ Ends
  /\ UNCHANGED <<chat, offer, party, apart, moved, turns>>

(* What compose returns is streamed and stored before its checkpoint is.   *)
Confirms ==
  /\ stream.runs # "none" /\ graph.next = "tail" /\ plan.stage # "confirm"
  /\ plan' = [plan EXCEPT !.stage = "confirm"]
  /\ UNCHANGED <<graph, shown, slot, chat, stream, offer, party, apart, moved, turns>>

Completes ==
  /\ stream.runs # "none" /\ graph.next = "tail" /\ plan.stage = "confirm"
  /\ graph' = [graph EXCEPT !.next = "end"]
  /\ Ends
  /\ UNCHANGED <<plan, shown, slot, chat, offer, party, apart, moved, turns>>

(* A thread that was replanned over its feedback has come to its end, and  *)
(* a new one has not begun: running it on does nothing.                    *)
NothingToRun ==
  /\ stream.runs = "more" /\ graph.next \in {"end", "none"}
  /\ Ends
  /\ UNCHANGED <<plan, graph, shown, slot, chat, offer, party, apart, moved, turns>>

(* A node raises, an event cannot be stored, the client leaves or the      *)
(* process dies: the checkpoint is that of the last node.                  *)
StreamBreaks ==
  /\ stream.runs # "none"
  /\ Ends
  /\ UNCHANGED <<plan, graph, shown, slot, chat, offer, party, apart, moved, turns>>

(* POST /plans/{id}/revise writes any values into the thread and runs it   *)
(* to a pause, an end or an exception, and stores nothing of it.           *)
Revise ==
  /\ Free /\ graph.next # "none" /\ Counts
  /\ \E c \in Forms \cup {graph.constraints}, next \in {"loop", "waiting", "tail", "end"}, feedback \in BOOLEAN :
       graph' = [graph EXCEPT !.next = next, !.constraints = c, !.feedback = feedback, !.told = FALSE]
  /\ offer' = "none" /\ apart' = TRUE /\ moved' = TRUE
  /\ UNCHANGED <<plan, shown, slot, chat, stream, party>>

------------------------------------------------------------------------------
(* Companions, without the lock. *)

Submit ==
  /\ plan.exists
  /\ \E a \in Areas \ party.areas : party' = [party EXCEPT !.areas = @ \cup {a}]
  /\ UNCHANGED <<plan, graph, shown, slot, chat, stream, offer, apart, moved, turns>>

AggregateReads ==
  /\ party.areas # {} /\ ~party.read /\ Counts
  /\ party' = [party EXCEPT !.read = TRUE, !.base = With(plan.constraints, "origins", party.areas)]
  /\ UNCHANGED <<plan, graph, shown, slot, chat, stream, offer, apart, moved>>

AggregateCommits ==
  /\ party.read
  /\ party' = [party EXCEPT !.read = FALSE, !.base = Nothing]
  /\ plan' = [plan EXCEPT !.constraints = party.base]
  /\ apart' = (apart \/ party.base # plan.constraints)
  /\ moved' = (moved \/ (Route(party.base) # Route(plan.constraints) /\ Stays))
  /\ UNCHANGED <<graph, shown, slot, chat, stream, offer, turns>>

Chat == ChatBegins \/ ChatCommits \/ ChatPrepares \/ ChatRenews \/ ChatAnswers \/ ChatDegrades
Streams ==
  \/ Stream \/ ResearchMoreChecks \/ ResearchMoreIsBusy \/ ResearchMore \/ Resume \/ Replan
  \/ Discovers \/ Pauses \/ StoresBundle \/ Confirms \/ Completes
  \/ NothingToRun \/ StreamBreaks \/ Revise
Party == Submit \/ AggregateReads \/ AggregateCommits

Next == CreatePlan \/ Chat \/ Streams \/ Party
Spec == Init /\ [][Next]_vars

------------------------------------------------------------------------------
(* The plan that waits for bookings was computed from the constraints the  *)
(* plan now has: a message that changed them prepared its thread or left   *)
(* it for a new one (app.py, "any change of constraints resets the graph"), *)
(* and so was the bundle that is shown, once that of the pause is stored.  *)
(* Route cards, recomposed drafts, cleared origins, degraded answers, the  *)
(* aggregation of a party and /revise are the ways around it, and apart    *)
(* tells; a stream that breaks before it has stored the bundle leaves an   *)
(* older one, and told tells.                                              *)
BookedPlanIsCurrent ==
  graph.next = "waiting" /\ Free /\ ~apart =>
    /\ graph.constraints = plan.constraints
    /\ graph.told => shown.basis = plan.constraints

(* Research that goes on keeps the destinations the thread discovered, so  *)
(* they are those of the route it is asked for (app.py, the set of keys    *)
(* that require a full replan).  moved excepts a route that was changed    *)
(* and left its thread in place, by whatever apart names.                  *)
ContinuesOnItsRoute ==
  graph.feedback /\ graph.discovered /\ ~moved => graph.found = Route(graph.constraints)

(* The research an answer offers is there to be run: /research-more does   *)
(* not refuse what the chat has just announced.                            *)
OfferIsServed == offer = "more" => graph.feedback /\ graph.next = "loop"

------------------------------------------------------------------------------
(* What the code's own words promise and TLC refutes (README, section 5).  *)

(* "There is no earlier result to iterate on" is the answer to a thread    *)
(* without results (app.py); but constraints in its checkpoint are counted *)
(* as results, and a stream that broke before discovery left only those.   *)
IteratesOnResults == graph.feedback /\ ~moved => graph.discovered

(* A change of the route must start a new thread and discover again        *)
(* (app.py, the comment above that set of keys).  The aggregation of a     *)
(* party does not, and discovery appends to what the thread has: the next  *)
(* stream searches the first destinations.                                 *)
SearchesItsRoute ==
  graph.next = "waiting" /\ Free /\ ~apart /\ graph.discovered => graph.found = Route(graph.constraints)
=============================================================================
