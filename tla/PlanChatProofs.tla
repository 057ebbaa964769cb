--------------------------- MODULE PlanChatProofs ---------------------------
(* Theorems about PlanChat, for anything users may say, any plans and any   *)
(* number of turns; about the trips a plan is solved for (TripRules), for   *)
(* any party and any activities; and about the itinerary of a reply         *)
(* (DraftRepair), for any candidates, goals and drafts.                     *)
EXTENDS PlanChat, TripRules, DraftRepair, FiniteSetTheorems, SequenceTheorems, TLAPS

-----------------------------------------------------------------------------
(* Records and patches.                                                     *)

IsFcn(c) == c = [f \in DOMAIN c |-> c[f]]

Stages == {"decided", "committed", "prepared", "renewed"}

\* The variables are records of their fields, and constraints are functions.
ShapeOK ==
  /\ plan = [exists |-> plan.exists, constraints |-> plan.constraints, stage |-> plan.stage]
  /\ graph = [next |-> graph.next, constraints |-> graph.constraints, found |-> graph.found,
              discovered |-> graph.discovered, feedback |-> graph.feedback, mode |-> graph.mode,
              told |-> graph.told]
  /\ shown = [is |-> shown.is, basis |-> shown.basis, draft |-> shown.draft]
  /\ stream = [runs |-> stream.runs, asked |-> stream.asked]
  /\ party = [areas |-> party.areas, read |-> party.read, base |-> party.base]
  /\ chat # Quiet =>
       /\ chat = [at |-> chat.at, d |-> chat.d, base |-> chat.base,
                  constraints |-> chat.constraints, results |-> chat.results,
                  patch |-> chat.patch, mode |-> chat.mode, local |-> chat.local,
                  prepared |-> chat.prepared, restart |-> chat.restart]
       /\ chat.at \in Stages
       /\ IsFcn(chat.base)
  /\ IsFcn(plan.constraints) /\ IsFcn(party.base)
  /\ apart \in BOOLEAN /\ moved \in BOOLEAN /\ plan.exists \in BOOLEAN
  /\ graph.feedback \in BOOLEAN /\ graph.discovered \in BOOLEAN /\ graph.told \in BOOLEAN

\* The empty patch is a function, and a merge is one.
LEMMA PatchesAreFcn ==
  /\ IsFcn(Nothing) /\ DOMAIN Nothing = {}
  /\ \A old, new : IsFcn(Over(old, new))
  /\ \A c, f, v : IsFcn(With(c, f, v))
<1>1. IsFcn(Nothing) /\ DOMAIN Nothing = {}
  BY DEF IsFcn, Nothing
<1>2. \A old, new : IsFcn(Over(old, new))
  BY DEF IsFcn, Over
<1> QED BY <1>1, <1>2 DEF With

\* Merging nothing changes nothing.
LEMMA OverNothing ==
  ASSUME NEW c, IsFcn(c)
  PROVE  Over(c, Nothing) = c
<1>1. DOMAIN c \cup DOMAIN Nothing = DOMAIN c
  BY PatchesAreFcn
<1>2. Over(c, Nothing) = [f \in DOMAIN c |-> c[f]]
  BY <1>1, PatchesAreFcn DEF Over
<1> QED BY <1>2 DEF IsFcn

\* A patch without a field of the route leaves the route alone.
LEMMA RouteKept ==
  ASSUME NEW c, NEW patch, ~ChangesRoute(patch)
  PROVE  Route(Over(c, patch)) = Route(c)
<1> DEFINE n == Over(c, patch)
<1>1. n = [f \in DOMAIN c \cup DOMAIN patch |-> IF f \in DOMAIN patch THEN patch[f] ELSE c[f]]
  BY DEF Over
<1>2. \A f \in RouteFields : f \notin DOMAIN patch
  BY DEF ChangesRoute
<1>3. \A f \in RouteFields : /\ f \in DOMAIN n <=> f \in DOMAIN c
                             /\ f \in DOMAIN c => n[f] = c[f]
  BY <1>1, <1>2
<1> HIDE DEF n
<1>4. \A f \in RouteFields : Has(n, f) <=> Has(c, f)
  BY <1>3 DEF Has
<1>5. {f \in RouteFields : Has(n, f)} = {f \in RouteFields : Has(c, f)}
  BY <1>4
<1>6. \A f \in {g \in RouteFields : Has(c, g)} : n[f] = c[f]
  BY <1>3 DEF Has
<1> QED BY <1>5, <1>6 DEF Route, n

-----------------------------------------------------------------------------
(* A message is answered while nothing streams, and an offer stands only    *)
(* between them.                                                            *)

OneAtATime ==
  /\ chat = Quiet \/ stream.runs = "none"
  /\ chat # Quiet \/ stream.runs # "none" => offer = "none"

\* A thread that was prepared waits with its feedback until it is run.
PreparedWaits ==
  /\ chat # Quiet /\ chat.prepared =>
       /\ chat.at \in {"prepared", "renewed"} /\ graph.feedback /\ graph.next = "loop"
       /\ ~ChangesRoute(chat.patch)
  /\ graph.feedback \/ graph.discovered => graph.next # "none"
  /\ ~plan.exists => graph.next = "none"

(* The thread.  apart is history: while it is FALSE, the thread is about    *)
(* the constraints of the plan, but for the time between a message's first  *)
(* commit and the step that prepares or renews.                             *)
Settled ==
  \/ chat = Quiet
  \/ chat.at \in {"decided", "renewed"}
  \/ chat.patch = Nothing \/ chat.prepared

ThreadFits ==
  /\ chat # Quiet => chat.constraints = IF chat.at = "decided" THEN chat.base ELSE Over(chat.base, chat.patch)
  /\ chat # Quiet /\ ~apart => plan.constraints = chat.constraints
  /\ graph.next = "waiting" /\ graph.told => shown.basis = graph.constraints
  /\ ~apart /\ graph.next # "none" =>
       /\ Settled => graph.constraints = plan.constraints
       /\ chat # Quiet /\ chat.at = "committed" => graph.constraints = chat.base

(* The route.  While moved is FALSE, the destinations of the thread are     *)
(* those of the plan's route, but for the time between the first commit of  *)
(* a message that changes it and the step that renews.                      *)
RouteSettled == chat = Quiet \/ chat.at \in {"decided", "renewed"} \/ ~ChangesRoute(chat.patch)

RouteFits ==
  graph.next # "none" /\ ~moved =>
    /\ graph.discovered => graph.found = Route(graph.constraints)
    /\ RouteSettled => Route(graph.constraints) = Route(plan.constraints)
    /\ chat # Quiet => Route(graph.constraints) = Route(chat.base)

ChatInv == ShapeOK /\ OneAtATime /\ PreparedWaits /\ ThreadFits /\ RouteFits

LEMMA InitChat == Init => ChatInv
<1> SUFFICES ASSUME Init PROVE ChatInv
  OBVIOUS
<1>1. ShapeOK
  BY PatchesAreFcn DEF Init, ShapeOK, NoPlan, NoThread, NotShown, Quiet
<1>2. OneAtATime /\ PreparedWaits /\ ThreadFits /\ RouteFits
  BY DEF Init, OneAtATime, PreparedWaits, ThreadFits, RouteFits, NoPlan, NoThread
<1> QED BY <1>1, <1>2 DEF ChatInv

\* A step that touches neither the constraints, the thread, the bundle nor
\* the message, and starts nothing while a message is being answered.
LEMMA QuietStep ==
  ASSUME ChatInv,
         plan'.exists = plan.exists /\ plan'.constraints = plan.constraints,
         graph' = graph, shown' = shown, chat' = chat,
         apart' = apart, moved' = moved, offer' = offer \/ offer' = "none",
         stream'.runs \in {stream.runs, "none"} \/ (chat = Quiet /\ offer' = "none"),
         plan' = [exists |-> plan'.exists, constraints |-> plan'.constraints, stage |-> plan'.stage],
         stream' = [runs |-> stream'.runs, asked |-> stream'.asked],
         party' = [areas |-> party'.areas, read |-> party'.read, base |-> party'.base],
         IsFcn(party'.base)
  PROVE  ChatInv'
<1> USE DEF ChatInv
<1>1. ShapeOK'
  BY DEF ShapeOK, IsFcn
<1>2. OneAtATime'
  BY DEF OneAtATime
<1>3. PreparedWaits'
  BY DEF PreparedWaits
<1>4. ThreadFits'
  BY DEF ThreadFits, Settled
<1>5. RouteFits'
  BY DEF RouteFits, RouteSettled
<1> QED BY <1>1, <1>2, <1>3, <1>4, <1>5

\* The plan is created, a message is read, and its patch is committed.
LEMMA ChatStarts ==
  ASSUME ChatInv, CreatePlan \/ ChatBegins \/ ChatCommits
  PROVE  ChatInv'
<1> USE DEF ChatInv
<1>1. CASE CreatePlan
  <2>1. PICK c \in Forms : plan' = [NoPlan EXCEPT !.exists = TRUE, !.constraints = c]
    BY <1>1 DEF CreatePlan
  <2>2. /\ plan' = [exists |-> TRUE, constraints |-> c, stage |-> "explore"]
        /\ IsFcn(c)
    BY <2>1, ChatAssumption DEF NoPlan, IsFcn
  <2>3. /\ UNCHANGED <<graph, shown, slot, chat, stream, offer, party, apart, moved>>
        /\ ~plan.exists /\ chat = Quiet /\ stream.runs = "none"
    BY <1>1 DEF CreatePlan, Free
  <2>4. ShapeOK'
    BY <2>2, <2>3 DEF ShapeOK, IsFcn
  <2>5. OneAtATime' /\ PreparedWaits'
    BY <2>2, <2>3 DEF OneAtATime, PreparedWaits
  <2>6. ThreadFits' /\ RouteFits'
    BY <2>2, <2>3 DEF ThreadFits, RouteFits, PreparedWaits
  <2> QED BY <2>4, <2>5, <2>6
<1>2. CASE ChatBegins
  <2>1. PICK t \in Turns :
          chat' = Decided(HandleTurn(t.m, t.reading, plan.constraints, slot, Results), plan.constraints)
    BY <1>2 DEF ChatBegins
  <2>2. PICK d, r, p, m, l :
           chat' = [at |-> "decided", d |-> d, base |-> plan.constraints,
                    constraints |-> plan.constraints, results |-> r, patch |-> p,
                    mode |-> m, local |-> l, prepared |-> FALSE, restart |-> FALSE]
    BY <2>1, ZenonT(40) DEF Decided
  <2>3. /\ chat'.at = "decided" /\ chat'.d = d /\ chat'.base = plan.constraints
        /\ chat'.constraints = plan.constraints /\ chat'.results = r /\ chat'.patch = p
        /\ chat'.mode = m /\ chat'.local = l /\ chat'.prepared = FALSE /\ chat'.restart = FALSE
    BY <2>2
  <2>4. /\ UNCHANGED <<plan, graph, shown, slot, stream, party, apart, moved>>
        /\ chat = Quiet /\ stream.runs = "none" /\ offer' = "none"
    BY <1>2 DEF ChatBegins, Free
  <2>5. ShapeOK'
    BY <2>2, <2>3, <2>4 DEF ShapeOK, Stages, IsFcn
  <2>6. OneAtATime' /\ PreparedWaits'
    BY <2>3, <2>4 DEF OneAtATime, PreparedWaits
  <2>7. ThreadFits'
    BY <2>3, <2>4 DEF ThreadFits, Settled
  <2>8. RouteFits'
    BY <2>3, <2>4 DEF RouteFits, RouteSettled
  <2> QED BY <2>5, <2>6, <2>7, <2>8
<1>3. CASE ChatCommits
  <2> DEFINE c == Over(chat.base, chat.patch)
  <2>1. /\ UNCHANGED <<graph, shown, slot, stream, offer, party, apart, moved>>
        /\ chat # Quiet /\ chat.at = "decided" /\ ~chat.prepared
    BY <1>3 DEF ChatCommits, Quiet, PreparedWaits
  <2>2. /\ chat'.at = "committed" /\ chat'.d = chat.d /\ chat'.base = chat.base
        /\ chat'.constraints = c /\ chat'.results = chat.results /\ chat'.patch = chat.patch
        /\ chat'.mode = chat.mode /\ chat'.local = chat.local
        /\ chat'.prepared = chat.prepared /\ chat'.restart = chat.restart
        /\ chat' = [at |-> "committed", d |-> chat.d, base |-> chat.base,
                    constraints |-> c, results |-> chat.results, patch |-> chat.patch,
                    mode |-> chat.mode, local |-> chat.local,
                    prepared |-> chat.prepared, restart |-> chat.restart]
        /\ chat' # Quiet
    <3>1. chat' = [chat EXCEPT !.at = "committed", !.constraints = c]
      BY <1>3 DEF ChatCommits
    <3> HIDE DEF c
    <3>2. chat' = [at |-> "committed", d |-> chat.d, base |-> chat.base,
                   constraints |-> c, results |-> chat.results, patch |-> chat.patch,
                   mode |-> chat.mode, local |-> chat.local,
                   prepared |-> chat.prepared, restart |-> chat.restart]
      BY <2>1, <3>1 DEF ShapeOK
    <3> QED BY <3>2 DEF Quiet
  <2>3. /\ IsFcn(c) /\ IsFcn(chat.base)
        /\ chat.patch = Nothing => c = chat.base
    BY <2>1, PatchesAreFcn, OverNothing DEF ShapeOK
  <2>4. /\ plan' = [exists |-> plan'.exists, constraints |-> plan'.constraints, stage |-> plan'.stage]
        /\ plan'.exists \in BOOLEAN /\ IsFcn(plan'.constraints)
        /\ plan.exists => plan'.exists
        /\ plan'.constraints = IF chat.patch = Nothing THEN plan.constraints ELSE c
    <3>1. CASE chat.patch = Nothing
      BY <1>3, <3>1 DEF ChatCommits, ShapeOK
    <3>2. CASE chat.patch # Nothing
      <4>1. plan' = [plan EXCEPT !.exists = TRUE, !.constraints = c]
        BY <1>3, <3>2 DEF ChatCommits
      <4>2. plan' = [exists |-> TRUE, constraints |-> c, stage |-> plan.stage]
        BY <4>1 DEF ShapeOK
      <4> QED BY <2>3, <3>2, <4>2
    <3> QED BY <3>1, <3>2
  <2> HIDE DEF c
  <2>5. ShapeOK'
    BY <2>1, <2>2, <2>3, <2>4 DEF ShapeOK, Stages, IsFcn
  <2>6. OneAtATime' /\ PreparedWaits'
    BY <2>1, <2>2, <2>4 DEF OneAtATime, PreparedWaits
  <2>7. ThreadFits'
    BY <2>1, <2>2, <2>3, <2>4 DEF ThreadFits, Settled, c
  <2>8. ~ChangesRoute(chat.patch) => Route(c) = Route(chat.base)
    BY RouteKept DEF c
  <2>9. RouteFits'
    BY <2>1, <2>2, <2>4, <2>8 DEF RouteFits, RouteSettled
  <2> QED BY <2>5, <2>6, <2>7, <2>9
<1> QED BY <1>1, <1>2, <1>3

\* The thread is prepared for more research, or left alone.  What a research
\* run keeps of it was found for the route it is prepared with.
LEMMA PreparesKeeps ==
  ASSUME ChatInv, ChatPrepares
  PROVE  ChatInv'
<1> USE DEF ChatInv
<1>1. PICK done \in IF Iterates /\ graph.next # "none" THEN BOOLEAN ELSE {FALSE} :
        /\ graph' = IF done THEN Prepared(chat) ELSE graph
        /\ chat' = [chat EXCEPT !.at = "prepared", !.prepared = done,
                                !.restart = chat.d.feedback /\ ~done /\ Ready]
  BY DEF ChatPrepares
<1>2. /\ UNCHANGED <<plan, shown, slot, stream, offer, party, apart, moved>>
      /\ chat # Quiet /\ chat.at = "committed" /\ ~chat.prepared
      /\ chat.constraints = Over(chat.base, chat.patch)
  BY DEF ChatPrepares, Quiet, PreparedWaits, ThreadFits
<1>3. PICK b :
         chat' = [at |-> "prepared", d |-> chat.d, base |-> chat.base,
                  constraints |-> chat.constraints, results |-> chat.results,
                  patch |-> chat.patch, mode |-> chat.mode, local |-> chat.local,
                  prepared |-> done, restart |-> b]
  BY <1>1, <1>2 DEF ShapeOK
<1>4. /\ chat'.at = "prepared" /\ chat'.d = chat.d /\ chat'.base = chat.base
      /\ chat'.constraints = chat.constraints /\ chat'.results = chat.results
      /\ chat'.patch = chat.patch /\ chat'.mode = chat.mode /\ chat'.local = chat.local
      /\ chat'.prepared = done /\ chat'.restart = b /\ chat' # Quiet
  BY <1>3 DEF Quiet
<1>5. CASE done
  <2>1. Iterates /\ graph.next # "none" /\ done = TRUE
    BY <1>1, <1>5
  <2>2. /\ graph' = [next |-> "loop", constraints |-> chat.constraints, found |-> graph.found,
                     discovered |-> graph.discovered, feedback |-> TRUE, mode |-> chat.mode,
                     told |-> graph.told]
        /\ plan.exists /\ ~ChangesRoute(chat.patch)
    BY <1>1, <1>5, <2>1 DEF Prepared, Iterates, ShapeOK
  <2>3. ShapeOK'
    BY <1>2, <1>3, <1>4, <2>2 DEF ShapeOK, Stages, IsFcn
  <2>4. OneAtATime' /\ PreparedWaits'
    BY <1>2, <1>4, <2>2 DEF OneAtATime, PreparedWaits
  <2>5. ThreadFits'
    BY <1>2, <1>4, <2>2 DEF ThreadFits, Settled
  <2>6. Route(chat.constraints) = Route(chat.base)
    BY <1>2, <2>2, RouteKept
  <2>7. /\ graph'.constraints = chat.constraints /\ graph'.found = graph.found
        /\ graph'.discovered = graph.discovered
    BY <2>2
  <2>8. RouteFits'
    BY <1>2, <1>4, <2>1, <2>2, <2>6, <2>7 DEF RouteFits, RouteSettled
  <2> QED BY <2>3, <2>4, <2>5, <2>8
<1>6. CASE ~done
  <2>1. graph' = graph /\ done = FALSE
    BY <1>1, <1>6
  <2>2. ShapeOK'
    BY <1>2, <1>3, <1>4, <2>1 DEF ShapeOK, Stages, IsFcn
  <2>3. OneAtATime' /\ PreparedWaits'
    BY <1>2, <1>4, <2>1 DEF OneAtATime, PreparedWaits
  <2>4. chat.patch = Nothing => chat.constraints = chat.base
    BY <1>2, OverNothing DEF ShapeOK
  <2>5. ThreadFits'
    BY <1>2, <1>4, <2>1, <2>4 DEF ThreadFits, Settled
  <2>6. RouteFits'
    BY <1>2, <1>4, <2>1 DEF RouteFits, RouteSettled
  <2> QED BY <2>2, <2>3, <2>5, <2>6
<1> QED BY <1>5, <1>6

\* A change that was not prepared moves the plan to a new thread, unless it
\* is one of those that start nothing, which apart records.
LEMMA RenewsKeeps ==
  ASSUME ChatInv, ChatRenews
  PROVE  ChatInv'
<1> USE DEF ChatInv
<1>1. /\ UNCHANGED <<shown, slot, stream, offer, party>>
      /\ chat # Quiet /\ chat.at = "prepared"
  BY DEF ChatRenews, Quiet
<1>2. PICK b :
         chat' = [at |-> "renewed", d |-> chat.d, base |-> chat.base,
                  constraints |-> chat.constraints, results |-> chat.results,
                  patch |-> chat.patch, mode |-> chat.mode, local |-> chat.local,
                  prepared |-> chat.prepared, restart |-> b]
  <2>1. CASE chat' = [chat EXCEPT !.at = "renewed", !.restart = TRUE]
    BY <1>1, <2>1 DEF ShapeOK
  <2>2. CASE chat' = [chat EXCEPT !.at = "renewed"]
    BY <1>1, <2>2 DEF ShapeOK
  <2> QED BY <2>1, <2>2 DEF ChatRenews
<1>3. /\ chat'.at = "renewed" /\ chat'.d = chat.d /\ chat'.base = chat.base
      /\ chat'.constraints = chat.constraints /\ chat'.results = chat.results
      /\ chat'.patch = chat.patch /\ chat'.mode = chat.mode /\ chat'.local = chat.local
      /\ chat'.prepared = chat.prepared /\ chat'.restart = b /\ chat' # Quiet
  BY <1>2 DEF Quiet
<1>4. CASE Renews
  <2>1. graph' = NoThread /\ apart' = apart /\ moved' = FALSE /\ ~chat.prepared
    BY <1>4 DEF ChatRenews, Renews
  <2>2. plan' = [exists |-> plan.exists, constraints |-> plan.constraints, stage |-> "explore"]
    BY <1>4 DEF ChatRenews, ShapeOK
  <2>3. ShapeOK'
    BY <1>1, <1>2, <1>3, <2>1, <2>2 DEF ShapeOK, Stages, IsFcn, NoThread
  <2>4. OneAtATime' /\ PreparedWaits'
    BY <1>1, <1>3, <2>1, <2>2 DEF OneAtATime, PreparedWaits, NoThread
  <2>5. ThreadFits' /\ RouteFits'
    BY <1>1, <1>3, <2>1, <2>2 DEF ThreadFits, RouteFits, NoThread
  <2> QED BY <2>3, <2>4, <2>5
<1>5. CASE ~Renews
  <2>1. /\ UNCHANGED <<plan, graph>> /\ apart' = (apart \/ Bypasses)
        /\ moved' = (moved \/ (Bypasses /\ ChangesRoute(chat.patch) /\ Stays))
    BY <1>5 DEF ChatRenews
  <2>2. /\ apart' \in BOOLEAN /\ (~apart' => ~apart /\ ~Bypasses)
        /\ moved' \in BOOLEAN
        /\ ~moved' => ~moved /\ ~(Bypasses /\ ChangesRoute(chat.patch) /\ Stays)
    BY <2>1 DEF ShapeOK
  <2>3. ~apart' => Settled
    BY <1>5, <2>2 DEF Renews, Bypasses, Settled
  <2>4. ShapeOK'
    BY <1>1, <1>2, <1>3, <2>1, <2>2 DEF ShapeOK, Stages, IsFcn
  <2>5. OneAtATime' /\ PreparedWaits'
    BY <1>1, <1>3, <2>1 DEF OneAtATime, PreparedWaits
  <2>6. ThreadFits'
    BY <1>1, <1>3, <2>1, <2>2, <2>3 DEF ThreadFits, Settled
  <2>7. ASSUME ~moved', graph.next # "none" PROVE RouteSettled
    <3>1. ~(Bypasses /\ ChangesRoute(chat.patch))
      BY <2>2, <2>7 DEF Stays
    <3>2. ChangesRoute(chat.patch) => chat.patch # Nothing
      BY PatchesAreFcn DEF ChangesRoute
    <3> QED BY <1>1, <1>5, <3>1, <3>2 DEF Renews, Bypasses, RouteSettled, PreparedWaits
  <2>8. RouteFits'
    BY <1>1, <1>3, <2>1, <2>2, <2>7 DEF RouteFits, RouteSettled
  <2> QED BY <2>4, <2>5, <2>6, <2>8
<1> QED BY <1>4, <1>5

\* The message is answered, or not.
LEMMA ChatEnds ==
  ASSUME ChatInv, ChatAnswers \/ ChatDegrades
  PROVE  ChatInv'
<1> USE DEF ChatInv
<1>1. /\ UNCHANGED <<plan, graph, stream, party>>
      /\ chat # Quiet /\ chat' = Quiet
  BY DEF ChatAnswers, ChatDegrades, Quiet
<1>2. /\ shown' = [is |-> shown'.is, basis |-> shown.basis, draft |-> shown'.draft]
      /\ shown'.basis = shown.basis
  <2>1. shown' = shown \/ shown' = [shown EXCEPT !.is = TRUE, !.draft = TRUE]
    BY DEF ChatAnswers, ChatDegrades
  <2>2. shown' = shown \/ shown' = [is |-> TRUE, basis |-> shown.basis, draft |-> TRUE]
    BY <2>1 DEF ShapeOK
  <2> QED BY <2>2 DEF ShapeOK
<1>3. /\ apart' \in BOOLEAN
      /\ ~apart' => ~apart /\ Settled
  BY <1>1 DEF ChatAnswers, ChatDegrades, Unsettled, ShapeOK, ThreadFits, Settled, Stages
<1>4. /\ moved' \in BOOLEAN
      /\ ~moved' => ~moved
      /\ ~moved' /\ graph.next # "none" => RouteSettled
  <2>1. ChangesRoute(chat.patch) => chat.patch # Nothing
    BY PatchesAreFcn DEF ChangesRoute
  <2>2. chat.prepared => ~ChangesRoute(chat.patch)
    BY <1>1 DEF PreparedWaits
  <2>3. CASE ChatAnswers
    BY <2>3 DEF ChatAnswers, ShapeOK, RouteSettled
  <2>4. CASE ChatDegrades
    <3>1. moved' = (moved \/ (Unsettled /\ ChangesRoute(chat.patch) /\ Stays)) /\ moved \in BOOLEAN
      BY <2>4 DEF ChatDegrades, ShapeOK
    <3>2. moved' \in BOOLEAN /\ (~moved' => ~moved)
      BY <3>1
    <3>3. ASSUME ~moved', graph.next # "none" PROVE RouteSettled
      <4>1. ~(Unsettled /\ ChangesRoute(chat.patch))
        BY <3>1, <3>3 DEF Stays
      <4> QED BY <1>1, <2>1, <2>2, <4>1 DEF Unsettled, RouteSettled, ShapeOK, Stages
    <3> QED BY <3>2, <3>3
  <2> QED BY <2>3, <2>4
<1>5. ShapeOK'
  BY <1>1, <1>2, <1>3, <1>4 DEF ShapeOK, IsFcn
<1>6. OneAtATime' /\ PreparedWaits'
  BY <1>1 DEF OneAtATime, PreparedWaits
<1>7. ThreadFits'
  BY <1>1, <1>2, <1>3 DEF ThreadFits
<1>8. RouteFits'
  BY <1>1, <1>4 DEF RouteFits
<1> QED BY <1>5, <1>6, <1>7, <1>8

\* The fields of the stream's record after a run starts or ends.
LEMMA StreamFields ==
  ASSUME ShapeOK
  PROVE  /\ \A kind : Runs(kind) =>
              /\ stream' = [runs |-> stream'.runs, asked |-> stream'.asked]
              /\ stream'.runs = kind /\ offer' = "none"
              /\ chat = Quiet /\ stream.runs = "none" /\ plan.exists
         /\ Ends => /\ stream' = [runs |-> stream'.runs, asked |-> stream'.asked]
                    /\ stream'.runs = "none"
BY DEF ShapeOK, Runs, Ends, Free

\* A thread starts from the constraints of the plan, with the destinations it has.
LEMMA StreamKeeps ==
  ASSUME ChatInv, Stream
  PROVE  ChatInv'
<1> USE DEF ChatInv
<1>1. /\ UNCHANGED <<plan, shown, slot, chat, party, moved>>
      /\ stream' = [runs |-> stream'.runs, asked |-> stream'.asked]
      /\ chat = Quiet /\ offer' = "none" /\ plan.exists /\ apart' = FALSE
      /\ graph' = [next |-> "loop", constraints |-> plan.constraints, found |-> graph.found,
                   discovered |-> graph.discovered, feedback |-> FALSE, mode |-> "initial",
                   told |-> FALSE]
  BY StreamFields DEF Stream
<1>2. ShapeOK'
  BY <1>1 DEF ShapeOK, IsFcn
<1>3. OneAtATime' /\ PreparedWaits'
  BY <1>1 DEF OneAtATime, PreparedWaits
<1>4. ThreadFits'
  BY <1>1 DEF ThreadFits
<1>5. ~moved /\ graph.discovered => graph.found = Route(plan.constraints)
  BY <1>1 DEF RouteFits, RouteSettled, PreparedWaits
<1>6. RouteFits'
  BY <1>1, <1>5 DEF RouteFits
<1> QED BY <1>2, <1>3, <1>4, <1>6

\* Moving on within the thread, while no message is being answered.
LEMMA RunsOn ==
  ASSUME ChatInv, chat = Quiet, chat' = Quiet, UNCHANGED <<party, apart, moved>>,
         plan.exists \/ graph.next # "none",
         plan'.exists = plan.exists /\ plan'.constraints = plan.constraints,
         plan' = [exists |-> plan'.exists, constraints |-> plan'.constraints, stage |-> plan'.stage],
         stream' = [runs |-> stream'.runs, asked |-> stream'.asked],
         stream'.runs # "none" => offer' = "none",
         graph' = [next |-> graph'.next, constraints |-> graph.constraints, found |-> graph'.found,
                   discovered |-> graph'.discovered, feedback |-> graph'.feedback,
                   mode |-> graph.mode, told |-> graph'.told],
         graph.next # "none", graph'.next # "none",
         graph'.feedback \in BOOLEAN, graph'.discovered \in BOOLEAN, graph'.told \in BOOLEAN,
         \/ graph'.found = graph.found /\ graph'.discovered = graph.discovered
         \/ graph'.found = Route(graph.constraints),
         shown' = [is |-> shown'.is, basis |-> shown'.basis, draft |-> shown'.draft],
         graph'.next = "waiting" /\ graph'.told => shown'.basis = graph.constraints
  PROVE  ChatInv'
<1> USE DEF ChatInv
<1>1. graph'.constraints = graph.constraints /\ graph'.mode = graph.mode
  OBVIOUS
<1>2. ShapeOK'
  BY <1>1 DEF ShapeOK, IsFcn
<1>3. OneAtATime' /\ PreparedWaits'
  BY <1>1 DEF OneAtATime, PreparedWaits
<1>4. ThreadFits'
  BY <1>1 DEF ThreadFits, Settled
<1>5. RouteFits'
  BY <1>1 DEF RouteFits, RouteSettled
<1> QED BY <1>2, <1>3, <1>4, <1>5

\* A run that moves the thread, while no message is being answered.
LEMMA RunnerIsAlone ==
  ASSUME ChatInv, stream.runs # "none"
  PROVE  chat = Quiet /\ offer = "none"
BY DEF ChatInv, OneAtATime

\* The endpoints that take the thread up, and the node of discovery.
LEMMA ThreadStarts ==
  ASSUME ChatInv, Resume \/ Replan \/ Discovers
  PROVE  ChatInv'
<1> USE DEF ChatInv
<1>1. CASE Resume \/ Replan
  <2>1. /\ UNCHANGED <<plan, shown, slot, chat, party, apart, moved>> /\ graph.next # "none"
        /\ chat = Quiet /\ offer' = "none" /\ plan.exists
        /\ stream' = [runs |-> stream'.runs, asked |-> stream'.asked]
    BY <1>1, StreamFields DEF Resume, Replan
  <2>2. PICK next \in {"loop", "tail"} : graph' = [graph EXCEPT !.next = next]
    BY <1>1 DEF Resume, Replan
  <2>3. graph' = [next |-> next, constraints |-> graph.constraints, found |-> graph.found,
                  discovered |-> graph.discovered, feedback |-> graph.feedback,
                  mode |-> graph.mode, told |-> graph.told]
    BY <2>2 DEF ShapeOK
  <2>4. plan' = [exists |-> plan'.exists, constraints |-> plan'.constraints, stage |-> plan'.stage]
        /\ shown' = [is |-> shown'.is, basis |-> shown'.basis, draft |-> shown'.draft]
        /\ graph.feedback \in BOOLEAN /\ graph.discovered \in BOOLEAN /\ graph.told \in BOOLEAN
    BY <2>1 DEF ShapeOK
  <2> QED BY <2>1, <2>2, <2>3, <2>4, RunsOn
<1>2. CASE Discovers
  <2>1. /\ UNCHANGED <<plan, shown, chat, stream, offer, party, apart, moved>>
        /\ stream.runs # "none" /\ graph.next = "loop"
        /\ graph' = [graph EXCEPT !.discovered = TRUE, !.found = Route(graph.constraints)]
    BY <1>2 DEF Discovers
  <2>2. graph' = [next |-> "loop", constraints |-> graph.constraints,
                  found |-> Route(graph.constraints), discovered |-> TRUE,
                  feedback |-> graph.feedback, mode |-> graph.mode, told |-> graph.told]
    BY <2>1 DEF ShapeOK
  <2>3. plan' = [exists |-> plan'.exists, constraints |-> plan'.constraints, stage |-> plan'.stage]
        /\ shown' = [is |-> shown'.is, basis |-> shown'.basis, draft |-> shown'.draft]
        /\ stream' = [runs |-> stream'.runs, asked |-> stream'.asked]
        /\ graph.feedback \in BOOLEAN /\ graph.told \in BOOLEAN
    BY <2>1 DEF ShapeOK
  <2> QED BY <2>1, <2>2, <2>3, RunnerIsAlone, RunsOn
<1> QED BY <1>1, <1>2

\* The pause and the end, and what is stored of them.
LEMMA ThreadRunsOn ==
  ASSUME ChatInv, Pauses \/ StoresBundle \/ Confirms \/ Completes
  PROVE  ChatInv'
<1> USE DEF ChatInv
<1>0. /\ stream.runs # "none" /\ graph.next # "none" /\ chat = Quiet /\ offer = "none"
      /\ UNCHANGED <<chat, offer, party, apart, moved>>
      /\ stream' = [runs |-> stream'.runs, asked |-> stream'.asked]
  BY RunnerIsAlone, StreamFields DEF Pauses, StoresBundle, Confirms, Completes, ShapeOK
<1>1. /\ shown = [is |-> shown.is, basis |-> shown.basis, draft |-> shown.draft]
      /\ plan = [exists |-> plan.exists, constraints |-> plan.constraints, stage |-> plan.stage]
      /\ graph = [next |-> graph.next, constraints |-> graph.constraints, found |-> graph.found,
                  discovered |-> graph.discovered, feedback |-> graph.feedback, mode |-> graph.mode,
                  told |-> graph.told]
      /\ graph.feedback \in BOOLEAN /\ graph.discovered \in BOOLEAN /\ graph.told \in BOOLEAN
  BY DEF ShapeOK
<1>2. CASE Pauses
  <2>1. PICK b \in BOOLEAN :
          graph' = [graph EXCEPT !.next = "waiting", !.told = FALSE, !.feedback = b]
    BY <1>1, <1>2 DEF Pauses
  <2>2. graph' = [next |-> "waiting", constraints |-> graph.constraints, found |-> graph.found,
                  discovered |-> graph.discovered, feedback |-> b, mode |-> graph.mode, told |-> FALSE]
    BY <1>1, <2>1
  <2>3. UNCHANGED <<plan, shown>>
    BY <1>2 DEF Pauses
  <2> QED BY <1>0, <1>1, <2>2, <2>3, RunsOn
<1>3. CASE StoresBundle
  <2>1. graph' = [next |-> "waiting", constraints |-> graph.constraints, found |-> graph.found,
                  discovered |-> graph.discovered, feedback |-> graph.feedback, mode |-> graph.mode,
                  told |-> TRUE]
    BY <1>1, <1>3 DEF StoresBundle
  <2>2. plan' = [exists |-> plan.exists, constraints |-> plan.constraints, stage |-> "await_booking"]
    BY <1>1, <1>3 DEF StoresBundle
  <2>3. PICK d : shown' = [is |-> TRUE, basis |-> graph.constraints, draft |-> d]
    BY <1>3 DEF StoresBundle
  <2> QED BY <1>0, <1>1, <2>1, <2>2, <2>3, RunsOn
<1>4. CASE Confirms
  <2>1. plan' = [exists |-> plan.exists, constraints |-> plan.constraints, stage |-> "confirm"]
    BY <1>1, <1>4 DEF Confirms
  <2>2. UNCHANGED <<graph, shown>> /\ graph.next = "tail"
    BY <1>4 DEF Confirms
  <2> QED BY <1>0, <1>1, <2>1, <2>2, RunsOn
<1>5. CASE Completes
  <2>1. graph' = [next |-> "end", constraints |-> graph.constraints, found |-> graph.found,
                  discovered |-> graph.discovered, feedback |-> graph.feedback, mode |-> graph.mode,
                  told |-> graph.told]
    BY <1>1, <1>5 DEF Completes
  <2>2. UNCHANGED <<plan, shown>>
    BY <1>5 DEF Completes
  <2> QED BY <1>0, <1>1, <2>1, <2>2, RunsOn
<1> QED BY <1>2, <1>3, <1>4, <1>5

\* /revise writes what it likes into the thread; apart and moved record it.
LEMMA ReviseKeeps ==
  ASSUME ChatInv, Revise
  PROVE  ChatInv'
<1> USE DEF ChatInv
<1>1. /\ UNCHANGED <<plan, shown, slot, chat, stream, party>>
      /\ chat = Quiet /\ graph.next # "none" /\ plan.exists
      /\ offer' = "none" /\ apart' = TRUE /\ moved' = TRUE
  BY DEF Revise, Free, PreparedWaits, ShapeOK
<1>2. PICK c \in Forms \cup {graph.constraints}, next \in {"loop", "waiting", "tail", "end"},
           feedback \in BOOLEAN :
        graph' = [graph EXCEPT !.next = next, !.constraints = c, !.feedback = feedback, !.told = FALSE]
  BY DEF Revise
<1>3. graph' = [next |-> next, constraints |-> c, found |-> graph.found,
                discovered |-> graph.discovered, feedback |-> feedback, mode |-> graph.mode,
                told |-> FALSE]
  BY <1>2 DEF ShapeOK
<1>4. ShapeOK'
  BY <1>1, <1>3 DEF ShapeOK, IsFcn
<1>5. OneAtATime' /\ PreparedWaits'
  BY <1>1, <1>3 DEF OneAtATime, PreparedWaits
<1>6. ThreadFits' /\ RouteFits'
  BY <1>1, <1>3 DEF ThreadFits, RouteFits
<1> QED BY <1>4, <1>5, <1>6

\* Companions, the check of /research-more, and runs that change nothing.
LEMMA OthersKeep ==
  ASSUME ChatInv,
         \/ ResearchMoreChecks \/ ResearchMoreIsBusy \/ ResearchMore
         \/ NothingToRun \/ StreamBreaks \/ Submit \/ AggregateReads
         \/ UNCHANGED vars
  PROVE  ChatInv'
<1> USE DEF ChatInv
<1>1. /\ plan = [exists |-> plan.exists, constraints |-> plan.constraints, stage |-> plan.stage]
      /\ stream = [runs |-> stream.runs, asked |-> stream.asked]
      /\ party = [areas |-> party.areas, read |-> party.read, base |-> party.base]
      /\ IsFcn(party.base)
  BY DEF ShapeOK
<1>2. CASE ResearchMoreChecks \/ ResearchMoreIsBusy
  <2>1. /\ UNCHANGED <<plan, graph, shown, slot, chat, offer, party, apart, moved>>
        /\ stream' = [runs |-> stream.runs, asked |-> stream'.asked]
    BY <1>1, <1>2 DEF ResearchMoreChecks, ResearchMoreIsBusy
  <2>2. stream'.runs = stream.runs
    BY <2>1
  <2> QED BY <1>1, <2>1, <2>2, QuietStep
<1>3. CASE ResearchMore
  BY <1>1, <1>3, StreamFields, QuietStep DEF ResearchMore
<1>4. CASE NothingToRun \/ StreamBreaks
  BY <1>1, <1>4, StreamFields, QuietStep DEF NothingToRun, StreamBreaks
<1>5. CASE Submit
  <2>1. PICK a : party' = [areas |-> party.areas \cup {a}, read |-> party.read, base |-> party.base]
    BY <1>1, <1>5 DEF Submit
  <2> QED BY <1>1, <1>5, <2>1, QuietStep DEF Submit
<1>6. CASE AggregateReads
  <2>1. party' = [areas |-> party.areas, read |-> TRUE,
                  base |-> With(plan.constraints, "origins", party.areas)]
    BY <1>1, <1>6 DEF AggregateReads
  <2>2. UNCHANGED <<plan, graph, shown, slot, chat, stream, offer, apart, moved>>
    BY <1>6 DEF AggregateReads
  <2>3. IsFcn(party'.base)
    BY <2>1, PatchesAreFcn
  <2>4. party' = [areas |-> party'.areas, read |-> party'.read, base |-> party'.base]
    BY <2>1
  <2> QED BY <1>1, <2>2, <2>3, <2>4, QuietStep
<1>7. CASE UNCHANGED vars
  BY <1>1, <1>7, QuietStep DEF vars
<1> QED BY <1>2, <1>3, <1>4, <1>5, <1>6, <1>7

\* The aggregation of a party writes the constraints behind the thread's
\* back; apart records that it changed them.
LEMMA AggregateKeeps ==
  ASSUME ChatInv, AggregateCommits
  PROVE  ChatInv'
<1> USE DEF ChatInv
<1>1. UNCHANGED <<graph, shown, slot, chat, stream, offer>>
  BY DEF AggregateCommits
<1>2. /\ plan' = [exists |-> plan.exists, constraints |-> party.base, stage |-> plan.stage]
      /\ party' = [areas |-> party.areas, read |-> FALSE, base |-> Nothing]
      /\ IsFcn(party.base)
  BY DEF AggregateCommits, ShapeOK
<1>3. /\ apart' \in BOOLEAN /\ (~apart' => ~apart /\ party.base = plan.constraints)
      /\ moved' = (moved \/ (Route(party.base) # Route(plan.constraints) /\ Stays))
      /\ moved \in BOOLEAN
  BY DEF AggregateCommits, ShapeOK
<1>4. /\ moved' \in BOOLEAN /\ (~moved' => ~moved)
      /\ ~moved' /\ graph.next # "none" => Route(party.base) = Route(plan.constraints)
  BY <1>3 DEF Stays
<1>5. ShapeOK'
  BY <1>1, <1>2, <1>3, <1>4, PatchesAreFcn DEF ShapeOK, IsFcn
<1>6. OneAtATime' /\ PreparedWaits'
  BY <1>1, <1>2 DEF OneAtATime, PreparedWaits
<1>7. ThreadFits'
  BY <1>1, <1>2, <1>3 DEF ThreadFits, Settled
<1>8. plan'.constraints = party.base
  BY <1>2
<1>9. RouteFits'
  BY <1>1, <1>4, <1>8 DEF RouteFits, RouteSettled
<1> QED BY <1>5, <1>6, <1>7, <1>9

LEMMA StepChat == ChatInv /\ [Next]_vars => ChatInv'
BY ChatStarts, PreparesKeeps, RenewsKeeps, ChatEnds, StreamKeeps, ThreadStarts, ThreadRunsOn,
   ReviseKeeps, OthersKeep, AggregateKeeps DEF Next, Chat, Streams, Party

LEMMA ChatAlways == Spec => []ChatInv
BY InitChat, StepChat, PTL DEF Spec

\* The plan that waits for bookings was computed from the constraints the plan
\* now has, and so was its bundle once stored, whatever was said, run, broken
\* off or crashed before: every way around it is one of those that apart and
\* told record.
THEOREM BookedPlansAreCurrent == Spec => []BookedPlanIsCurrent
<1>1. ChatInv => BookedPlanIsCurrent
  BY DEF ChatInv, ThreadFits, Settled, BookedPlanIsCurrent, Free
<1> QED BY <1>1, ChatAlways, PTL

\* Research goes on with destinations found for the route it is asked for, if
\* any were found and the route did not change under the thread.
THEOREM ResearchKeepsItsRoute == Spec => []ContinuesOnItsRoute
<1>1. ChatInv => ContinuesOnItsRoute
  BY DEF ChatInv, RouteFits, PreparedWaits, ContinuesOnItsRoute
<1> QED BY <1>1, ChatAlways, PTL

\* The offer of an answer goes with whatever would take its thread away.
LEMMA StepOffer == ChatInv /\ OfferIsServed /\ [Next]_vars => OfferIsServed'
<1> SUFFICES ASSUME ChatInv, OfferIsServed, [Next]_vars, offer' = "more"
             PROVE  graph'.feedback /\ graph'.next = "loop"
  BY DEF OfferIsServed
<1> USE DEF ChatInv
<1>1. CASE ChatAnswers
  <2>1. chat # Quiet /\ chat.prepared /\ graph' = graph
    BY <1>1 DEF ChatAnswers, Quiet
  <2> QED BY <2>1 DEF PreparedWaits
<1>2. CASE offer' = offer /\ graph' = graph
  BY <1>2 DEF OfferIsServed
<1>3. ASSUME offer' = offer, chat # Quiet \/ stream.runs # "none"
      PROVE  FALSE
  BY <1>3 DEF OneAtATime
<1>4. CASE ChatPrepares \/ ChatRenews
  <2>1. offer' = offer /\ (chat.at = "committed" \/ chat.at = "prepared")
    BY <1>4 DEF ChatPrepares, ChatRenews
  <2> QED BY <1>3, <2>1 DEF Quiet
<1>5. CASE Discovers \/ Pauses \/ StoresBundle \/ Confirms \/ Completes
  <2>1. offer' = offer /\ stream.runs # "none"
    BY <1>5 DEF Discovers, Pauses, StoresBundle, Confirms, Completes
  <2> QED BY <1>3, <2>1
<1>6. CASE ChatBegins \/ Stream \/ ResearchMore \/ Resume \/ Replan \/ Revise
  <2>1. offer' = "none"
    BY <1>6 DEF ChatBegins, Stream, ResearchMore, Resume, Replan, Revise, Runs
  <2> QED BY <2>1
<1>7. CASE \/ CreatePlan \/ ChatCommits \/ ChatDegrades \/ ResearchMoreChecks
           \/ ResearchMoreIsBusy \/ NothingToRun \/ StreamBreaks \/ Party
           \/ UNCHANGED vars
  BY <1>2, <1>7
     DEF CreatePlan, ChatCommits, ChatDegrades, ResearchMoreChecks, ResearchMoreIsBusy,
         NothingToRun, StreamBreaks, Party, Submit, AggregateReads, AggregateCommits, vars
<1> QED BY <1>1, <1>4, <1>5, <1>6, <1>7 DEF Next, Chat, Streams

\* /research-more does not refuse what the last answer has offered.
THEOREM OffersAreServed == Spec => []OfferIsServed
<1>1. Init => OfferIsServed
  BY DEF Init, OfferIsServed
<1> QED BY <1>1, StepOffer, ChatAlways, PTL DEF Spec

-----------------------------------------------------------------------------
(* Hours: what a value is, and the greatest and the least of two.           *)

\* The value of an optional hour is that hour.
LEMMA ValueIs ==
  ASSUME NEW h \in Hours
  PROVE  /\ h # {} => Value(h) \in h /\ Value(h) \in Int
         /\ \A x \in h : x = Value(h)
BY DEF Hours, Value

\* The greatest of two optional hours.
LEMMA GreatestIs ==
  ASSUME NEW b \in Hours, NEW c \in Hours
  PROVE  /\ Greatest(b \cup c) \in Hours
         /\ Greatest(b \cup c) \subseteq b \cup c
         /\ \A x \in b \cup c : \E g \in Greatest(b \cup c) : x <= g
<1>1. Greatest(b \cup c) \subseteq b \cup c BY DEF Greatest
<1>2. b \subseteq Int /\ c \subseteq Int BY DEF Hours
<1>3. \A x \in b, y \in b : x = y BY DEF Hours
<1>4. \A x \in c, y \in c : x = y BY DEF Hours
<1>5. Greatest(b \cup c) \in Hours
  <2>1. Greatest(b \cup c) \subseteq Int BY <1>1, <1>2
  <2>2. \A g, h \in Greatest(b \cup c) : g <= h /\ h <= g BY DEF Greatest
  <2>3. \A g, h \in Greatest(b \cup c) : g = h BY <2>1, <2>2
  <2> QED BY <2>1, <2>3 DEF Hours
<1>6. ASSUME NEW x \in b \cup c PROVE \E g \in Greatest(b \cup c) : x <= g
  <2>1. CASE \A y \in b \cup c : y <= x
    <3>1. x \in Greatest(b \cup c) BY <2>1 DEF Greatest
    <3> QED BY <3>1, <1>2
  <2>2. CASE ~ \A y \in b \cup c : y <= x
    <3>1. PICK y \in b \cup c : ~ (y <= x) BY <2>2
    <3>2. x \in Int /\ y \in Int /\ x < y BY <3>1, <1>2
    <3>3. \A z \in b \cup c : z = x \/ z = y BY <3>2, <1>3, <1>4
    <3>4. y \in Greatest(b \cup c) BY <3>2, <3>3 DEF Greatest
    <3> QED BY <3>2, <3>4
  <2> QED BY <2>1, <2>2
<1> QED BY <1>1, <1>5, <1>6

\* The least of two optional hours.
LEMMA LeastIs ==
  ASSUME NEW b \in Hours, NEW c \in Hours
  PROVE  /\ Least(b \cup c) \in Hours
         /\ Least(b \cup c) \subseteq b \cup c
         /\ \A x \in b \cup c : \E g \in Least(b \cup c) : g <= x
<1>1. Least(b \cup c) \subseteq b \cup c BY DEF Least
<1>2. b \subseteq Int /\ c \subseteq Int BY DEF Hours
<1>3. \A x \in b, y \in b : x = y BY DEF Hours
<1>4. \A x \in c, y \in c : x = y BY DEF Hours
<1>5. Least(b \cup c) \in Hours
  <2>1. Least(b \cup c) \subseteq Int BY <1>1, <1>2
  <2>2. \A g, h \in Least(b \cup c) : g <= h /\ h <= g BY DEF Least
  <2>3. \A g, h \in Least(b \cup c) : g = h BY <2>1, <2>2
  <2> QED BY <2>1, <2>3 DEF Hours
<1>6. ASSUME NEW x \in b \cup c PROVE \E g \in Least(b \cup c) : g <= x
  <2>1. CASE \A y \in b \cup c : x <= y
    <3>1. x \in Least(b \cup c) BY <2>1 DEF Least
    <3> QED BY <3>1, <1>2
  <2>2. CASE ~ \A y \in b \cup c : x <= y
    <3>1. PICK y \in b \cup c : ~ (x <= y) BY <2>2
    <3>2. x \in Int /\ y \in Int /\ y < x BY <3>1, <1>2
    <3>3. \A z \in b \cup c : z = x \/ z = y BY <3>2, <1>3, <1>4
    <3>4. y \in Least(b \cup c) BY <3>2, <3>3 DEF Least
    <3> QED BY <3>2, <3>4
  <2> QED BY <2>1, <2>2
<1> QED BY <1>1, <1>5, <1>6

-----------------------------------------------------------------------------
(* The party.                                                               *)

\* A value within both bands makes their intersection exact.
LEMMA BandsIntersect ==
  ASSUME NEW b \in Limits, NEW c \in Limits
  PROVE  /\ IntersectBands(b, c) \in Limits
         /\ \A x \in Int : Within(b, x) /\ Within(c, x) =>
              \A y \in Int : Within(IntersectBands(b, c), y) <=> Within(b, y) /\ Within(c, y)
<1> DEFINE lo == Greatest(b.min \cup c.min)
           hi == Least(b.max \cup c.max)
<1>1. b.min \in Hours /\ c.min \in Hours /\ b.max \in Hours /\ c.max \in Hours BY DEF Limits
<1>2. /\ lo \in Hours /\ lo \subseteq b.min \cup c.min
      /\ \A x \in b.min \cup c.min : \E g \in lo : x <= g
  BY <1>1, GreatestIs
<1>3. /\ hi \in Hours /\ hi \subseteq b.max \cup c.max
      /\ \A x \in b.max \cup c.max : \E g \in hi : g <= x
  BY <1>1, LeastIs
<1>4. Least(b.min \cup c.min) \in Hours /\ Greatest(b.max \cup c.max) \in Hours
  BY <1>1, GreatestIs, LeastIs
<1> HIDE DEF lo, hi
<1>5. IntersectBands(b, c) =
        IF \E x \in lo, y \in hi : x > y
          THEN [min |-> Least(b.min \cup c.min), max |-> Greatest(b.max \cup c.max)]
          ELSE [min |-> lo, max |-> hi]
  BY DEF IntersectBands, lo, hi
<1>6. IntersectBands(b, c) \in Limits BY <1>2, <1>3, <1>4, <1>5 DEF Limits
<1>7. ASSUME NEW x \in Int, Within(b, x), Within(c, x)
      PROVE  \A y \in Int : Within(IntersectBands(b, c), y) <=> Within(b, y) /\ Within(c, y)
  <2>0. b.min \subseteq Int /\ c.min \subseteq Int /\ b.max \subseteq Int /\ c.max \subseteq Int
        /\ lo \subseteq Int /\ hi \subseteq Int
    BY <1>1, <1>2, <1>3 DEF Hours
  <2>1. (\A l \in lo : l <= x) /\ (\A h \in hi : x <= h) BY <1>2, <1>3, <1>7 DEF Within
  <2>2. ~ \E l \in lo, h \in hi : l > h BY <2>0, <2>1
  <2>3. IntersectBands(b, c).min = lo /\ IntersectBands(b, c).max = hi BY <1>5, <2>2
  <2> SUFFICES ASSUME NEW y \in Int
               PROVE  Within(IntersectBands(b, c), y) <=> Within(b, y) /\ Within(c, y)
    OBVIOUS
  <2>4. ASSUME Within(IntersectBands(b, c), y) PROVE Within(b, y) /\ Within(c, y)
    <3>1. (\A l \in lo : l <= y) /\ (\A h \in hi : y <= h) BY <2>3, <2>4 DEF Within
    <3>2. \A l \in b.min \cup c.min : l <= y BY <3>1, <1>2, <2>0
    <3>3. \A h \in b.max \cup c.max : y <= h BY <3>1, <1>3, <2>0
    <3> QED BY <3>2, <3>3 DEF Within
  <2>5. ASSUME Within(b, y), Within(c, y) PROVE Within(IntersectBands(b, c), y)
    BY <2>3, <2>5, <1>2, <1>3 DEF Within
  <2> QED BY <2>4, <2>5
<1> QED BY <1>6, <1>7

-----------------------------------------------------------------------------
(* The trip.                                                                *)

TripStages == {"open", "placing", "solved"}
SlotKinds == {"lodging", "transport", "activity", "meal", "buffer"}
Slots == [kind : SlotKinds, start : Hours, end : Hours]
Trip == [stage : TripStages, members : Seq(Member), met : Nat, limits : Member,
         bookings : Seq(STRING), dining : BOOLEAN, adverse : BOOLEAN,
         activities : Seq(Find), seen : SUBSET Nat, slots : Seq(Slots)]

TripType ==
  /\ trip \in Trip
  /\ trip.met <= Len(trip.members)
  /\ trip.seen \subseteq DOMAIN trip.activities
  /\ trip.stage = "open" => trip.slots = <<>>
  /\ trip.stage # "open" => AllMet

\* Nobody met so far has to be back before the limit.
LimitHolds ==
  \A m \in 1..trip.met : \A l \in trip.members[m].back : \E b \in trip.limits.back : b <= l

\* What suits everybody met so far.
SuitsMet(x) == \A m \in 1..trip.met : Within(trip.members[m].band, x)
BandHolds ==
  (\E x \in Int : SuitsMet(x)) => \A y \in Int : Within(trip.limits.band, y) <=> SuitsMet(y)

\* An activity's slot is what the solver may place, anything else has no time.
SlotSuits(s) ==
  IF s.kind = "activity"
    THEN /\ s.start # {}
         /\ \A e \in s.end : e >= Now /\ \A t \in s.start : e >= t
         /\ \A l \in trip.limits.back : EndOf(s) <= l
    ELSE s.start = {} /\ s.end = {}
SlotsSuit == \A i \in DOMAIN trip.slots : SlotSuits(trip.slots[i])
SlotsApart ==
  \A i, j \in OfKind(trip.slots, "activity") : i # j => ~ Overlap(trip.slots[i], trip.slots[j])

TripInv == TripType /\ LimitHolds /\ BandHolds /\ SlotsSuit /\ SlotsApart

\* No hour is an optional hour.
LEMMA EmptyHours == {} \in Hours
BY DEF Hours

\* The members met are members of the trip.
LEMMA MembersMet ==
  ASSUME TripType
  PROVE  /\ trip.members \in Seq(Member) /\ Len(trip.members) \in Nat
         /\ trip.met \in Nat /\ trip.limits \in Member
         /\ \A m \in 1..Len(trip.members) : trip.members[m] \in Member
         /\ DOMAIN trip.members = 1..Len(trip.members)
<1>1. trip.members \in Seq(Member) /\ trip.met \in Nat /\ trip.limits \in Member BY DEF TripType, Trip
<1> QED BY <1>1, LenProperties, ElementOfSeq

\* Before anybody is met everything is within the limits.
LEMMA NoMember == NoLimits \in Member /\ \A x : Within(NoLimits.band, x)
BY EmptyHours DEF NoLimits, Member, Limits, Within

\* A new trip has the invariant.
LEMMA InitTrip == TripInit => TripInv
<1> SUFFICES ASSUME TripInit PROVE TripInv OBVIOUS
<1>1. PICK p \in Parties, b \in Bookings, dining \in BOOLEAN, adverse \in BOOLEAN :
        trip = NewTrip(p, b, dining, adverse)
  BY DEF TripInit
<1>2. p \in Seq(Member) /\ b \in Seq(STRING) BY PartiesAssumption, BookingsAssumption
<1>3. /\ trip.stage = "open" /\ trip.members = p /\ trip.met = 0 /\ trip.limits = NoLimits
      /\ trip.activities = <<>> /\ trip.seen = {} /\ trip.slots = <<>>
  BY <1>1 DEF NewTrip
<1>4. <<>> \in Seq(Find) /\ <<>> \in Seq(Slots) /\ DOMAIN <<>> = {} BY EmptySeq
<1>5. trip \in Trip
  BY <1>1, <1>2, <1>4, NoMember DEF NewTrip, Trip, TripStages
<1>6. Len(p) \in Nat BY <1>2, LenProperties
<1>7. TripType BY <1>3, <1>5, <1>6 DEF TripType
<1>8. LimitHolds BY <1>3 DEF LimitHolds
<1>9. BandHolds BY <1>3, NoMember DEF BandHolds, SuitsMet
<1>10. SlotsSuit /\ SlotsApart BY <1>3, <1>4 DEF SlotsSuit, SlotsApart, OfKind
<1> QED BY <1>7, <1>8, <1>9, <1>10 DEF TripInv

\* One more member is put together with the ones before.
LEMMA AggregatedIs ==
  ASSUME NEW l \in Member, NEW m \in Member
  PROVE  /\ Aggregated(l, m) \in Member
         /\ Aggregated(l, m).back = Least(l.back \cup m.back)
         /\ Aggregated(l, m).band = IntersectBands(l.band, m.band)
<1>1. /\ l.leave \in Hours /\ m.leave \in Hours /\ l.back \in Hours /\ m.back \in Hours
      /\ l.band \in Limits /\ m.band \in Limits
  BY DEF Member
<1>2. /\ Greatest(l.leave \cup m.leave) \in Hours
      /\ Least(l.back \cup m.back) \in Hours
      /\ IntersectBands(l.band, m.band) \in Limits
  BY <1>1, GreatestIs, LeastIs, BandsIntersect
<1> QED BY <1>2 DEF Aggregated, Member

\* Meeting a member moves the limit down to theirs and keeps the band exact.
LEMMA MeetKeeps ==
  ASSUME TripInv, Meet
  PROVE  TripInv'
<1> DEFINE k == trip.met + 1
           m == trip.members[k]
<1>1. trip.met \in Nat /\ k \in 1..Len(trip.members) /\ m \in Member /\ trip.limits \in Member
      /\ \A n \in 1..Len(trip.members) : trip.members[n] \in Member
  BY MembersMet DEF TripInv, TripType, Meet, AllMet
<1>2. /\ trip'.met = k /\ trip'.limits = Aggregated(trip.limits, m)
      /\ trip'.members = trip.members /\ trip'.slots = trip.slots /\ trip'.stage = "open"
      /\ trip'.activities = trip.activities /\ trip'.seen = trip.seen /\ trip.slots = <<>>
  BY DEF TripInv, TripType, Trip, Meet
<1>3. Aggregated(trip.limits, m) \in Member BY <1>1, AggregatedIs
<1>4. TripType'
  <2> DEFINE l == Aggregated(trip.limits, m)
  <2>a. trip' = [trip EXCEPT !.met = k, !.limits = l] BY DEF Meet
  <2>b. k \in Nat /\ l \in Member /\ trip \in Trip BY <1>1, <1>3 DEF TripInv, TripType
  <2> HIDE DEF k, l
  <2>1. trip' \in Trip BY <2>a, <2>b DEF Trip
  <2> USE DEF k
  <2> QED BY <2>1, <1>1, <1>2 DEF TripInv, TripType
<1> HIDE DEF m
<1>5. LimitHolds'
  <2> SUFFICES ASSUME NEW n \in 1..k, NEW l \in trip.members[n].back
               PROVE  \E b \in Aggregated(trip.limits, m).back : b <= l
    BY <1>2 DEF LimitHolds
  <2>1. Aggregated(trip.limits, m).back = Least(trip.limits.back \cup m.back) BY <1>1, AggregatedIs
  <2>2. trip.limits.back \in Hours /\ m.back \in Hours /\ trip.members[n].back \in Hours BY <1>1 DEF Member
  <2>3. /\ Least(trip.limits.back \cup m.back) \in Hours
        /\ \A x \in trip.limits.back \cup m.back : \E g \in Least(trip.limits.back \cup m.back) : g <= x
    BY <2>2, LeastIs
  <2>4. CASE n = k BY <2>4, <2>1, <2>3 DEF m
  <2>5. CASE n \in 1..trip.met
    <3>1. PICK b \in trip.limits.back : b <= l BY <2>5 DEF TripInv, LimitHolds
    <3>2. PICK g \in Least(trip.limits.back \cup m.back) : g <= b BY <2>3
    <3>3. g \in Int /\ b \in Int /\ l \in Int BY <2>2, <2>3 DEF Hours
    <3> QED BY <3>1, <3>2, <3>3, <2>1
  <2> QED BY <1>1, <2>4, <2>5
<1>6. BandHolds'
  <2>1. trip.limits.band \in Limits /\ m.band \in Limits BY <1>1 DEF Member
  <2>2. \A x : SuitsMet(x)' <=> SuitsMet(x) /\ Within(m.band, x)
    BY <1>1, <1>2 DEF SuitsMet, m
  <2>3. trip'.limits.band = IntersectBands(trip.limits.band, m.band) BY <1>1, <1>2, AggregatedIs
  <2> SUFFICES ASSUME NEW x \in Int, SuitsMet(x)'
               PROVE  \A y \in Int : Within(trip'.limits.band, y) <=> SuitsMet(y)'
    BY DEF BandHolds
  <2>4. SuitsMet(x) /\ Within(m.band, x) BY <2>2
  <2>5. \A y \in Int : Within(trip.limits.band, y) <=> SuitsMet(y) BY <2>4 DEF TripInv, BandHolds
  <2>6. \A y \in Int : Within(IntersectBands(trip.limits.band, m.band), y)
                         <=> Within(trip.limits.band, y) /\ Within(m.band, y)
    BY <2>1, <2>4, <2>5, BandsIntersect
  <2> QED BY <2>2, <2>3, <2>5, <2>6
<1>7. (SlotsSuit /\ SlotsApart)' BY <1>2, EmptySeq DEF SlotsSuit, SlotsApart, OfKind
<1> QED BY <1>4, <1>5, <1>6, <1>7 DEF TripInv

\* Nobody is met any more, and neither the times nor the limits move.
LEMMA PartyKeeps ==
  ASSUME LimitHolds, BandHolds, trip'.met = trip.met, trip'.limits = trip.limits,
         trip'.members = trip.members
  PROVE  LimitHolds' /\ BandHolds'
BY DEF LimitHolds, BandHolds, SuitsMet

\* The sequences of a trip and what they hold.
LEMMA TripIs ==
  ASSUME TripType
  PROVE  /\ trip.activities \in Seq(Find) /\ Len(trip.activities) \in Nat
         /\ DOMAIN trip.activities = 1..Len(trip.activities)
         /\ \A i \in DOMAIN trip.activities : trip.activities[i] \in Find
         /\ trip.slots \in Seq(Slots) /\ Len(trip.slots) \in Nat
         /\ DOMAIN trip.slots = 1..Len(trip.slots)
         /\ \A i \in DOMAIN trip.slots : trip.slots[i] \in Slots
         /\ trip.bookings \in Seq(STRING) /\ trip.limits.back \in Hours
<1>1. /\ trip.activities \in Seq(Find) /\ trip.slots \in Seq(Slots)
      /\ trip.bookings \in Seq(STRING) /\ trip.limits.back \in Hours
  BY DEF TripType, Trip, Member
<1> QED BY <1>1, LenProperties, ElementOfSeq

\* What is found leaves the party and the slots alone.
LEMMA DiscoverKeeps ==
  ASSUME TripInv, Discover
  PROVE  TripInv'
<1>1. PICK a \in Finds : trip' = [trip EXCEPT !.activities = Append(trip.activities, a)] BY DEF Discover
<1>2. trip.activities \in Seq(Find) /\ a \in Find BY TripIs, FindsAssumption DEF TripInv
<1>3. /\ Append(trip.activities, a) \in Seq(Find)
      /\ DOMAIN trip.activities \subseteq DOMAIN Append(trip.activities, a)
  BY <1>2, AppendProperties, LenProperties
<1>4. trip \in Trip BY DEF TripInv, TripType
<1>5. trip' \in Trip BY <1>1, <1>3, <1>4 DEF Trip
<1>6. /\ trip'.met = trip.met /\ trip'.limits = trip.limits /\ trip'.members = trip.members
      /\ trip'.stage = trip.stage /\ trip'.slots = trip.slots /\ trip'.seen = trip.seen
      /\ trip'.activities = Append(trip.activities, a)
  BY <1>1, <1>4 DEF Trip
<1>7. TripType' BY <1>3, <1>5, <1>6 DEF TripInv, TripType, AllMet
<1>8. LimitHolds' /\ BandHolds' BY <1>6, PartyKeeps DEF TripInv
<1>9. SlotsSuit' /\ SlotsApart' BY <1>6 DEF TripInv, SlotsSuit, SlotsApart, SlotSuits, OfKind
<1> QED BY <1>7, <1>8, <1>9 DEF TripInv

\* An anchor is a slot without times, and no activity.
LEMMA AnchorIs ==
  ASSUME NEW b
  PROVE  Anchor(b) \in Slots /\ Anchor(b).kind # "activity" /\ Anchor(b).start = {} /\ Anchor(b).end = {}
BY EmptyHours DEF Anchor, Slot, Slots, SlotKinds

\* The solver begins with slots that cannot be in anybody's way.
LEMMA AnchorsKeep ==
  ASSUME TripInv, PlaceAnchors
  PROVE  TripInv'
<1> DEFINE n == Len(trip.bookings)
           anchors == [i \in DOMAIN trip.bookings |-> Anchor(trip.bookings[i])]
<1>1. trip' = [trip EXCEPT !.stage = "placing", !.slots = anchors] /\ AllMet BY DEF PlaceAnchors
<1>2. n \in Nat /\ DOMAIN trip.bookings = 1..n BY TripIs, LenProperties DEF TripInv
<1>3. anchors \in [1..n -> Slots] BY <1>2, AnchorIs
<1>4. anchors \in Seq(Slots) BY <1>2, <1>3
<1>5. \A i \in DOMAIN anchors : anchors[i].kind # "activity" /\ anchors[i].start = {} /\ anchors[i].end = {}
  BY AnchorIs
<1>6. trip \in Trip BY DEF TripInv, TripType
<1> HIDE DEF anchors
<1>7. trip' \in Trip BY <1>1, <1>4, <1>6 DEF Trip, TripStages
<1>8. /\ trip'.met = trip.met /\ trip'.limits = trip.limits /\ trip'.members = trip.members
      /\ trip'.stage = "placing" /\ trip'.slots = anchors /\ trip'.seen = trip.seen
      /\ trip'.activities = trip.activities
  BY <1>1, <1>6 DEF Trip
<1>9. TripType' BY <1>1, <1>7, <1>8 DEF TripInv, TripType, AllMet
<1>10. LimitHolds' /\ BandHolds' BY <1>8, PartyKeeps DEF TripInv
<1>11. SlotsSuit' /\ SlotsApart' BY <1>5, <1>8 DEF SlotsSuit, SlotsApart, SlotSuits, OfKind
<1> QED BY <1>9, <1>10, <1>11 DEF TripInv

\* With a start every activity has an end.
LEMMA EndIs ==
  ASSUME NEW s, s.start \in Hours, s.end \in Hours, s.start # {}
  PROVE  EndOf(s) \in Int /\ Value(s.start) \in Int
BY ValueIs DEF EndOf

\* Two activities overlap in either order.
LEMMA OverlapTurns ==
  ASSUME NEW s \in Slots, NEW t \in Slots, s.start # {}, t.start # {}, ~ Overlap(s, t)
  PROVE  ~ Overlap(t, s)
<1>1. s.start \in Hours /\ s.end \in Hours /\ t.start \in Hours /\ t.end \in Hours BY DEF Slots
<1>2. EndOf(s) \in Int /\ EndOf(t) \in Int /\ Value(s.start) \in Int /\ Value(t.start) \in Int BY <1>1, EndIs
<1> QED BY <1>2 DEF Overlap

\* Slots stay suited when one that is suited, and apart from the others, is added.
LEMMA SlotAdded ==
  ASSUME TripType, SlotsSuit, SlotsApart, NEW s \in Slots, SlotSuits(s),
         s.kind = "activity" => Fits(s, trip.slots),
         NEW slots, slots = Append(trip.slots, s)
  PROVE  /\ slots \in Seq(Slots) /\ DOMAIN slots = 1..Len(trip.slots) + 1
         /\ \A i \in DOMAIN slots : SlotSuits(slots[i])
         /\ \A i, j \in OfKind(slots, "activity") : i # j => ~ Overlap(slots[i], slots[j])
<1> DEFINE n == Len(trip.slots)
<1>1. /\ trip.slots \in Seq(Slots) /\ n \in Nat /\ DOMAIN trip.slots = 1..n
      /\ \A i \in 1..n : trip.slots[i] \in Slots
  BY TripIs
<1>2. /\ slots \in Seq(Slots) /\ Len(slots) = n + 1
      /\ \A i \in 1..n : slots[i] = trip.slots[i]
      /\ slots[n + 1] = s
  BY <1>1, AppendProperties
<1>3. DOMAIN slots = 1..n + 1 BY <1>2, LenProperties
<1>4. ASSUME NEW i \in 1..n + 1 PROVE SlotSuits(slots[i])
  <2>1. CASE i = n + 1 BY <2>1, <1>2
  <2>2. CASE i \in 1..n BY <2>2, <1>1, <1>2 DEF SlotsSuit
  <2> QED BY <1>1, <2>1, <2>2
<1>5. ASSUME NEW i \in OfKind(slots, "activity"), NEW j \in OfKind(slots, "activity"), i # j
      PROVE  ~ Overlap(slots[i], slots[j])
  <2>1. i \in 1..n + 1 /\ j \in 1..n + 1 /\ slots[i].kind = "activity" /\ slots[j].kind = "activity"
    BY <1>3 DEF OfKind
  <2>2. CASE i \in 1..n /\ j \in 1..n
    <3>1. i \in OfKind(trip.slots, "activity") /\ j \in OfKind(trip.slots, "activity")
      BY <1>1, <1>2, <2>1, <2>2 DEF OfKind
    <3> QED BY <1>2, <1>5, <2>2, <3>1 DEF SlotsApart
  <2>3. CASE i = n + 1 /\ j \in 1..n
    <3>1. j \in OfKind(trip.slots, "activity") BY <1>1, <1>2, <2>1, <2>3 DEF OfKind
    <3>2. ~ Overlap(s, trip.slots[j]) BY <1>2, <2>1, <2>3, <3>1 DEF Fits
    <3> QED BY <1>2, <2>3, <3>2
  <2>4. CASE j = n + 1 /\ i \in 1..n
    <3>1. i \in OfKind(trip.slots, "activity") BY <1>1, <1>2, <2>1, <2>4 DEF OfKind
    <3>2. ~ Overlap(s, trip.slots[i]) BY <1>2, <2>1, <2>4, <3>1 DEF Fits
    <3>3. SlotSuits(trip.slots[i]) /\ trip.slots[i] \in Slots BY <1>1, <2>4 DEF SlotsSuit
    <3>4. ~ Overlap(trip.slots[i], s)
      BY <3>2, OverlapTurns, <3>3, <1>2, <2>1, <2>4 DEF SlotSuits
    <3> QED BY <1>2, <2>4, <3>4
  <2> QED BY <1>1, <1>5, <2>1, <2>2, <2>3, <2>4
<1> QED BY <1>2, <1>3, <1>4, <1>5

\* A slot that is no activity has no time and disturbs nothing.
LEMMA PlainSlot ==
  ASSUME NEW kind \in {"meal", "buffer"}
  PROVE  /\ Slot(kind, {}, {}) \in Slots /\ Slot(kind, {}, {}).kind # "activity"
         /\ SlotSuits(Slot(kind, {}, {}))
BY EmptyHours DEF Slot, Slots, SlotKinds, SlotSuits

\* The solver's step: the activity is left out, or placed, or placed before
\* the meal; the slots suit in each case.
LEMMA PlacedSuits ==
  ASSUME TripType, SlotsSuit, SlotsApart, NEW a \in Find, PlaceableActivity(a),
         NEW slots, slots = PlacedIn(trip.slots, a, trip.limits.back, trip.dining)
  PROVE  /\ slots \in Seq(Slots)
         /\ \A i \in DOMAIN slots : SlotSuits(slots[i])
         /\ \A i, j \in OfKind(slots, "activity") : i # j => ~ Overlap(slots[i], slots[j])
<1> DEFINE s == Slot("activity", a.start, a.end)
           placed == Append(trip.slots, s)
           meal == Slot("meal", {}, {})
<1>1. trip.slots \in Seq(Slots) /\ trip.limits.back \in Hours BY TripIs
<1>2. a.start \in Hours /\ a.end \in Hours BY DEF Find
<1>3. s \in Slots /\ s.kind = "activity" /\ s.start = a.start /\ s.end = a.end
  BY <1>2 DEF Slot, Slots, SlotKinds
<1>4. EndOf(s) = EndOf(a) /\ EndOf(a) \in Int BY <1>2, <1>3, EndIs DEF EndOf, PlaceableActivity
<1>5. CASE (\E l \in trip.limits.back : EndOf(a) > l) \/ ~ Fits(a, trip.slots)
  <2>1. slots = trip.slots BY <1>5 DEF PlacedIn
  <2> QED BY <1>1, <2>1 DEF SlotsSuit, SlotsApart
<1>6. CASE ~ (\E l \in trip.limits.back : EndOf(a) > l) /\ Fits(a, trip.slots)
  <2>1. Fits(s, trip.slots) BY <1>3, <1>4, <1>6 DEF Fits, Overlap
  <2>2. \A l \in trip.limits.back : EndOf(s) <= l
    <3>1. trip.limits.back \subseteq Int BY <1>1 DEF Hours
    <3> QED BY <1>4, <1>6, <3>1
  <2>3. SlotSuits(s) BY <1>3, <2>2 DEF SlotSuits, PlaceableActivity
  <2> HIDE DEF s
  <2>4. /\ placed \in Seq(Slots)
        /\ \A i \in DOMAIN placed : SlotSuits(placed[i])
        /\ \A i, j \in OfKind(placed, "activity") : i # j => ~ Overlap(placed[i], placed[j])
    BY <1>3, <2>1, <2>3, SlotAdded
  <2>5. slots = placed \/ slots = Append(placed, meal) BY <1>6 DEF PlacedIn, s
  <2> HIDE DEF placed
  <2>6. CASE slots = placed BY <2>4, <2>6
  <2>7. CASE slots = Append(placed, meal)
    <3> DEFINE n == Len(placed)
    <3> HIDE DEF meal
    <3>1. meal \in Slots /\ meal.kind # "activity" /\ SlotSuits(meal) BY PlainSlot DEF meal
    <3>2. /\ slots \in Seq(Slots) /\ Len(slots) = n + 1 /\ n \in Nat
          /\ \A i \in 1..n : slots[i] = placed[i]
          /\ slots[n + 1] = meal
      BY <2>4, <2>7, <3>1, AppendProperties, LenProperties
    <3>3. DOMAIN slots = 1..n + 1 /\ DOMAIN placed = 1..n BY <2>4, <3>2, LenProperties
    <3>4. \A i \in 1..n + 1 : i = n + 1 \/ i \in 1..n BY <3>2
    <3>5. \A i \in DOMAIN slots : SlotSuits(slots[i]) BY <2>4, <3>1, <3>2, <3>3, <3>4
    <3>6. OfKind(slots, "activity") \subseteq OfKind(placed, "activity")
      BY <3>1, <3>2, <3>3, <3>4 DEF OfKind
    <3>7. \A i \in OfKind(slots, "activity") : slots[i] = placed[i]
      BY <3>2, <3>3, <3>6 DEF OfKind
    <3> QED BY <2>4, <3>2, <3>5, <3>6, <3>7
  <2> QED BY <2>5, <2>6, <2>7
<1> QED BY <1>5, <1>6

\* A step of the solver that leaves such slots keeps the invariant.
LEMMA SlotsKeep ==
  ASSUME TripInv, trip.stage = "placing",
         NEW stage \in {"placing", "solved"}, NEW seen, seen \subseteq DOMAIN trip.activities,
         NEW slots \in Seq(Slots),
         trip' = [trip EXCEPT !.stage = stage, !.seen = seen, !.slots = slots],
         \A i \in DOMAIN slots : SlotSuits(slots[i]),
         \A i, j \in OfKind(slots, "activity") : i # j => ~ Overlap(slots[i], slots[j])
  PROVE  TripInv'
<1>1. trip \in Trip /\ AllMet /\ seen \subseteq Nat BY TripIs DEF TripInv, TripType
<1>2. trip' \in Trip BY <1>1 DEF Trip, TripStages
<1>3. /\ trip'.met = trip.met /\ trip'.limits = trip.limits /\ trip'.members = trip.members
      /\ trip'.stage = stage /\ trip'.slots = slots /\ trip'.seen = seen
      /\ trip'.activities = trip.activities
  BY <1>1 DEF Trip
<1>4. TripType' BY <1>1, <1>2, <1>3 DEF TripInv, TripType, AllMet
<1>5. LimitHolds' /\ BandHolds' BY <1>3, PartyKeeps DEF TripInv
<1>6. SlotsSuit' /\ SlotsApart' BY <1>3 DEF SlotsSuit, SlotsApart, SlotSuits, OfKind
<1> QED BY <1>4, <1>5, <1>6 DEF TripInv

\* Placing an activity, or leaving it out, keeps the invariant.
LEMMA PlaceKeeps ==
  ASSUME TripInv, PlaceNext
  PROVE  TripInv'
<1> DEFINE slots(i) == PlacedIn(trip.slots, trip.activities[i], trip.limits.back, trip.dining)
<1>1. PICK i \in Waiting :
        trip' = [trip EXCEPT !.seen = trip.seen \cup {i}, !.slots = slots(i)]
  BY DEF PlaceNext
<1>2. i \in DOMAIN trip.activities /\ PlaceableActivity(trip.activities[i]) BY DEF Waiting
<1>3. trip.activities[i] \in Find /\ trip.seen \cup {i} \subseteq DOMAIN trip.activities
  BY <1>2, TripIs DEF TripInv, TripType
<1>4. /\ slots(i) \in Seq(Slots)
      /\ \A k \in DOMAIN slots(i) : SlotSuits(slots(i)[k])
      /\ \A k, j \in OfKind(slots(i), "activity") : k # j => ~ Overlap(slots(i)[k], slots(i)[j])
  BY <1>2, <1>3, PlacedSuits DEF TripInv
<1> HIDE DEF slots
<1>5. trip.stage = "placing" /\ trip \in Trip BY DEF PlaceNext, TripInv, TripType
<1>6. trip' = [trip EXCEPT !.stage = "placing", !.seen = trip.seen \cup {i}, !.slots = slots(i)]
  BY <1>1, <1>5 DEF Trip
<1> QED BY <1>3, <1>4, <1>5, <1>6, SlotsKeep

\* So does the buffer for the way back.
LEMMA CloseKeeps ==
  ASSUME TripInv, Close
  PROVE  TripInv'
<1> DEFINE buffer == Slot("buffer", {}, {})
           slots == IF trip.slots = <<>> THEN trip.slots ELSE Append(trip.slots, buffer)
<1>1. trip.stage = "placing" /\ trip \in Trip BY DEF Close, TripInv, TripType
<1>2. trip' = [trip EXCEPT !.stage = "solved", !.slots = slots] BY DEF Close
<1>3. buffer \in Slots /\ buffer.kind # "activity" /\ SlotSuits(buffer) BY PlainSlot
<1> HIDE DEF buffer
<1>4. /\ slots \in Seq(Slots)
      /\ \A i \in DOMAIN slots : SlotSuits(slots[i])
      /\ \A i, j \in OfKind(slots, "activity") : i # j => ~ Overlap(slots[i], slots[j])
  <2>1. CASE trip.slots = <<>>
    <3>1. slots = trip.slots BY <2>1
    <3> QED BY <3>1, TripIs DEF TripInv, SlotsSuit, SlotsApart
  <2>2. CASE trip.slots # <<>>
    <3>1. slots = Append(trip.slots, buffer) BY <2>2
    <3> QED BY <1>3, <3>1, SlotAdded DEF TripInv
  <2> QED BY <2>1, <2>2
<1> HIDE DEF slots
<1>5. trip' = [trip EXCEPT !.stage = "solved", !.seen = trip.seen, !.slots = slots]
  BY <1>1, <1>2 DEF Trip
<1>6. trip.seen \subseteq DOMAIN trip.activities BY DEF TripInv, TripType
<1> QED BY <1>1, <1>4, <1>5, <1>6, SlotsKeep

\* The invariant holds in every state of every trip.
LEMMA TripInvariant == TripSpec => []TripInv
<1>1. ASSUME TripInv, [TripNext]_trip PROVE TripInv'
  <2>1. CASE UNCHANGED trip
    BY <1>1, <2>1 DEF TripInv, TripType, LimitHolds, BandHolds, SuitsMet, SlotsSuit, SlotsApart,
         SlotSuits, OfKind, AllMet
  <2>2. CASE TripNext
    BY <1>1, <2>2, MeetKeeps, DiscoverKeeps, AnchorsKeep, PlaceKeeps, CloseKeeps DEF TripNext
  <2> QED BY <1>1, <2>1, <2>2
<1> QED BY <1>1, InitTrip, PTL DEF TripSpec

\* Suited slots leave the validator nothing to object.
LEMMA NoIssues ==
  ASSUME TripInv
  PROVE  Issues(trip.slots, trip.limits.back) = {}
<1> DEFINE n == Len(trip.slots)
           timed == {i \in DOMAIN trip.slots : trip.slots[i].start # {} /\ trip.slots[i].end # {}}
           S(i) == Value(trip.slots[i].start)
           E(i) == Value(trip.slots[i].end)
           ends == UNION {trip.slots[i].end : i \in DOMAIN trip.slots}
<1>1. \A i \in DOMAIN trip.slots :
        /\ trip.slots[i].start \in Hours /\ trip.slots[i].end \in Hours
        /\ SlotSuits(trip.slots[i])
  BY TripIs DEF TripInv, SlotsSuit, Slots
<1>2. ASSUME NEW i \in timed
      PROVE  /\ i \in OfKind(trip.slots, "activity") /\ S(i) \in trip.slots[i].start
             /\ E(i) \in trip.slots[i].end /\ EndOf(trip.slots[i]) = E(i)
             /\ S(i) \in Int /\ E(i) \in Int /\ i \in Nat
  BY <1>1, <1>2, ValueIs, TripIs DEF SlotSuits, OfKind, EndOf, TripInv
<1>3. ~ \E i, j \in timed : i < j /\ S(i) < E(j) /\ S(j) < E(i)
  <2> SUFFICES ASSUME NEW i \in timed, NEW j \in timed, i < j, S(i) < E(j), S(j) < E(i)
               PROVE  FALSE
    OBVIOUS
  <2>1. i # j BY <1>2
  <2>2. ~ Overlap(trip.slots[i], trip.slots[j]) BY <1>2, <2>1 DEF TripInv, SlotsApart
  <2> QED BY <1>2, <2>2 DEF Overlap
<1>4. ~ \E l \in trip.limits.back, e \in ends : e > l
  <2> SUFFICES ASSUME NEW l \in trip.limits.back, NEW i \in DOMAIN trip.slots,
                      NEW e \in trip.slots[i].end, e > l
               PROVE  FALSE
    OBVIOUS
  <2>1. EndOf(trip.slots[i]) = e /\ EndOf(trip.slots[i]) <= l
    BY <1>1, ValueIs DEF SlotSuits, EndOf
  <2>2. e \in Int /\ l \in Int BY <1>1, TripIs DEF TripInv, Hours
  <2> QED BY <2>1, <2>2
<1>5. ~ \E i \in timed : E(i) < S(i)
  <2> SUFFICES ASSUME NEW i \in timed, E(i) < S(i) PROVE FALSE OBVIOUS
  <2>1. E(i) >= S(i) BY <1>1, <1>2 DEF SlotSuits, OfKind
  <2> QED BY <1>2, <2>1
<1>6. ~ \E i \in OfKind(trip.slots, "activity") : \E e \in trip.slots[i].end : e < Now
  <2> SUFFICES ASSUME NEW i \in DOMAIN trip.slots, NEW e \in trip.slots[i].end,
                      trip.slots[i].kind = "activity", e < Now
               PROVE  FALSE
    BY DEF OfKind
  <2>1. e >= Now BY <1>1 DEF SlotSuits
  <2>2. e \in Int BY <1>1 DEF Hours
  <2> QED BY <2>1, <2>2, HoursAssumption
<1> QED BY <1>3, <1>4, <1>5, <1>6 DEF Issues

\* The limits put together and the timeline solved from them suit every
\* member, whatever the members' limits and whatever activities are found.
THEOREM TripsSuitAll == TripSpec => []TripsSuit
<1>1. ASSUME TripInv PROVE TripsSuit
  <2> USE <1>1 DEF TripInv
  <2>1. ASSUME AllMet PROVE BandSuitsAll
    <3>1. DOMAIN trip.members = 1..trip.met BY <2>1, MembersMet DEF AllMet
    <3>2. \A x : SuitsAll(x) <=> SuitsMet(x) BY <3>1 DEF SuitsAll, SuitsMet
    <3>3. Named \subseteq Int
      BY MembersMet DEF Named, Member, Limits, Hours
    <3> QED BY <3>2, <3>3 DEF BandHolds, BandSuitsAll
  <2>2. ASSUME trip.stage = "solved" PROVE TimelineSuitsAll
    <3>1. AllMet BY <2>2 DEF TripType
    <3>2. ASSUME NEW i \in OfKind(trip.slots, "activity"), NEW m \in DOMAIN trip.members,
                 NEW l \in trip.members[m].back
          PROVE  EndOf(trip.slots[i]) <= l
      <4>1. m \in 1..trip.met BY <3>1, MembersMet DEF AllMet
      <4>2. PICK b \in trip.limits.back : b <= l BY <4>1 DEF LimitHolds
      <4>3. trip.slots[i] \in Slots /\ SlotSuits(trip.slots[i]) /\ trip.slots[i].kind = "activity"
        BY TripIs DEF OfKind, SlotsSuit
      <4>4. EndOf(trip.slots[i]) <= b BY <4>2, <4>3 DEF SlotSuits
      <4>5. EndOf(trip.slots[i]) \in Int BY <4>3, EndIs DEF SlotSuits, Slots
      <4>6. b \in Int BY TripIs DEF Hours
      <4>7. l \in Int
        <5>1. trip.members[m] \in Member BY MembersMet
        <5> QED BY <5>1 DEF Member, Hours
      <4> QED BY <4>2, <4>4, <4>5, <4>6, <4>7
    <3> QED BY <3>2, NoIssues DEF TimelineSuitsAll, SlotsApart
  <2> QED BY <2>1, <2>2 DEF TripsSuit
<1> QED BY <1>1, TripInvariant, PTL

-----------------------------------------------------------------------------
(* The itinerary of a reply.                                                *)

DraftStages == {"offering", "drafting", "repairing", "kept"}
Ids == DOMAIN draft.serves

DraftType ==
  /\ draft.stage \in DraftStages
  /\ draft.serves \in Seq(SUBSET Nat)
  /\ draft.goals \in Seq(Goal)
  /\ draft.at \in Nat \ {0} /\ draft.given \in Nat /\ draft.cut \in BOOLEAN
  /\ draft.fallback \in Seq(Ids) /\ draft.itinerary \in Seq(Ids)
  /\ draft = [stage |-> draft.stage, serves |-> draft.serves, goals |-> draft.goals,
              at |-> draft.at, given |-> draft.given, fallback |-> draft.fallback,
              itinerary |-> draft.itinerary, cut |-> draft.cut]

\* No activity is offered twice.
Once(itinerary) == \A i, j \in DOMAIN itinerary : itinerary[i] = itinerary[j] => i = j

\* While the fallback is put together the goals passed have been offered enough.
OfferInv ==
  draft.stage = "offering" =>
    /\ ~ draft.cut
    /\ \A g \in DOMAIN draft.goals : g < draft.at => Enough(draft.fallback, g)
    /\ draft.at \in DOMAIN draft.goals => Count(draft.fallback, draft.at) >= draft.given

\* Afterwards all have, unless the end was cut off.
FallbackInv ==
  /\ Once(draft.fallback)
  /\ draft.stage # "offering" /\ ~ draft.cut =>
       \A g \in DOMAIN draft.goals : Enough(draft.fallback, g)

\* What the fallback has for a goal is in the itinerary, or enough of it.
Mended(g) ==
  \/ Count(draft.itinerary, g) >= draft.goals[g].target
  \/ \A k \in Serving(draft.fallback, g) : draft.fallback[k] \in ToSet(draft.itinerary)

RepairInv ==
  draft.stage = "repairing" =>
    \A g \in DOMAIN draft.goals : g < draft.at /\ draft.goals[g].required => Mended(g)

DraftInv == DraftType /\ OfferInv /\ FallbackInv /\ RepairInv /\ DraftsServe

-----------------------------------------------------------------------------

\* A goal asks for at least one activity.
LEMMA GoalIs ==
  ASSUME DraftType
  PROVE  /\ Len(draft.goals) \in Nat /\ DOMAIN draft.goals = 1..Len(draft.goals)
         /\ \A g \in DOMAIN draft.goals :
              /\ draft.goals[g].target \in Nat /\ draft.goals[g].target # 0
              /\ draft.goals[g].required \in BOOLEAN
<1>1. draft.goals \in Seq(Goal) BY DEF DraftType
<1>2. Len(draft.goals) \in Nat /\ DOMAIN draft.goals = 1..Len(draft.goals) BY <1>1, LenProperties
<1>3. ASSUME NEW g \in DOMAIN draft.goals
      PROVE  draft.goals[g].target \in Nat /\ draft.goals[g].target # 0 /\ draft.goals[g].required \in BOOLEAN
  <2>1. draft.goals[g] \in Goal BY <1>1, <1>2, ElementOfSeq
  <2> QED BY <2>1 DEF Goal
<1> QED BY <1>2, <1>3

\* The places of an itinerary that serve a goal can be counted.
LEMMA CountIs ==
  ASSUME DraftType, NEW s \in Seq(Ids), NEW g
  PROVE  IsFiniteSet(Serving(s, g)) /\ Count(s, g) \in Nat
<1>1. Len(s) \in Nat /\ DOMAIN s = 1..Len(s) BY LenProperties
<1>2. IsFiniteSet(1..Len(s)) BY <1>1, FS_Interval
<1>3. Serving(s, g) \subseteq 1..Len(s) BY <1>1 DEF Serving
<1>4. IsFiniteSet(Serving(s, g)) BY <1>2, <1>3, FS_Subset
<1> QED BY <1>4, FS_CardinalityType DEF Count

\* One more activity never leaves a goal with less, and one that serves it
\* counts.
LEMMA CountAppend ==
  ASSUME DraftType, NEW s \in Seq(Ids), NEW id \in Ids, NEW g
  PROVE  /\ Append(s, id) \in Seq(Ids)
         /\ ToSet(Append(s, id)) = ToSet(s) \cup {id}
         /\ Count(Append(s, id), g) >= Count(s, g)
         /\ g \in draft.serves[id] => Count(Append(s, id), g) = Count(s, g) + 1
<1> DEFINE n == Len(s)
           t == Append(s, id)
<1>1. /\ n \in Nat /\ DOMAIN s = 1..n /\ t \in Seq(Ids) /\ Len(t) = n + 1
      /\ \A i \in 1..n : t[i] = s[i]
      /\ t[n + 1] = id
  BY LenProperties, AppendProperties
<1>2. DOMAIN t = 1..n + 1 BY <1>1, LenProperties
<1>3. \A i \in 1..n + 1 : i = n + 1 \/ i \in 1..n BY <1>1
<1> HIDE DEF t
<1>4. ToSet(t) = ToSet(s) \cup {id}
  <2>1. ToSet(t) \subseteq ToSet(s) \cup {id} BY <1>1, <1>2, <1>3 DEF ToSet
  <2>2. ToSet(s) \cup {id} \subseteq ToSet(t) BY <1>1, <1>2 DEF ToSet
  <2> QED BY <2>1, <2>2
<1>5. IsFiniteSet(Serving(s, g)) /\ Cardinality(Serving(s, g)) \in Nat BY CountIs DEF Count
<1>6. n + 1 \notin Serving(s, g) BY <1>1 DEF Serving
<1>7. CASE g \in draft.serves[id]
  <2>1. Serving(t, g) = Serving(s, g) \cup {n + 1}
    BY <1>1, <1>2, <1>3, <1>7 DEF Serving
  <2>2. Cardinality(Serving(t, g)) = Cardinality(Serving(s, g)) + 1
    BY <1>5, <1>6, <2>1, FS_AddElement
  <2> QED BY <1>1, <1>4, <1>5, <2>2 DEF Count, t
<1>8. CASE g \notin draft.serves[id]
  <2>1. Serving(t, g) = Serving(s, g) BY <1>1, <1>2, <1>3, <1>8 DEF Serving
  <2> QED BY <1>1, <1>4, <1>5, <1>8, <2>1 DEF Count, t
<1> QED BY <1>7, <1>8

\* What is at least a number that is at least another.
LEMMA AtLeast ==
  ASSUME NEW a \in Nat, NEW b \in Nat, NEW c \in Nat, a >= b, b >= c
  PROVE  a >= c
OBVIOUS

\* Who has enough keeps it when an activity is added.
LEMMA EnoughGrows ==
  ASSUME DraftType, NEW s \in Seq(Ids), NEW id \in Ids, NEW g \in DOMAIN draft.goals, Enough(s, g)
  PROVE  Enough(Append(s, id), g)
<1>1. ToSet(Append(s, id)) = ToSet(s) \cup {id} /\ Count(Append(s, id), g) >= Count(s, g)
  BY CountAppend
<1>2. Append(s, id) \in Seq(Ids) BY CountAppend
<1>3. Count(s, g) \in Nat /\ Count(Append(s, id), g) \in Nat /\ draft.goals[g].target \in Nat
  BY <1>2, CountIs, GoalIs
<1>4. CASE Count(s, g) >= draft.goals[g].target
  <2>1. Count(Append(s, id), g) >= draft.goals[g].target
    BY <1>1, <1>3, <1>4, AtLeast
  <2> QED BY <2>1 DEF Enough
<1>5. CASE \A a \in DOMAIN draft.serves : g \in draft.serves[a] => a \in ToSet(s)
  BY <1>1, <1>5 DEF Enough
<1> QED BY <1>4, <1>5 DEF Enough

\* An itinerary that names every serving entry of another, in which no activity
\* stands twice, serves the goal at least as often.
LEMMA CountCovers ==
  ASSUME DraftType, NEW s \in Seq(Ids), NEW t \in Seq(Ids), NEW g, Once(s),
         \A k \in Serving(s, g) : s[k] \in ToSet(t)
  PROVE  Count(t, g) >= Count(s, g)
<1> DEFINE place == [k \in Serving(s, g) |-> CHOOSE j \in DOMAIN t : t[j] = s[k]]
<1>1. ASSUME NEW k \in Serving(s, g)
      PROVE  place[k] \in Serving(t, g) /\ t[place[k]] = s[k]
  <2>1. \E j \in DOMAIN t : t[j] = s[k] BY DEF ToSet
  <2>2. place[k] \in DOMAIN t /\ t[place[k]] = s[k] BY <2>1
  <2> QED BY <2>2 DEF Serving
<1>2. place \in [Serving(s, g) -> Serving(t, g)] BY <1>1
<1>3. ASSUME NEW k \in Serving(s, g), NEW l \in Serving(s, g), place[k] = place[l]
      PROVE  k = l
  <2>1. s[k] = s[l] BY <1>1, <1>3
  <2> QED BY <2>1 DEF Once, Serving
<1> HIDE DEF place
<1>4. IsFiniteSet(Serving(s, g)) /\ IsFiniteSet(Serving(t, g)) BY CountIs
<1>5. place \in Injection(Serving(s, g), Serving(t, g)) BY <1>2, <1>3 DEF Injection, IsInjective
<1>6. Cardinality(Serving(s, g)) <= Cardinality(Serving(t, g))
  BY <1>4, <1>5, FS_Injection DEF ExistsInjection
<1> QED BY <1>6, CountIs DEF Count

-----------------------------------------------------------------------------
(* The steps.                                                               *)

\* Only "draft.serves" and "draft.goals" matter to what an itinerary counts.
LEMMA CountKeeps ==
  ASSUME draft'.serves = draft.serves, draft'.goals = draft.goals
  PROVE  /\ \A s, g : Serving(s, g)' = Serving(s, g) /\ Count(s, g)' = Count(s, g)
         /\ \A s, g : Enough(s, g)' <=> Enough(s, g)
BY DEF Serving, Count, Enough

\* A reply that is begun has the invariant.
LEMMA InitDraft == DraftInit => DraftInv
<1> SUFFICES ASSUME DraftInit PROVE DraftInv OBVIOUS
<1>1. PICK s \in Candidates, g \in GoalLists :
        draft = [stage |-> "offering", serves |-> s, goals |-> g, at |-> 1, given |-> 0,
                 fallback |-> <<>>, itinerary |-> <<>>, cut |-> FALSE]
  BY DEF DraftInit
<1>2. s \in Seq(SUBSET Nat) /\ g \in Seq(Goal) BY CandidatesAssumption, GoalsAssumption
<1>3. <<>> \in Seq(Ids) /\ DOMAIN <<>> = {} BY EmptySeq
<1>4. DraftType BY <1>1, <1>2, <1>3 DEF DraftType, DraftStages
<1>5. /\ draft.stage = "offering" /\ draft.at = 1 /\ draft.given = 0 /\ draft.fallback = <<>>
      /\ draft.cut = FALSE
  BY <1>1
<1>6. OfferInv
  <2>1. Count(draft.fallback, 1) \in Nat BY <1>4, CountIs DEF DraftType
  <2>2. \A k \in DOMAIN draft.goals : ~ (k < 1) BY <1>4, GoalIs
  <2> QED BY <1>5, <2>1, <2>2 DEF OfferInv
<1>7. FallbackInv BY <1>3, <1>5 DEF FallbackInv, Once
<1> QED BY <1>4, <1>5, <1>6, <1>7 DEF DraftInv, RepairInv, DraftsServe

\* An activity offered counts for the goal at work, and is new.
LEMMA OfferKeeps ==
  ASSUME DraftInv, Offer
  PROVE  DraftInv'
<1>0. DraftType /\ OfferInv /\ FallbackInv BY DEF DraftInv
<1>1. PICK id \in Offerable :
        draft' = [draft EXCEPT !.fallback = Append(draft.fallback, id), !.given = draft.given + 1]
  BY DEF Offer
<1>2. /\ draft.stage = "offering" /\ draft.at <= Len(draft.goals) /\ draft.fallback \in Seq(Ids)
      /\ draft.given \in Nat /\ draft.at \in Nat \ {0}
  BY <1>0 DEF Offer, AtGoal, DraftType
<1>3. id \in Ids /\ draft.at \in draft.serves[id] /\ id \notin ToSet(draft.fallback)
  BY DEF Offerable, Ids
<1> DEFINE s == draft.fallback
           t == Append(s, id)
<1>4. /\ t \in Seq(Ids)
      /\ \A g : Count(t, g) >= Count(s, g)
      /\ Count(t, draft.at) = Count(s, draft.at) + 1
  BY <1>0, <1>2, <1>3, CountAppend
<1>5. Count(s, draft.at) \in Nat BY <1>0, <1>2, CountIs
<1>6. draft.at \in DOMAIN draft.goals BY <1>0, <1>2, GoalIs
<1>7. Once(t)
  <2> DEFINE n == Len(s)
  <2>1. /\ n \in Nat /\ DOMAIN s = 1..n /\ Len(t) = n + 1 /\ DOMAIN t = 1..n + 1
        /\ \A i \in 1..n : t[i] = s[i]
        /\ t[n + 1] = id
    BY <1>2, <1>3, <1>4, LenProperties, AppendProperties
  <2>2. \A i \in 1..n + 1 : i = n + 1 \/ i \in 1..n BY <2>1
  <2>3. \A i \in 1..n : s[i] # id BY <1>3, <2>1 DEF ToSet
  <2>4. Once(s) BY <1>0 DEF FallbackInv
  <2> HIDE DEF t
  <2> QED BY <2>1, <2>2, <2>3, <2>4 DEF Once
<1>8. \A g \in DOMAIN draft.goals : Enough(s, g) => Enough(t, g)
  BY <1>0, <1>2, <1>3, EnoughGrows
<1> HIDE DEF t
<1>9. /\ draft'.stage = "offering" /\ draft'.serves = draft.serves /\ draft'.goals = draft.goals
      /\ draft'.at = draft.at /\ draft'.given = draft.given + 1 /\ draft'.fallback = t
      /\ draft'.itinerary = draft.itinerary /\ draft'.cut = draft.cut
      /\ draft' = [stage |-> draft'.stage, serves |-> draft'.serves, goals |-> draft'.goals,
                   at |-> draft'.at, given |-> draft'.given, fallback |-> draft'.fallback,
                   itinerary |-> draft'.itinerary, cut |-> draft'.cut]
  BY <1>0, <1>1, <1>2 DEF DraftType, t
<1>10. DraftType' BY <1>0, <1>2, <1>4, <1>9 DEF DraftType, Ids
<1>11. OfferInv'
  <2>1. Count(s, draft.at) >= draft.given BY <1>0, <1>2, <1>6 DEF OfferInv
  <2>2. Count(t, draft.at) >= draft.given + 1 BY <1>2, <1>4, <1>5, <2>1
  <2> QED BY <1>0, <1>2, <1>8, <1>9, <2>2, CountKeeps DEF OfferInv
<1>12. FallbackInv' BY <1>7, <1>9 DEF FallbackInv, Once
<1> QED BY <1>9, <1>10, <1>11, <1>12 DEF DraftInv, RepairInv, DraftsServe

\* A goal is left when it was given its target, or nothing is left for it.
LEMMA OfferedKeeps ==
  ASSUME DraftInv, Offered
  PROVE  DraftInv'
<1>0. DraftType /\ OfferInv /\ FallbackInv BY DEF DraftInv
<1>1. draft' = [draft EXCEPT !.at = draft.at + 1, !.given = 0] BY DEF Offered, NextGoal
<1>2. /\ draft.stage = "offering" /\ draft.at <= Len(draft.goals) /\ draft.fallback \in Seq(Ids)
      /\ draft.given \in Nat /\ draft.at \in Nat \ {0}
  BY <1>0 DEF Offered, AtGoal, DraftType
<1>3. draft.at \in DOMAIN draft.goals BY <1>0, <1>2, GoalIs
<1>4. /\ draft'.stage = "offering" /\ draft'.serves = draft.serves /\ draft'.goals = draft.goals
      /\ draft'.at = draft.at + 1 /\ draft'.given = 0 /\ draft'.fallback = draft.fallback
      /\ draft'.itinerary = draft.itinerary /\ draft'.cut = draft.cut
      /\ draft' = [stage |-> draft'.stage, serves |-> draft'.serves, goals |-> draft'.goals,
                   at |-> draft'.at, given |-> draft'.given, fallback |-> draft'.fallback,
                   itinerary |-> draft'.itinerary, cut |-> draft'.cut]
  BY <1>0, <1>1, <1>2 DEF DraftType
<1>5. DraftType' BY <1>0, <1>2, <1>4 DEF DraftType, Ids
<1>6. Enough(draft.fallback, draft.at)
  <2>1. CASE draft.given >= Target
    <3>1. Count(draft.fallback, draft.at) \in Nat BY <1>0, <1>2, CountIs
    <3>2. Count(draft.fallback, draft.at) >= draft.given BY <1>0, <1>2, <1>3 DEF OfferInv
    <3>3. draft.goals[draft.at].target \in Nat BY <1>0, <1>3, GoalIs
    <3>4. draft.given >= draft.goals[draft.at].target BY <2>1 DEF Target
    <3>5. Count(draft.fallback, draft.at) >= draft.goals[draft.at].target
      BY <1>2, <3>1, <3>2, <3>3, <3>4, AtLeast
    <3> QED BY <3>5 DEF Enough
  <2>2. CASE Offerable = {}
    BY <2>2 DEF Enough, Offerable
  <2> QED BY <2>1, <2>2 DEF Offered
<1>7. \A g \in DOMAIN draft.goals : g < draft.at + 1 => g < draft.at \/ g = draft.at
  BY <1>0, <1>2, GoalIs
<1>8. \A g : Count(draft.fallback, g) \in Nat BY <1>0, <1>2, CountIs
<1>9. OfferInv' BY <1>0, <1>2, <1>4, <1>6, <1>7, <1>8, CountKeeps DEF OfferInv
<1>10. FallbackInv' BY <1>0, <1>4 DEF FallbackInv, Once
<1> QED BY <1>4, <1>5, <1>9, <1>10 DEF DraftInv, RepairInv, DraftsServe

\* What is cut keeps its beginning, and is whole if it is short enough.
LEMMA CutIs ==
  ASSUME NEW S, NEW s \in Seq(S), NEW n \in Nat
  PROVE  /\ Cut(s, n) \in Seq(S)
         /\ Once(s) => Once(Cut(s, n))
         /\ ~ (Len(s) > n) => Cut(s, n) = s
<1>1. Len(s) \in Nat /\ DOMAIN s = 1..Len(s) BY LenProperties
<1>2. CASE Len(s) <= n BY <1>2 DEF Cut
<1>3. CASE ~ (Len(s) <= n)
  <2> DEFINE t == SubSeq(s, 1, n)
  <2>1. \A i \in 1..n : s[i] \in S BY <1>1, <1>3, ElementOfSeq
  <2>2. t \in Seq(S) /\ Len(t) = (IF 1 <= n THEN n - 1 + 1 ELSE 0) /\ \A i \in 1..n - 1 + 1 : t[i] = s[1 + i - 1]
    BY <2>1, SubSeqProperties
  <2> HIDE DEF t
  <2>3. t \in Seq(S) /\ Len(t) = n /\ \A i \in 1..n : t[i] = s[i] BY <2>2
  <2>4. DOMAIN t = 1..n BY <2>3, LenProperties
  <2>5. Once(s) => Once(t) BY <1>1, <1>3, <2>3, <2>4 DEF Once
  <2>6. Cut(s, n) = t BY <1>3 DEF Cut, t
  <2> QED BY <1>1, <1>3, <2>3, <2>5, <2>6
<1> QED BY <1>2, <1>3

\* Without candidates for a goal there is nothing the fallback could owe it.
LEMMA FallBackKeeps ==
  ASSUME DraftInv, FallBack
  PROVE  DraftInv'
<1> DEFINE ids == [id \in DOMAIN draft.serves |-> id]
           chosen == IF draft.fallback = <<>> THEN Cut(ids, 8) ELSE draft.fallback
           t == Cut(chosen, MaxFallback)
           cut == Len(chosen) > MaxFallback
<1>0. DraftType /\ OfferInv /\ FallbackInv BY DEF DraftInv
<1>1. draft' = [draft EXCEPT !.stage = "drafting", !.fallback = t, !.cut = cut] BY DEF FallBack
<1>2. /\ draft.stage = "offering" /\ draft.at > Len(draft.goals) /\ draft.fallback \in Seq(Ids)
      /\ draft.at \in Nat /\ draft.serves \in Seq(SUBSET Nat)
  BY <1>0 DEF FallBack, AllServed, DraftType
<1>3. ids \in Seq(Ids) /\ Once(ids)
  <2>1. Len(draft.serves) \in Nat /\ Ids = 1..Len(draft.serves) BY <1>2, LenProperties DEF Ids
  <2>2. ids \in [1..Len(draft.serves) -> Ids] BY <2>1 DEF Ids
  <2>3. \A i \in DOMAIN ids : ids[i] = i OBVIOUS
  <2> HIDE DEF ids
  <2> QED BY <2>1, <2>2, <2>3 DEF Once
<1> HIDE DEF ids
<1>4. chosen \in Seq(Ids) /\ Once(chosen)
  <2>1. Cut(ids, 8) \in Seq(Ids) /\ Once(Cut(ids, 8)) BY <1>3, CutIs
  <2> QED BY <1>0, <1>2, <2>1 DEF FallbackInv
<1>5. \A g \in DOMAIN draft.goals : Enough(chosen, g)
  <2> SUFFICES ASSUME NEW g \in DOMAIN draft.goals PROVE Enough(chosen, g) OBVIOUS
  <2>1. g < draft.at BY <1>0, <1>2, GoalIs
  <2>2. Enough(draft.fallback, g) BY <1>0, <1>2, <2>1 DEF OfferInv
  <2>3. CASE draft.fallback # <<>> BY <2>2, <2>3
  <2>4. CASE draft.fallback = <<>>
    <3>1. DOMAIN draft.fallback = {} BY <2>4, EmptySeq
    <3>2. ToSet(draft.fallback) = {} /\ Serving(draft.fallback, g) = {} BY <3>1 DEF ToSet, Serving
    <3>3. Count(draft.fallback, g) = 0 BY <3>2, FS_EmptySet DEF Count
    <3>4. ~ (0 >= draft.goals[g].target) BY <1>0, GoalIs
    <3>5. \A id \in DOMAIN draft.serves : g \notin draft.serves[id] BY <2>2, <3>2, <3>3, <3>4 DEF Enough
    <3> QED BY <3>5 DEF Enough
  <2> QED BY <2>3, <2>4
<1> HIDE DEF chosen
<1>6. t \in Seq(Ids) /\ Once(t) /\ (~ cut => t = chosen) BY <1>4, CutIs, CutsAssumption
<1> HIDE DEF t
<1>7. /\ draft'.stage = "drafting" /\ draft'.serves = draft.serves /\ draft'.goals = draft.goals
      /\ draft'.at = draft.at /\ draft'.given = draft.given /\ draft'.fallback = t
      /\ draft'.itinerary = draft.itinerary /\ draft'.cut = cut
      /\ draft' = [stage |-> draft'.stage, serves |-> draft'.serves, goals |-> draft'.goals,
                   at |-> draft'.at, given |-> draft'.given, fallback |-> draft'.fallback,
                   itinerary |-> draft'.itinerary, cut |-> draft'.cut]
  BY <1>0, <1>1, <1>2 DEF DraftType
<1>8. DraftType' BY <1>0, <1>2, <1>6, <1>7 DEF DraftType, DraftStages, Ids
<1>9. FallbackInv' BY <1>5, <1>6, <1>7, CountKeeps DEF FallbackInv, Once
<1> QED BY <1>7, <1>8, <1>9 DEF DraftInv, OfferInv, RepairInv, DraftsServe

\* The model may draft anything: no goal has been repaired yet.
LEMMA ReplyKeeps ==
  ASSUME DraftInv, Reply
  PROVE  DraftInv'
<1>0. DraftType /\ FallbackInv BY DEF DraftInv
<1>1. PICK n \in 0..MaxReply : \E reply \in [1..n -> DOMAIN draft.serves] :
        draft' = [draft EXCEPT !.stage = "repairing", !.itinerary = reply, !.at = 1]
  BY DEF Reply
<1>2. PICK reply \in [1..n -> DOMAIN draft.serves] :
        draft' = [draft EXCEPT !.stage = "repairing", !.itinerary = reply, !.at = 1]
  BY <1>1
<1>3. reply \in Seq(Ids)
  <2>1. n \in Nat BY CutsAssumption
  <2> QED BY <1>2, <2>1 DEF Ids
<1>4. draft.stage = "drafting" BY DEF Reply
<1>5. /\ draft'.stage = "repairing" /\ draft'.serves = draft.serves /\ draft'.goals = draft.goals
      /\ draft'.at = 1 /\ draft'.given = draft.given /\ draft'.fallback = draft.fallback
      /\ draft'.itinerary = reply /\ draft'.cut = draft.cut
      /\ draft' = [stage |-> draft'.stage, serves |-> draft'.serves, goals |-> draft'.goals,
                   at |-> draft'.at, given |-> draft'.given, fallback |-> draft'.fallback,
                   itinerary |-> draft'.itinerary, cut |-> draft'.cut]
  BY <1>0, <1>2 DEF DraftType
<1>6. DraftType' BY <1>0, <1>3, <1>5 DEF DraftType, DraftStages, Ids
<1>7. FallbackInv' BY <1>0, <1>4, <1>5, CountKeeps DEF FallbackInv, Once
<1>8. \A g \in DOMAIN draft.goals : ~ (g < 1) BY <1>0, GoalIs
<1>9. RepairInv' BY <1>5, <1>8 DEF RepairInv
<1> QED BY <1>5, <1>6, <1>7, <1>9 DEF DraftInv, OfferInv, DraftsServe

\* The fallback is kept when no model answers.
LEMMA SilenceKeeps ==
  ASSUME DraftInv, Silence
  PROVE  DraftInv'
<1>0. DraftType /\ FallbackInv BY DEF DraftInv
<1>1. draft.stage = "drafting" /\ draft' = [draft EXCEPT !.stage = "kept", !.itinerary = draft.fallback]
  BY DEF Silence
<1>2. /\ draft'.stage = "kept" /\ draft'.serves = draft.serves /\ draft'.goals = draft.goals
      /\ draft'.at = draft.at /\ draft'.given = draft.given /\ draft'.fallback = draft.fallback
      /\ draft'.itinerary = draft.fallback /\ draft'.cut = draft.cut
      /\ draft' = [stage |-> draft'.stage, serves |-> draft'.serves, goals |-> draft'.goals,
                   at |-> draft'.at, given |-> draft'.given, fallback |-> draft'.fallback,
                   itinerary |-> draft'.itinerary, cut |-> draft'.cut]
  BY <1>0, <1>1 DEF DraftType
<1>3. DraftType' BY <1>0, <1>2 DEF DraftType, DraftStages, Ids
<1>4. FallbackInv' BY <1>0, <1>1, <1>2, CountKeeps DEF FallbackInv, Once
<1>5. DraftsServe' BY <1>0, <1>1, <1>2, CountKeeps DEF FallbackInv, DraftsServe
<1> QED BY <1>2, <1>3, <1>4, <1>5 DEF DraftInv, OfferInv, RepairInv

\* A goal that is mended stays so when an activity is added.
LEMMA RepairKeeps ==
  ASSUME DraftInv, Repair
  PROVE  DraftInv'
<1>0. DraftType /\ FallbackInv /\ RepairInv BY DEF DraftInv
<1>1. PICK k \in Repairs : draft' = [draft EXCEPT !.itinerary = Append(draft.itinerary, draft.fallback[k])]
  BY DEF Repair
<1> DEFINE s == draft.itinerary
           id == draft.fallback[k]
           t == Append(s, id)
<1>2. draft.stage = "repairing" /\ s \in Seq(Ids) /\ id \in Ids
  <2>1. k \in DOMAIN draft.fallback BY DEF Repairs, Serving
  <2>2. draft.fallback \in Seq(Ids) BY <1>0 DEF DraftType
  <2> QED BY <1>0, <2>1, <2>2, ElementOfSeq, LenProperties DEF Repair, AtGoal, DraftType
<1> HIDE DEF id
<1>3. /\ t \in Seq(Ids) /\ ToSet(t) = ToSet(s) \cup {id}
      /\ \A g : Count(t, g) >= Count(s, g)
  BY <1>0, <1>2, CountAppend
<1>4. \A g : Count(t, g) \in Nat /\ Count(s, g) \in Nat BY <1>0, <1>2, <1>3, CountIs
<1> HIDE DEF t
<1>5. /\ draft'.stage = "repairing" /\ draft'.serves = draft.serves /\ draft'.goals = draft.goals
      /\ draft'.at = draft.at /\ draft'.given = draft.given /\ draft'.fallback = draft.fallback
      /\ draft'.itinerary = t /\ draft'.cut = draft.cut
      /\ draft' = [stage |-> draft'.stage, serves |-> draft'.serves, goals |-> draft'.goals,
                   at |-> draft'.at, given |-> draft'.given, fallback |-> draft'.fallback,
                   itinerary |-> draft'.itinerary, cut |-> draft'.cut]
  BY <1>0, <1>1, <1>2 DEF DraftType, t, id
<1>6. DraftType' BY <1>0, <1>3, <1>5 DEF DraftType, DraftStages, Ids
<1>7. FallbackInv' BY <1>0, <1>2, <1>5, CountKeeps DEF FallbackInv, Once
<1>8. ASSUME NEW g \in DOMAIN draft.goals, Mended(g) PROVE Mended(g)'
  <2>1. CASE Count(s, g) >= draft.goals[g].target
    <3>1. Count(t, g) >= draft.goals[g].target
      BY <1>0, <1>3, <1>4, <2>1, GoalIs, AtLeast
    <3>2. (Count(draft.itinerary, g) >= draft.goals[g].target)'
      BY <1>5, <3>1 DEF Count, Serving
    <3> QED BY <3>2 DEF Mended
  <2>2. CASE \A j \in Serving(draft.fallback, g) : draft.fallback[j] \in ToSet(s)
    <3>1. \A j \in Serving(draft.fallback, g) : draft.fallback[j] \in ToSet(t) BY <1>3, <2>2
    <3>2. Serving(draft.fallback, g)' = Serving(draft.fallback, g) BY <1>5 DEF Serving
    <3> QED BY <1>5, <3>1, <3>2 DEF Mended
  <2> QED BY <1>8, <2>1, <2>2 DEF Mended
<1>9. RepairInv' BY <1>0, <1>2, <1>5, <1>8 DEF RepairInv
<1> QED BY <1>5, <1>6, <1>7, <1>9 DEF DraftInv, OfferInv, DraftsServe

\* A goal is left when the itinerary has enough, or all the fallback has for it.
LEMMA RepairedKeeps ==
  ASSUME DraftInv, Repaired
  PROVE  DraftInv'
<1>0. DraftType /\ FallbackInv /\ RepairInv BY DEF DraftInv
<1>1. draft' = [draft EXCEPT !.at = draft.at + 1, !.given = 0] BY DEF Repaired, NextGoal
<1>2. /\ draft.stage = "repairing" /\ draft.at <= Len(draft.goals) /\ draft.itinerary \in Seq(Ids)
      /\ draft.at \in Nat \ {0}
  BY <1>0 DEF Repaired, AtGoal, DraftType
<1>3. draft.at \in DOMAIN draft.goals BY <1>0, <1>2, GoalIs
<1>4. /\ draft'.stage = "repairing" /\ draft'.serves = draft.serves /\ draft'.goals = draft.goals
      /\ draft'.at = draft.at + 1 /\ draft'.given = 0 /\ draft'.fallback = draft.fallback
      /\ draft'.itinerary = draft.itinerary /\ draft'.cut = draft.cut
      /\ draft' = [stage |-> draft'.stage, serves |-> draft'.serves, goals |-> draft'.goals,
                   at |-> draft'.at, given |-> draft'.given, fallback |-> draft'.fallback,
                   itinerary |-> draft'.itinerary, cut |-> draft'.cut]
  BY <1>0, <1>1, <1>2 DEF DraftType
<1>5. DraftType' BY <1>0, <1>2, <1>4 DEF DraftType, Ids
<1>6. FallbackInv' BY <1>0, <1>2, <1>4, CountKeeps DEF FallbackInv, Once
<1>7. draft.goals[draft.at].required => Mended(draft.at)
  <2> SUFFICES ASSUME draft.goals[draft.at].required PROVE Mended(draft.at) OBVIOUS
  <2>1. CASE ~ Lacking
    <3>1. Count(draft.itinerary, draft.at) \in Nat /\ draft.goals[draft.at].target \in Nat
      BY <1>0, <1>2, <1>3, CountIs, GoalIs
    <3>2. Count(draft.itinerary, draft.at) >= draft.goals[draft.at].target
      BY <2>1, <3>1 DEF Lacking, Target
    <3> QED BY <3>2 DEF Mended
  <2>2. CASE Repairs = {} BY <2>2 DEF Repairs, Mended
  <2> QED BY <2>1, <2>2 DEF Repaired
<1>8. \A g \in DOMAIN draft.goals : g < draft.at + 1 => g < draft.at \/ g = draft.at
  BY <1>0, <1>2, GoalIs
<1>9. \A g : Mended(g)' <=> Mended(g) BY <1>4 DEF Mended, Count, Serving
<1>10. RepairInv' BY <1>0, <1>2, <1>4, <1>7, <1>8, <1>9 DEF RepairInv
<1> QED BY <1>4, <1>5, <1>6, <1>10 DEF DraftInv, OfferInv, DraftsServe

\* What is mended from a fallback with enough has enough.
LEMMA MendedIsEnough ==
  ASSUME DraftType, Once(draft.fallback), NEW g \in DOMAIN draft.goals,
         Enough(draft.fallback, g), Mended(g)
  PROVE  Enough(draft.itinerary, g)
<1>1. draft.fallback \in Seq(Ids) /\ draft.itinerary \in Seq(Ids) BY DEF DraftType
<1>2. CASE Count(draft.itinerary, g) >= draft.goals[g].target BY <1>2 DEF Enough
<1>3. CASE \A k \in Serving(draft.fallback, g) : draft.fallback[k] \in ToSet(draft.itinerary)
  <2>1. CASE Count(draft.fallback, g) >= draft.goals[g].target
    <3>1. Count(draft.itinerary, g) >= Count(draft.fallback, g) BY <1>1, <1>3, CountCovers
    <3>2. /\ Count(draft.itinerary, g) \in Nat /\ Count(draft.fallback, g) \in Nat
          /\ draft.goals[g].target \in Nat
      BY <1>1, CountIs, GoalIs
    <3>3. Count(draft.itinerary, g) >= draft.goals[g].target BY <2>1, <3>1, <3>2, AtLeast
    <3> QED BY <3>3 DEF Enough
  <2>2. CASE \A id \in DOMAIN draft.serves : g \in draft.serves[id] => id \in ToSet(draft.fallback)
    <3>1. ASSUME NEW id \in DOMAIN draft.serves, g \in draft.serves[id]
          PROVE  id \in ToSet(draft.itinerary)
      <4>1. PICK k \in DOMAIN draft.fallback : draft.fallback[k] = id BY <2>2, <3>1 DEF ToSet
      <4>2. k \in Serving(draft.fallback, g) BY <3>1, <4>1 DEF Serving
      <4> QED BY <1>3, <4>1, <4>2
    <3> QED BY <3>1 DEF Enough
  <2> QED BY <2>1, <2>2 DEF Enough
<1> QED BY <1>2, <1>3 DEF Mended

\* What is kept whole has enough for every required goal.
LEMMA KeepKeeps ==
  ASSUME DraftInv, Keep
  PROVE  DraftInv'
<1> DEFINE t == IF draft.itinerary = <<>> THEN draft.fallback ELSE Cut(draft.itinerary, MaxItinerary)
           cut == draft.cut \/ Len(draft.itinerary) > MaxItinerary
<1>0. DraftType /\ FallbackInv /\ RepairInv BY DEF DraftInv
<1>1. draft' = [draft EXCEPT !.stage = "kept", !.itinerary = t, !.cut = cut] BY DEF Keep
<1>2. /\ draft.stage = "repairing" /\ draft.at > Len(draft.goals) /\ draft.at \in Nat
      /\ draft.itinerary \in Seq(Ids) /\ draft.fallback \in Seq(Ids)
  BY <1>0 DEF Keep, AllServed, DraftType
<1>3. Cut(draft.itinerary, MaxItinerary) \in Seq(Ids)
      /\ (~ (Len(draft.itinerary) > MaxItinerary) => Cut(draft.itinerary, MaxItinerary) = draft.itinerary)
  BY <1>2, CutIs, CutsAssumption
<1>4. t \in Seq(Ids) /\ cut \in BOOLEAN BY <1>0, <1>2, <1>3 DEF DraftType
<1>5. ASSUME ~ cut, NEW g \in DOMAIN draft.goals, draft.goals[g].required
      PROVE  Enough(t, g)
  <2>1. Enough(draft.fallback, g) BY <1>0, <1>2, <1>5 DEF FallbackInv
  <2>2. CASE draft.itinerary = <<>> BY <2>1, <2>2
  <2>3. CASE draft.itinerary # <<>>
    <3>1. t = draft.itinerary BY <1>3, <1>5, <2>3
    <3>2. g < draft.at BY <1>0, <1>2, GoalIs
    <3>3. Mended(g) BY <1>0, <1>2, <1>5, <3>2 DEF RepairInv
    <3> QED BY <1>0, <2>1, <3>1, <3>3, MendedIsEnough DEF FallbackInv
  <2> QED BY <2>2, <2>3
<1> HIDE DEF t, cut
<1>6. /\ draft'.stage = "kept" /\ draft'.serves = draft.serves /\ draft'.goals = draft.goals
      /\ draft'.at = draft.at /\ draft'.given = draft.given /\ draft'.fallback = draft.fallback
      /\ draft'.itinerary = t /\ draft'.cut = cut
      /\ draft' = [stage |-> draft'.stage, serves |-> draft'.serves, goals |-> draft'.goals,
                   at |-> draft'.at, given |-> draft'.given, fallback |-> draft'.fallback,
                   itinerary |-> draft'.itinerary, cut |-> draft'.cut]
  BY <1>0, <1>1 DEF DraftType
<1>7. DraftType' BY <1>0, <1>4, <1>6 DEF DraftType, DraftStages, Ids
<1>8. ~ cut => ~ draft.cut BY DEF cut
<1>9. FallbackInv' BY <1>0, <1>2, <1>6, <1>8, CountKeeps DEF FallbackInv, Once
<1>10. DraftsServe' BY <1>5, <1>6, CountKeeps DEF DraftsServe
<1> QED BY <1>6, <1>7, <1>9, <1>10 DEF DraftInv, OfferInv, RepairInv

\* The kept itinerary serves every required goal, whatever the candidates, the
\* goals and the model's draft.
THEOREM DraftsServeGoals == DraftSpec => []DraftsServe
<1>1. ASSUME DraftInv, [DraftNext]_draft PROVE DraftInv'
  <2>1. CASE UNCHANGED draft
    <3>1. draft' = draft BY <2>1
    <3>2. DraftType' BY <1>1, <3>1 DEF DraftInv, DraftType, Ids
    <3>3. OfferInv' /\ FallbackInv' /\ DraftsServe'
      BY <1>1, <3>1, CountKeeps DEF DraftInv, OfferInv, FallbackInv, Once, DraftsServe
    <3>4. \A g : Mended(g)' <=> Mended(g) BY <3>1 DEF Mended, Count, Serving
    <3>5. RepairInv' BY <1>1, <3>1, <3>4 DEF DraftInv, RepairInv
    <3> QED BY <3>2, <3>3, <3>5 DEF DraftInv
  <2>2. CASE DraftNext
    BY <1>1, <2>2, OfferKeeps, OfferedKeeps, FallBackKeeps, ReplyKeeps, SilenceKeeps, RepairKeeps,
       RepairedKeeps, KeepKeeps DEF DraftNext
  <2> QED BY <1>1, <2>1, <2>2
<1>2. DraftInv => DraftsServe BY DEF DraftInv
<1> QED BY <1>1, <1>2, InitDraft, PTL DEF DraftSpec
=============================================================================
