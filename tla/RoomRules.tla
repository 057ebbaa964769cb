------------------------------- MODULE RoomRules ------------------------------
(***************************************************************************)
(* What a room's outing contains: the rules behind the statuses and the    *)
(* versions of RoomLifecycle and RoomItineraries.  The wheel's theme, the  *)
(* common window, the slot and the gathering of the selected activity, and *)
(* what an AI revision does to the plan.  A behaviour is one outing: it is *)
(* published, and then one request after another revises it.               *)
(*                                                                         *)
(* Times are minutes counted from the outing's midnight; a time that may   *)
(* be missing is a set with at most one element.                           *)
(***************************************************************************)
EXTENDS Integers, Sequences, FiniteSets, FiniteSetsExt, SequencesExt

CONSTANTS
    DefaultThemes,   \* DEFAULT_THEMES
    Groups,          \* the members an outing may have, each a sequence of profiles
    Activities,      \* the activities that may be selected
    Decisions,       \* what requests may be recognised to ask for
    MaxRevisions     \* bound: requests that revise the outing

Optional(S) == {x \in SUBSET S : \A a, b \in x : a = b}
Time == Optional(Int)

Profile == [leave : Time, back : Time, commute : Time, mode : {"driving", "walking", "transit"},
            likes : SUBSET STRING, dislikes : SUBSET STRING, excludes : SUBSET STRING]
Activity == [title : STRING, start : Time, end : Time, booked : BOOLEAN]

\* A revision is of a type, for the first node of one of the kinds the
\* classifier is asked to choose from; the message may name
\* minutes or a clock time, and a replacement may have been found.
Decision ==
    [type : {"replace_node", "remove_node", "add_node", "adjust_time", "adjust_budget",
             "change_transport", "change_theme", "full_replan"},
     target : {"activity", "dining", "transport"}, minutes : Time, clock : Time,
     by : Optional(Activity), raise : BOOLEAN, confirm : BOOLEAN]

ASSUME GroupsAssumption == Groups \subseteq Seq(Profile) \ {<<>>}
ASSUME SelectionAssumption == Activities \subseteq Activity
ASSUME DecisionsAssumption == Decisions \subseteq Decision
ASSUME RevisionsAssumption == MaxRevisions \in Nat

VARIABLE outing   \* its members, its activity and the plan; whether that was replaced

Day == 1440
OnTheDay(time) == \E t \in time : 0 <= t /\ t < Day
The(time) == CHOOSE t \in time : TRUE

-----------------------------------------------------------------------------
(* The theme.  Members are a sequence of profiles.                         *)

CandidateThemes(members) ==
    DefaultThemes \cup UNION {members[i].likes : i \in DOMAIN members}
HardExcluded(members) == UNION {members[i].excludes : i \in DOMAIN members}

\* The hard constraints are given up only when they leave nothing.
Allowed(members) ==
    LET left == CandidateThemes(members) \ HardExcluded(members)
    IN  IF left = {} THEN CandidateThemes(members) ELSE left

\* 3 for a wish, 1 for indifference, -2 for a dislike, and 1 for the duration;
\* the endpoint passes no weather.
Weight(theme, members) ==
    LET like == {i \in DOMAIN members : theme \in members[i].likes}
        dislike == {i \in DOMAIN members : theme \in members[i].dislikes} \ like
    IN  1 + 3 * Cardinality(like) - 2 * Cardinality(dislike)
          + Cardinality(DOMAIN members \ (like \cup dislike))

\* The themes the weighted wheel may land on.
WheelThemes(members) ==
    LET weighted == {t \in Allowed(members) : Weight(t, members) > 0}
    IN  IF weighted = {} THEN Allowed(members) ELSE weighted

-----------------------------------------------------------------------------
(* From the members' times to the published plan.                           *)

\* With no departure or no end at all nothing is bounded.
CommonWindow(members) ==
    LET starts == UNION {members[i].leave : i \in DOMAIN members}
        ends == UNION {members[i].back : i \in DOMAIN members}
    IN  IF starts = {} \/ ends = {}
          THEN [start |-> {}, end |-> {}, feasible |-> TRUE]
          ELSE [start |-> {Max(starts)}, end |-> {Min(ends)},
                feasible |-> Min(ends) - Max(starts) >= 120]

\* Mutant: the estimated end ignores when the window closes.
OpenEnd(start, window) == {start + 180}

EstimatedEnd(start, window) == {Min({start + 180} \cup window.end)}

\* plan_gathering: an activity that does not start on the day gets the
\* window's start, and an end of its own only if that is on the day.
Scheduled(activity, window) ==
    LET start == IF window.start = {} THEN 14 * 60 ELSE The(window.start)
    IN  IF OnTheDay(activity.start) THEN activity
        ELSE [activity EXCEPT
                !.start = {start},
                !.end = IF OnTheDay(@) THEN @ ELSE EstimatedEnd(start, window)]

Buffer(mode) == CASE mode = "driving" -> 15 [] mode = "walking" -> 5 [] OTHER -> 10

\* compute_gathering: a quarter of an hour early, and when each has to leave;
\* a member without coordinates is assumed half an hour away.
Gathering(activity, members) ==
    LET target == {s - 15 : s \in activity.start}
        Takes(m) == IF m.commute = {} THEN 30 ELSE The(m.commute)
    IN  [target |-> target,
         leave |-> [i \in DOMAIN members |->
                      {t - (Takes(members[i]) + Buffer(members[i].mode)) : t \in target}]]

Node(kind, title, start, end, booked) ==
    [kind |-> kind, title |-> title, start |-> start, end |-> end, booked |-> booked]

\* generate_itinerary: gathering, activity and, if one is found, a meal.
Itinerary(activity, members, meal) ==
    LET window == CommonWindow(members)
        slot == Scheduled(activity, window)
        gathering == Gathering(slot, members)
    IN  [nodes |-> (IF gathering.target = {} THEN <<>>
                      ELSE <<Node("gathering", "meet", gathering.target, {}, FALSE)>>)
                   \o <<Node("activity", slot.title, slot.start, slot.end, slot.booked)>>
                   \o (IF meal THEN <<Node("dining", "meal", {}, {}, FALSE)>> ELSE <<>>),
         gathering |-> gathering, window |-> window, notes |-> {}]

-----------------------------------------------------------------------------
(* AI revisions.  A decision is the recognised type and target, what the   *)
(* message says of the time, and the candidate fetched as a replacement.   *)

\* _find_node: the first node of that kind, 0 if there is none.
FindNode(nodes, kind) == SelectInSeq(nodes, LAMBDA n : n.kind = kind)

Answer(plan, changed, asks) == [plan |-> plan, changed |-> changed, asks |-> asks]
Noted(plan, note) == [plan EXCEPT !.notes = @ \cup {note}]

\* What a replacement brings is taken over, except what it leaves open.
Replaced(node, by) ==
    LET Given(new, old) == IF new = {} THEN old ELSE new
    IN  [node EXCEPT !.title = by.title, !.start = Given(by.start, @),
                     !.end = Given(by.end, @), !.booked = by.booked \/ @]

ReplaceNode(plan, d) ==
    LET i == FindNode(plan.nodes, d.target)
        old == plan.nodes[i]
    IN  IF i = 0 THEN Answer(plan, FALSE, FALSE)
        ELSE Answer([plan EXCEPT !.nodes[i] =
                       IF d.by = {} THEN [old EXCEPT !.title = "pending"] ELSE Replaced(old, The(d.by))],
                    TRUE, old.kind = "activity" /\ old.booked)

\* The core activity is only noted as to be removed.
RemoveNode(plan, d) ==
    LET i == FindNode(plan.nodes, d.target)
    IN  IF i = 0 THEN Answer(plan, FALSE, FALSE)
        ELSE IF plan.nodes[i].kind = "activity" THEN Answer(Noted(plan, "pending_remove"), FALSE, TRUE)
        ELSE Answer([plan EXCEPT !.nodes = RemoveAt(@, i)], TRUE, FALSE)

AddNode(plan, d) ==
    LET title == IF d.by = {} THEN "pending" ELSE The(d.by).title
    IN  Answer([plan EXCEPT !.nodes = Append(@, Node(d.target, title, {}, {}, FALSE))], TRUE, FALSE)

\* The first timed activity, or else the first timed node; 0 if there is none.
TimeAnchor(nodes) ==
    LET First(core) == SelectInSeq(nodes, LAMBDA n : (n.kind = "activity") = core /\ n.start # {})
    IN  IF First(TRUE) # 0 THEN First(TRUE) ELSE First(FALSE)

\* _parse_time_adjustment: minutes to shift by, or a clock time for the anchor;
\* empty: not understood.
ShiftOf(nodes, d) ==
    IF d.minutes # {} THEN d.minutes
    ELSE IF TimeAnchor(nodes) = 0 THEN {}
    ELSE {c - (The(nodes[TimeAnchor(nodes)].start) % Day) : c \in d.clock}

\* Mutant: only the activity is moved, not what hangs on its time.
ShiftActivity(node, minutes) ==
    IF node.kind = "activity"
      THEN [node EXCEPT !.start = {t + minutes : t \in @}, !.end = {t + minutes : t \in @}]
      ELSE node

Shift(node, minutes) ==
    [node EXCEPT !.start = {t + minutes : t \in @}, !.end = {t + minutes : t \in @}]

\* Every node is shifted, asked or not; a later end is compared with the
\* window by its time of day alone.
AdjustTime(plan, d) ==
    LET shift == ShiftOf(plan.nodes, d)
        nodes == [i \in DOMAIN plan.nodes |-> Shift(plan.nodes[i], The(shift))]
        ends == UNION {nodes[i].end : i \in DOMAIN nodes}
        late == \E e \in plan.window.end : The(shift) > 0 /\ ends # {} /\ Max(ends) % Day > e
    IN  IF shift = {} THEN Answer(Noted(plan, "time_adjust_unparsed"), FALSE, TRUE)
        ELSE Answer([plan EXCEPT !.nodes = nodes], TRUE, late)

\* apply_revision; a request about the whole plan is only noted.
Applied(plan, d) ==
    CASE d.type = "replace_node" -> ReplaceNode(plan, d)
      [] d.type = "remove_node" -> RemoveNode(plan, d)
      [] d.type = "add_node" -> AddNode(plan, d)
      [] d.type = "adjust_time" -> AdjustTime(plan, d)
      [] d.type = "adjust_budget" -> Answer(Noted(plan, "budget_note"), TRUE, d.raise)
      [] d.type = "change_transport" -> Answer(Noted(plan, "transport_change"), TRUE, TRUE)
      [] d.type = "change_theme" -> Answer(Noted(plan, "pending_theme_change"), FALSE, TRUE)
      [] d.type = "full_replan" -> Answer(Noted(plan, "pending_full_replan"), FALSE, TRUE)

\* modify_plan_ep: a question is answered by sending the message again.
Modified(plan, d) ==
    LET answer == Applied(plan, d)
    IN  IF answer.asks /\ ~ d.confirm THEN plan ELSE answer.plan

-----------------------------------------------------------------------------
(* The outing.                                                             *)

Published(activity, members, meal) ==
    [members |-> members, activity |-> activity, revisions |-> 0, replaced |-> FALSE,
     plan |-> Itinerary(activity, members, meal)]

OutingInit ==
    \E a \in Activities, g \in Groups, meal \in BOOLEAN : outing = Published(a, g, meal)

ReplacesActivity(d) == d.type = "replace_node" /\ d.target = "activity"

Revise ==
    /\ outing.revisions < MaxRevisions
    /\ \E d \in Decisions :
         outing' = [outing EXCEPT !.plan = Modified(@, d), !.revisions = @ + 1,
                                  !.replaced = @ \/ ReplacesActivity(d)]

OutingSpec == OutingInit /\ [][Revise]_outing

-----------------------------------------------------------------------------
(* Properties.                                                              *)

\* The theme of the wheel is one no member excluded unless the members
\* exclude every candidate, and one that all dislike is not drawn while
\* another is allowed that nobody dislikes.
ThemeSuits(members) ==
    \A t \in WheelThemes(members) :
        LET Bad(x) == x \in HardExcluded(members)
            Hated(x) == \A i \in DOMAIN members : x \in members[i].dislikes \ members[i].likes
        IN  /\ Bad(t) => \A x \in CandidateThemes(members) : Bad(x)
            /\ Hated(t) => \A x \in Allowed(members) :
                              ~ \A i \in DOMAIN members : x \notin members[i].dislikes

\* When the members leave two hours and both ends of the activity had to be
\* estimated, everyone can come and stay: the slot begins when the last one
\* can leave, ends before the first one must be back, and lasts two hours.
SlotSuits(activity, members) ==
    LET window == CommonWindow(members)
        slot == Scheduled(activity, window)
    IN  window.feasible /\ window.start # {} /\ ~ OnTheDay(activity.start) /\ ~ OnTheDay(activity.end)
          => \A s \in slot.start, e \in slot.end :
               /\ e - s >= 120
               /\ \A i \in DOMAIN members :
                    /\ \A t \in members[i].leave : t <= s
                    /\ \A t \in members[i].back : e <= t

\* The wheel's theme and an estimated slot suit every member of the outing
\* (rooms/algorithms.py, plan_gathering).
OutingsSuit == ThemeSuits(outing.members) /\ SlotSuits(outing.activity, outing.members)

\* Whatever is shifted, added, removed or noted in any order, asked and
\* confirmed or not, the plan keeps its activity, and the members still meet a
\* quarter of an hour before it (rooms/revision.py).  A replaced activity is
\* excepted: the code leaves the gathering where it was.
OutingsGather ==
    LET nodes == outing.plan.nodes
        Of(kind) == nodes[FindNode(nodes, kind)]
    IN  /\ FindNode(nodes, "activity") # 0
        /\ ~ outing.replaced /\ FindNode(nodes, "gathering") # 0 =>
             Of("gathering").start = {s - 15 : s \in Of("activity").start}
=============================================================================
