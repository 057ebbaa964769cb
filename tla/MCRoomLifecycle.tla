-------------------------- MODULE MCRoomLifecycle ---------------------------
(* Instances of RoomLifecycle and of the outings it publishes for TLC:       *)
(* clients are alike, themes are alike.  A behaviour is the race of the      *)
(* clients for a room, or one outing that is revised.                        *)
EXTENDS RoomLifecycle, RoomRules, TLC

CONSTANTS c1, c2, c3, art, food

Three == {c1, c2, c3}
TwoThemes == {art, food}

Alike == Permutations(Clients) \cup Permutations(Themes)

-----------------------------------------------------------------------------
(* Outings: one or two members, an activity on the day or of a long          *)
(* exhibition, and revisions of every type.                                  *)

None == {}
Defaults == {"art", "food"}

Anyone == [leave |-> None, back |-> None, likes |-> {}, dislikes |-> {}, excludes |-> {},
           mode |-> "transit", commute |-> None]
Ann == [Anyone EXCEPT !.leave = {600}, !.back = {720}, !.likes = {"art", "hike"}, !.excludes = {"food"}]
Bob == [Anyone EXCEPT !.leave = {660}, !.back = {1290}, !.dislikes = {"art", "food"}, !.mode = "driving", !.commute = {50}]
Cid == [Anyone EXCEPT !.leave = {540}, !.back = {780}, !.dislikes = {"art"}, !.excludes = {"art", "food", "hike"}]
Dan == [Anyone EXCEPT !.back = {960}, !.likes = {"hike"}, !.dislikes = {"food"}, !.mode = "walking"]
AllGroups == {<<Ann>>, <<Bob>>, <<Dan>>, <<Ann, Bob>>, <<Ann, Cid>>, <<Bob, Cid>>, <<Bob, Dan>>, <<Ann, Bob, Cid>>}

Occasion(title, start, end, booked) == [title |-> title, start |-> start, end |-> end, booked |-> booked]
Evening == Occasion("evening", {1140}, {1260}, TRUE)
Fair == Occasion("fair", {-2880}, {4320}, FALSE)
LastDay == Occasion("last day", {-2880}, {1020}, FALSE)
Undated == Occasion("undated", None, None, FALSE)

D == [type |-> "adjust_time", target |-> "activity", minutes |-> None, clock |-> None, by |-> None,
      raise |-> FALSE, confirm |-> FALSE]
Said == {[D EXCEPT !.type = "adjust_time", !.minutes = {m}, !.confirm = c] : m \in {-30, 300}, c \in BOOLEAN}
         \cup {[D EXCEPT !.type = "adjust_time", !.clock = {900}], [D EXCEPT !.type = "adjust_time", !.confirm = TRUE]}
         \cup {[D EXCEPT !.type = "remove_node", !.target = t, !.confirm = TRUE] : t \in {"activity", "dining", "transport"}}
         \cup {[D EXCEPT !.type = "add_node", !.target = t] : t \in {"activity", "dining"}}
         \cup {[D EXCEPT !.type = "replace_node", !.by = {Fair}, !.confirm = TRUE],
               [D EXCEPT !.type = "replace_node", !.target = "dining"]}
         \cup {[D EXCEPT !.type = t, !.raise = TRUE, !.confirm = TRUE] :
                 t \in {"adjust_budget", "change_transport", "change_theme", "full_replan"}}

Selectable == {Evening, Fair, LastDay, Undated}

-----------------------------------------------------------------------------

\* Beside the race stands an outing that nobody revises.
NoOuting == [Published(Undated, <<Ann>>, FALSE) EXCEPT !.revisions = MaxRevisions + 1]

RaceOrOuting == Init /\ (outing = NoOuting \/ OutingInit)
Moves ==
    \/ outing = NoOuting /\ Next /\ UNCHANGED outing
    \/ Revise /\ UNCHANGED vars

MCSpec == RaceOrOuting /\ [][Moves]_<<vars, outing>>
=============================================================================
