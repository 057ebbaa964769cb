--------------------------- MODULE RoomLifecycle ----------------------------
(***************************************************************************)
(* The life of an activity room: its members confirm a theme, a stream     *)
(* recommends activities and pauses the room's graph, the selection of an  *)
(* activity resumes the graph, and the graph's last node publishes the     *)
(* itinerary.                                                              *)
(*                                                                         *)
(* The short endpoints read the room, check its status and commit, without *)
(* locking the row: a read step and a write step.  Only the two endpoints  *)
(* that drive the graph take the room's plan lock.                         *)
(***************************************************************************)
EXTENDS Naturals, FiniteSets

CONSTANTS
    Clients,      \* members' browsers, each with one request at a time
    Themes,       \* themes the members may confirm
    MaxRequests,  \* bound: requests made in a behaviour
    Faults,       \* whether graph nodes raise and clients leave a stream
    Restarts      \* whether the web process may die

NoTheme == "none"
MaxWheelSpins == 2

ASSUME ClientsAssumption == Clients \cap {"free", "orphan"} = {}
ASSUME ThemesAssumption == NoTheme \notin Themes
ASSUME BoundsAssumption ==
    /\ MaxRequests \in Nat
    /\ Faults \in BOOLEAN
    /\ Restarts \in BOOLEAN

VARIABLES
    room,    \* the row of rooms
    graph,   \* the checkpoint of thread room:<id>
    plans,   \* the itineraries saved by the publish node
    lock,    \* lock:plan:room-<id>: free, a client's request, or left behind
    req,     \* each client's request and what it has read
    asked    \* requests made so far

vars == <<room, graph, plans, lock, req, asked>>

-----------------------------------------------------------------------------

Status == {"DRAFT", "COLLECTING", "THEME_SELECTING", "RECOMMENDING",
           "ACTIVITY_SELECTED", "PLANNING", "PUBLISHED", "EXPIRED"}

Transitions ==
    [DRAFT |-> {"COLLECTING"}, COLLECTING |-> {"THEME_SELECTING"},
     THEME_SELECTING |-> {"RECOMMENDING"},
     RECOMMENDING |-> {"ACTIVITY_SELECTED", "THEME_SELECTING"},
     ACTIVITY_SELECTED |-> {"PLANNING"}, PLANNING |-> {"PUBLISHED"},
     PUBLISHED |-> {}, EXPIRED |-> {}]

\* transition: the steps it lets through.
CanMove(from, to) == to = "EXPIRED" \/ to \in Transitions[from]

Room == [status : Status, theme : Themes \cup {NoTheme},
         spins : 0..MaxWheelSpins]

\* Where the graph stands: never started, inside the recommendation, paused
\* in confirm_activity, past it, or finished; the theme its state holds; and
\* how often it has been started.
Graph == [at : {"none", "started", "paused", "chosen", "ended"},
          theme : Themes \cup {NoTheme}, start : Nat]

\* An itinerary: its number, and the recommendation it comes from.
Plan == [version : Nat, start : Nat, theme : Themes \cup {NoTheme}]

PC == {"idle", "confirming", "returning", "spinning", "waiting",
       "starting", "researching", "selecting", "resuming", "planning"}

\* theme: the theme a request confirms or recommends for; spins: the counter
\* it read; picks: whether it selects an activity.
Request == [pc : PC, theme : Themes \cup {NoTheme}, spins : 0..MaxWheelSpins - 1,
            picks : BOOLEAN]

NoRequest == [pc |-> "idle", theme |-> NoTheme, spins |-> 0, picks |-> FALSE]

AtWork(c) ==
    req[c].pc \in {"starting", "researching", "resuming", "planning"}
InFlight(c) == req[c].pc # "idle"

\* The shapes of the variables; a request drives the graph only while it
\* holds the room's lock, and only such requests hold it.
TypeOK ==
    /\ room \in Room
    /\ graph \in Graph
    /\ plans \subseteq Plan
    /\ asked \in 0..MaxRequests
    /\ lock \in Clients \cup {"free", "orphan"}
    /\ req \in [Clients -> Request]
    /\ \A c \in Clients : AtWork(c) <=> lock = c

Init ==
    /\ room = [status |-> "COLLECTING", theme |-> NoTheme, spins |-> 0]
    /\ graph = [at |-> "none", theme |-> NoTheme, start |-> 0]
    /\ plans = {}
    /\ lock = "free"
    /\ req = [c \in Clients |-> NoRequest]
    /\ asked = 0

Start(c) ==
    /\ ~ InFlight(c)
    /\ asked < MaxRequests
    /\ asked' = asked + 1

Goto(c, pc) == req' = [req EXCEPT ![c].pc = pc]
Leave(c) == req' = [req EXCEPT ![c] = NoRequest]

\* The end of a request that held the lock.
Release(c) == lock' = "free" /\ Leave(c)

-----------------------------------------------------------------------------
(* Requests that only change the room.                                     *)

\* confirm_theme skips an explicit theme selection, then recommends.
ConfirmsFrom(status) ==
    LET from == IF status = "COLLECTING" THEN "THEME_SELECTING" ELSE status
    IN  CanMove(from, "RECOMMENDING")

ConfirmRead(c) ==
    /\ Start(c)
    /\ ConfirmsFrom(room.status)
    /\ \E t \in Themes :
         req' = [req EXCEPT ![c].pc = "confirming", ![c].theme = t]
    /\ UNCHANGED <<room, graph, plans, lock>>

ConfirmWrite(c) ==
    /\ req[c].pc = "confirming"
    /\ room' = [room EXCEPT !.status = "RECOMMENDING", !.theme = req[c].theme]
    /\ Leave(c)
    /\ UNCHANGED <<graph, plans, lock, asked>>

\* back_to_theme_ep
BackRead(c) ==
    /\ Start(c)
    /\ room.status = "RECOMMENDING"
    /\ Goto(c, "returning")
    /\ UNCHANGED <<room, graph, plans, lock>>

BackWrite(c) ==
    /\ req[c].pc = "returning"
    /\ room' = [room EXCEPT !.status = "THEME_SELECTING"]
    /\ Leave(c)
    /\ UNCHANGED <<graph, plans, lock, asked>>

\* spin_wheel writes the counter it read plus one.
WheelRead(c) ==
    /\ Start(c)
    /\ room.spins < MaxWheelSpins
    /\ req' = [req EXCEPT ![c].pc = "spinning", ![c].spins = room.spins]
    /\ UNCHANGED <<room, graph, plans, lock>>

WheelWrite(c) ==
    /\ req[c].pc = "spinning"
    /\ room' = [room EXCEPT !.spins = req[c].spins + 1]
    /\ Leave(c)
    /\ UNCHANGED <<graph, plans, lock, asked>>

-----------------------------------------------------------------------------
(* The recommendation stream.                                              *)

\* recommend_stream reads the room before the stream takes the lock.
RecommendRead(c) ==
    /\ Start(c)
    /\ room.status = "RECOMMENDING"
    /\ req' = [req EXCEPT ![c].pc = "waiting", ![c].theme = room.theme]
    /\ UNCHANGED <<room, graph, plans, lock>>

LockFree == lock = "free"

TakeLock(c) ==
    /\ req[c].pc = "waiting"
    /\ LockFree
    /\ lock' = c
    /\ Goto(c, IF req[c].picks THEN "resuming" ELSE "starting")
    /\ UNCHANGED <<room, graph, plans, asked>>

\* The blocking timeout ends: ROOM_BUSY, or 409 for a selection, whose status
\* changes stay committed.
RoomBusy(c) ==
    /\ req[c].pc = "waiting"
    /\ lock # "free"
    /\ Leave(c)
    /\ UNCHANGED <<room, graph, plans, lock, asked>>

\* A fresh initial state replaces whatever the thread's checkpoint held.
GraphStart(c) ==
    /\ req[c].pc = "starting"
    /\ graph' = [at |-> "started", theme |-> req[c].theme,
                 start |-> graph.start + 1]
    /\ Goto(c, "researching")
    /\ UNCHANGED <<room, plans, lock, asked>>

\* research and rank are done: the graph pauses in confirm_activity.
GraphPause(c) ==
    /\ req[c].pc = "researching"
    /\ graph' = [graph EXCEPT !.at = "paused"]
    /\ Release(c)
    /\ UNCHANGED <<room, plans, asked>>

\* A node raises, or the client leaves and the generator is closed.
RecommendStops(c) ==
    /\ Faults
    /\ req[c].pc \in {"starting", "researching"}
    /\ Release(c)
    /\ UNCHANGED <<room, graph, plans, asked>>

-----------------------------------------------------------------------------
(* The selection of an activity.                                           *)

SelectsFrom(status) ==
    /\ CanMove(status, "ACTIVITY_SELECTED")
    /\ CanMove("ACTIVITY_SELECTED", "PLANNING")

SelectRead(c) ==
    /\ Start(c)
    /\ SelectsFrom(room.status)
    /\ req' = [req EXCEPT ![c].pc = "selecting", ![c].picks = TRUE]
    /\ UNCHANGED <<room, graph, plans, lock>>

\* The room is PLANNING before anybody asks for the lock.
SelectWrite(c) ==
    /\ req[c].pc = "selecting"
    /\ room' = [room EXCEPT !.status = "PLANNING"]
    /\ Goto(c, "waiting")
    /\ UNCHANGED <<graph, plans, lock, asked>>

\* Mutant: a finished graph publishes what its state still holds.
EndedResumes == {"paused", "started", "chosen", "ended"}

\* Where a resumed thread has a node left to run.
Resumable == {"paused", "started", "chosen"}

\* Command(resume=...): a paused graph takes the answer.  A recommendation
\* that was cut off runs on; whether its later pause takes the answer is the
\* library's choice.
GraphResume(c) ==
    /\ req[c].pc = "resuming"
    /\ graph.at \in Resumable
    /\ graph' = [graph EXCEPT !.at = "chosen"]
    /\ Goto(c, "planning")
    /\ UNCHANGED <<room, plans, lock, asked>>

PausesAgain(c) ==
    /\ req[c].pc = "resuming"
    /\ graph.at = "started"
    /\ graph' = [graph EXCEPT !.at = "paused"]
    /\ Release(c)
    /\ UNCHANGED <<room, plans, asked>>

\* A thread without a checkpoint is an error event, a finished one has no
\* node left: the request ends either way.
NothingToResume(c) ==
    /\ req[c].pc = "resuming"
    /\ graph.at \notin Resumable
    /\ Release(c)
    /\ UNCHANGED <<room, graph, plans, asked>>

\* plan_gathering or generate_itinerary raises: the endpoint reports it.
PlanRaises(c) ==
    /\ Faults
    /\ req[c].pc = "planning"
    /\ Release(c)
    /\ UNCHANGED <<room, graph, plans, asked>>

\* Mutant: the room is published although its itinerary was not saved.
SavesLater(p) == plans' \in {plans, plans \cup {p}}

Saves(p) == plans' = plans \cup {p}

\* publish saves the itinerary and sets the status in one transaction; the
\* status is assigned, not moved through transition.
Publish(c) ==
    /\ req[c].pc = "planning"
    /\ Saves([version |-> Cardinality(plans) + 1,
              start |-> graph.start, theme |-> graph.theme])
    /\ room' = [room EXCEPT !.status = "PUBLISHED"]
    /\ graph' = [graph EXCEPT !.at = "ended"]
    /\ Release(c)
    /\ UNCHANGED asked

\* Its transaction fails: only the graph's own state hears of it.
PublishFails(c) ==
    /\ Faults
    /\ req[c].pc = "planning"
    /\ graph' = [graph EXCEPT !.at = "ended"]
    /\ Release(c)
    /\ UNCHANGED <<room, plans, asked>>

-----------------------------------------------------------------------------

\* The web process dies; the checkpoint and the key survive it.
Crash ==
    /\ Restarts
    /\ \E c \in Clients : InFlight(c)
    /\ req' = [c \in Clients |-> NoRequest]
    /\ lock' = IF lock \in Clients THEN "orphan" ELSE lock
    /\ UNCHANGED <<room, graph, plans, asked>>

LockExpires ==
    /\ lock = "orphan"
    /\ lock' = "free"
    /\ UNCHANGED <<room, graph, plans, req, asked>>

\* What a client may ask for.
Ask(c) ==
    \/ ConfirmRead(c)
    \/ BackRead(c)
    \/ WheelRead(c)
    \/ RecommendRead(c)
    \/ SelectRead(c)

\* What the server does about it.
Serve(c) ==
    \/ ConfirmWrite(c)
    \/ BackWrite(c)
    \/ WheelWrite(c)
    \/ SelectWrite(c)
    \/ TakeLock(c)
    \/ RoomBusy(c)
    \/ GraphStart(c)
    \/ GraphPause(c)
    \/ RecommendStops(c)
    \/ GraphResume(c)
    \/ PausesAgain(c)
    \/ NothingToResume(c)
    \/ PlanRaises(c)
    \/ Publish(c)
    \/ PublishFails(c)

Next == Crash \/ LockExpires \/ \E c \in Clients : Ask(c) \/ Serve(c)

Spec == Init /\ [][Next]_vars

-----------------------------------------------------------------------------
(* Properties.                                                             *)

\* However many members select at once, each recommendation is published at
\* most once: a second selection finds no pause left to answer.
PublishedOnce == \A p1, p2 \in plans : p1.start = p2.start => p1 = p2

\* A room is published together with an itinerary, and an itinerary only ever
\* comes from a recommendation that ran.
PublishedHasPlan ==
    /\ room.status = "PUBLISHED" => plans # {}
    /\ \A p \in plans : p.start \in 1..graph.start
=============================================================================
