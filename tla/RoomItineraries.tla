-------------------------- MODULE RoomItineraries ---------------------------
(***************************************************************************)
(* The versions of one room's itinerary.  The graph's publish node and the *)
(* AI modification save a version while they hold the room's plan lock; an *)
(* undo deletes the current version without taking it.                     *)
(*                                                                         *)
(* A query reads what is committed when it runs (READ COMMITTED), so each  *)
(* query a decision rests on is a step; the writes and the commit are one, *)
(* since row locks make a second writer wait.  The ORM writes by primary   *)
(* key: an UPDATE of a row another transaction deleted raises              *)
(* StaleDataError and rolls back, a DELETE of such a row only logs a       *)
(* warning.                                                                *)
(*                                                                         *)
(* The room's endpoints run in one web process, where plan_lock also holds *)
(* a process-local lock that has no time limit.                            *)
(***************************************************************************)
EXTENDS Naturals, FiniteSets

CONSTANTS
    Requests,    \* the requests of a behaviour, each used once (the bound)
    Publications,\* those of them in which the graph publishes an itinerary
    Keep         \* _KEEP_VERSIONS

NoRow == "none"

ASSUME RequestsAssumption == Requests \cap {NoRow, "free", "orphan"} = {}
ASSUME PublicationsAssumption == Publications \subseteq Requests
ASSUME KeepAssumption == Keep \in Nat \ {0}

VARIABLES
    rows,   \* room_itineraries of the room
    lock,   \* lock:plan:room-<id>: free, a request's, or a key left behind
    req,    \* the requests and what each has read
    crossed,     \* history: an undo committed between the reads of another
    undosAlone   \* chosen once: nobody undoes while another request is in flight

vars == <<rows, lock, req, crossed, undosAlone>>

-----------------------------------------------------------------------------

\* An itinerary is the set of changes it contains: the publication or the
\* modification that made it, and those it was derived from.
Payloads == SUBSET Requests

\* A row is named after the request that inserted it.
RoomItinerary ==
    [id : Requests, version : Nat, payload : Payloads, current : BOOLEAN]

PC == {"new", "waiting", "working", "numbering", "saving", "returning",
       "undoing", "done"}

\* The steps of a request that holds the lock.
AtWork == {"working", "numbering", "saving"}

Request ==
    [pc   : PC,
     base : Payloads,                  \* the payload it read and changes
     cur  : Requests \cup {NoRow},     \* the row it read as current
     prev : Requests \cup {NoRow},     \* the row an undo returns to
     top  : Nat]                       \* the highest version it read

NewRequest ==
    [pc |-> "new", base |-> {}, cur |-> NoRow, prev |-> NoRow, top |-> 0]

\* The shapes of the variables; only a request at work holds the lock.
TypeOK ==
    /\ rows \subseteq RoomItinerary
    /\ lock \in Requests \cup {"free", "orphan"}
    /\ req \in [Requests -> Request]
    /\ lock \in Requests => req[lock].pc \in AtWork
    /\ crossed \in BOOLEAN

Init ==
    /\ rows = {}
    /\ lock = "free"
    /\ req = [q \in Requests |-> NewRequest]
    /\ crossed = FALSE
    /\ undosAlone \in BOOLEAN

InFlight(q) == req[q].pc \notin {"new", "done"}
Undoing(q) == req[q].pc \in {"returning", "undoing"}

\* An undo that must be alone neither joins others nor is joined by them.
MayStart(q) ==
    /\ req[q].pc = "new"
    /\ undosAlone => ~ \E p \in Requests : Undoing(p)
MayUndo(q) ==
    /\ MayStart(q)
    /\ undosAlone => ~ \E p \in Requests : InFlight(p)

Exists(id) == \E x \in rows : x.id = id
Current(rs) == {x \in rs : x.current}

\* The id a query for the current row returns: any of them, there is no order.
ReadsCurrent(id) ==
    IF Current(rows) = {} THEN id = NoRow ELSE \E x \in Current(rows) : x.id = id

\* Mutant: the query does not leave out the current row.
ReadsNewest(id) ==
    \E x \in rows : x.id = id /\ \A y \in rows : y.version <= x.version

\* The id the query for the newest superseded row returns.
ReadsPrevious(id) ==
    \E x \in rows :
        /\ x.id = id
        /\ ~ x.current
        /\ \A y \in rows : ~ y.current => y.version <= x.version

\* COALESCE(MAX(version), 0)
ReadsTop(v) ==
    IF rows = {} THEN v = 0
    ELSE \E x \in rows : x.version = v /\ \A y \in rows : y.version <= v

Leave(q) == req' = [req EXCEPT ![q].pc = "done"]

\* The key is deleted by the request whose token it holds; if Redis fails
\* then, the key stays behind and the process-local lock is free.
Unlock(q) == lock' \in IF lock = q THEN {"free", "orphan"} ELSE {lock}

-----------------------------------------------------------------------------
(* Requests that save a version.                                           *)

\* modify_plan_ep reads the current payload in a transaction of its own,
\* before the stream takes the lock.
ModifyRead(q) ==
    /\ MayStart(q)
    /\ q \notin Publications
    /\ \E x \in Current(rows) :
         req' = [req EXCEPT ![q].pc = "waiting", ![q].base = x.payload]
    /\ UNCHANGED <<rows, lock, crossed>>

\* A selected activity sends the graph towards its publish node.
PublishBegin(q) ==
    /\ MayStart(q)
    /\ q \in Publications
    /\ req' = [req EXCEPT ![q].pc = "waiting"]
    /\ UNCHANGED <<rows, lock, crossed>>

\* Mutant: nobody asks whether the lock is taken.
LockIgnored == TRUE

\* No request of the process holds it.  A key left behind stops a request
\* while Redis answers; when it does not, the process-local lock is enough.
LockFree == lock \notin Requests

TakeLock(q) ==
    /\ req[q].pc = "waiting"
    /\ LockFree
    /\ lock' = q
    /\ req' = [req EXCEPT ![q].pc = "working"]
    /\ UNCHANGED <<rows, crossed>>

\* The lock is still taken when the blocking timeout ends: ROOM_BUSY.
RoomBusy(q) ==
    /\ req[q].pc = "waiting"
    /\ lock # "free"
    /\ Leave(q)
    /\ UNCHANGED <<rows, lock, crossed>>

\* A modification that needs a confirmation or changes nothing, a graph node
\* that raises before publish, a transaction that fails: nothing is saved.
Withdraw(q) ==
    /\ req[q].pc \in AtWork
    /\ Leave(q)
    /\ Unlock(q)
    /\ UNCHANGED <<rows, crossed>>

\* save_itinerary_version reads the current row...
SaveRead(q) ==
    /\ req[q].pc = "working"
    /\ \E id \in Requests \cup {NoRow} :
         /\ ReadsCurrent(id)
         /\ req' = [req EXCEPT ![q].pc = "numbering", ![q].cur = id]
    /\ UNCHANGED <<rows, lock, crossed>>

\* ...and the highest version...
SaveReadTop(q) ==
    /\ req[q].pc = "numbering"
    /\ \E v \in {0} \cup {x.version : x \in rows} :
         /\ ReadsTop(v)
         /\ req' = [req EXCEPT ![q].pc = "saving", ![q].top = v]
    /\ UNCHANGED <<rows, lock, crossed>>

\* _cleanup_old_versions: the Keep rows with the highest versions.
Cleanup(rs) ==
    {x \in rs : Cardinality({y \in rs : y.version > x.version}) < Keep}

\* Mutant: the row that was current keeps its mark.
StillCurrent(rs, id) == rs

\* The rows once the row called id is no longer current.
Superseded(rs, id) ==
    {IF x.id = id THEN [x EXCEPT !.current = FALSE] ELSE x : x \in rs}

NewVersion(q) ==
    [id |-> q, version |-> req[q].top + 1,
     payload |-> req[q].base \cup {q}, current |-> TRUE]

\* ...then unmarks the one, inserts the next version and cleans up.  If the
\* row to unmark was deleted meanwhile, the transaction rolls back.
SaveWrite(q) ==
    /\ req[q].pc = "saving"
    /\ rows' = IF req[q].cur = NoRow \/ Exists(req[q].cur)
                 THEN Cleanup(Superseded(rows, req[q].cur) \cup {NewVersion(q)})
                 ELSE rows
    /\ Leave(q)
    /\ Unlock(q)
    /\ UNCHANGED crossed

-----------------------------------------------------------------------------
(* The undo: one transaction, no lock.                                      *)

\* undo_itinerary reads the newest superseded row...
UndoReadPrevious(q) ==
    /\ MayUndo(q)
    /\ q \notin Publications
    /\ \E p \in Requests :
         /\ ReadsPrevious(p)
         /\ req' = [req EXCEPT ![q].pc = "returning", ![q].prev = p]
    /\ UNCHANGED <<rows, lock, crossed>>

\* ...and then, in a query of its own, the current one.
UndoReadCurrent(q) ==
    /\ req[q].pc = "returning"
    /\ \E c \in Requests \cup {NoRow} :
         /\ ReadsCurrent(c)
         /\ req' = [req EXCEPT ![q].pc = "undoing", ![q].cur = c]
    /\ UNCHANGED <<rows, lock, crossed>>

\* The table after the undo: the one row deleted, the other marked.  When both
\* are the same row, the session only deletes it.
Returned(q) ==
    {IF x.id = req[q].prev THEN [x EXCEPT !.current = TRUE] ELSE x :
       x \in {y \in rows : y.id # req[q].cur}}

\* The undo commits; if the row to mark was deleted meanwhile, it rolls back.
UndoWrite(q) ==
    /\ req[q].pc = "undoing"
    /\ \/ /\ Exists(req[q].prev)
          /\ rows' = Returned(q)
          /\ crossed' = (crossed \/ \E p \in Requests : req[p].pc = "returning")
       \/ /\ ~ Exists(req[q].prev)
          /\ UNCHANGED <<rows, crossed>>
    /\ Leave(q)
    /\ UNCHANGED lock

\* The transaction fails, as one of two that wait for each other's rows does.
UndoFails(q) ==
    /\ Undoing(q)
    /\ Leave(q)
    /\ UNCHANGED <<rows, lock, crossed>>

-----------------------------------------------------------------------------
(* The process.                                                            *)

\* The web process dies: open transactions roll back, the key stays in Redis.
Crash ==
    /\ \E q \in Requests : InFlight(q)
    /\ req' = [q \in Requests |->
                 IF InFlight(q) THEN [req[q] EXCEPT !.pc = "done"] ELSE req[q]]
    /\ lock' = IF lock \in Requests THEN "orphan" ELSE lock
    /\ UNCHANGED <<rows, crossed>>

\* A key left behind reaches its time to live.
LockExpires ==
    /\ lock = "orphan"
    /\ lock' = "free"
    /\ UNCHANGED <<rows, req, crossed>>

Step(q) ==
    \/ ModifyRead(q)
    \/ PublishBegin(q)
    \/ TakeLock(q)
    \/ RoomBusy(q)
    \/ Withdraw(q)
    \/ SaveRead(q)
    \/ SaveReadTop(q)
    \/ SaveWrite(q)
    \/ UndoReadPrevious(q)
    \/ UndoReadCurrent(q)
    \/ UndoWrite(q)
    \/ UndoFails(q)

Next ==
    /\ Crash \/ LockExpires \/ \E q \in Requests : Step(q)
    /\ UNCHANGED undosAlone

Spec == Init /\ [][Next]_vars

-----------------------------------------------------------------------------
(* Properties.                                                             *)

\* No two rows of a room ever carry the same version number, although each
\* save computes its number from one it read earlier and undo frees numbers.
VersionsDistinct ==
    \A x, y \in rows : x.version = y.version => x = y

\* "undo: back to the previous version": a room that has versions has one to
\* show, whatever undo, save or cleanup came last.
AlwaysOneToShow == rows # {} => Current(rows) # {}

\* Saves, cleanups, restarts and undos that read the table before another
\* request changed it leave a room that has versions with a current one, as
\* long as no undo commits between the two reads of another undo.
SomeCurrent == ~ crossed => AlwaysOneToShow

\* The table is the history of ItineraryHistory, in version order, and the
\* current row is what is shown.
HistoryOf(rs) ==
    [i \in 1..Cardinality(rs) |->
       (CHOOSE x \in rs :
          Cardinality({y \in rs : y.version < x.version}) = i - 1).payload]
ShownOf(rs) ==
    IF Current(rs) = {} THEN "nothing" ELSE (CHOOSE x \in rs : x.current).payload

History ==
    INSTANCE ItineraryHistory WITH
        history <- HistoryOf(rows),
        shown <- ShownOf(rows)

\* Saves by the graph and by modifications, however they interleave with one
\* another, and undos made when nothing else is in flight, behave as one
\* bounded history: saves push, undos pop, and the members see its end.
ImplementsHistory ==
    History!Init /\ [][undosAlone => History!Next]_<<HistoryOf(rows), ShownOf(rows)>>
=============================================================================
