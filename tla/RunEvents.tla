------------------------------ MODULE RunEvents -----------------------------
(***************************************************************************)
(* The events of one run: the worker, the cancel endpoint and the stall    *)
(* scan publish them, and browsers follow them over a stream that may      *)
(* break and that they resume with the number of the last event received.  *)
(*                                                                         *)
(* A publishing transaction locks the run's row, computes the next number, *)
(* writes the event and commits; until then nobody else sees the event.    *)
(* The stream reads the events and then the run's status: two queries,     *)
(* each of which sees what is committed at its own time.                   *)
(***************************************************************************)
EXTENDS Naturals, FiniteSets

CONSTANTS
    Writers,    \* transactions that publish, each used again and again
    Readers,    \* browsers, each following the run once
    Limit,      \* events one poll reads at most (500 in read_since)
    MaxEvents,  \* bound: events published in a behaviour
    MaxDrops    \* bound: connections that break

Nobody == "nobody"

ASSUME WritersAssumption == Nobody \notin Writers
ASSUME BoundsAssumption ==
    /\ Limit \in Nat \ {0}
    /\ MaxEvents \in Nat
    /\ MaxDrops \in Nat

VARIABLES
    events,    \* agent_run_events of the run
    terminal,  \* whether agent_runs.status is terminal
    rowLock,   \* the transaction that holds the run's row FOR UPDATE
    tx,        \* what each publishing transaction is about to do
    stream,    \* each reader's connection, as the server sees it
    client,    \* each reader's browser
    drops

vars == <<events, terminal, rowLock, tx, stream, client, drops>>

-----------------------------------------------------------------------------

\* A progress, node or result event; the event of a status that is active
\* again (started, requeued); or _finalize's event, payload.final.
Kinds == {"progress", "active", "final"}

Event == [sequence : Nat, final : BOOLEAN]

Transaction == [pc : {"idle", "locked", "numbered"}, next : Nat]

\* The generator: position is the last number it has yielded; batch holds the
\* rows it has read and not yet yielded.
Stream ==
    [pc : {"closed", "polling", "checking", "sending"},
     position : Nat, batch : SUBSET Event]

\* last: the number of the last event the browser received, or of the one it
\* began after; told: the final event that made it stop, if any.
Client ==
    [pc : {"new", "following", "done"}, last : Nat,
     told : {"no", "final", "substitute"}]

NoStream == [pc |-> "closed", position |-> 0, batch |-> {}]
NewClient == [pc |-> "new", last |-> 0, told |-> "no"]

\* The shapes of the variables; a transaction at work holds the run's row.
TypeOK ==
    /\ events \in SUBSET Event
    /\ terminal \in BOOLEAN
    /\ rowLock \in Writers \cup {Nobody}
    /\ tx \in [Writers -> Transaction]
    /\ stream \in [Readers -> Stream]
    /\ client \in [Readers -> Client]
    /\ drops \in 0..MaxDrops
    /\ \A w \in Writers : tx[w].pc # "idle" <=> rowLock = w

Numbers == {e.sequence : e \in events}

\* COALESCE(MAX(sequence), 0)
IsTop(n) ==
    /\ n \in Numbers \cup {0}
    /\ \A e \in events : e.sequence <= n

Init ==
    /\ events = {}
    /\ terminal = FALSE
    /\ rowLock = Nobody
    /\ tx = [w \in Writers |-> [pc |-> "idle", next |-> 0]]
    /\ stream = [c \in Readers |-> NoStream]
    /\ client = [c \in Readers |-> NewClient]
    /\ drops = 0

-----------------------------------------------------------------------------
(* events.publish                                                          *)

\* Mutant: the run's row is read without FOR UPDATE.
RowRead(w) == TRUE

RowFree(w) == rowLock = Nobody

LockRun(w) ==
    /\ tx[w].pc = "idle"
    /\ Cardinality(events) < MaxEvents
    /\ RowFree(w)
    /\ rowLock' = w
    /\ tx' = [tx EXCEPT ![w].pc = "locked"]
    /\ UNCHANGED <<events, terminal, stream, client, drops>>

\* Mutant: the number is the count of the events that are not final.
CountsProgress(n) == n = Cardinality({e \in events : ~ e.final}) + 1

\* The next number of the run.
IsNext(n) == \E top \in Numbers \cup {0} : IsTop(top) /\ n = top + 1

Number(w) ==
    /\ tx[w].pc = "locked"
    /\ \E n \in 1..(MaxEvents + 1) :
         /\ IsNext(n)
         /\ tx' = [tx EXCEPT ![w] = [pc |-> "numbered", next |-> n]]
    /\ UNCHANGED <<events, terminal, rowLock, stream, client, drops>>

\* The unique index on (run_id, sequence).
Taken(n) == n \in Numbers

\* The transaction is over, and with it its lock.
Close(w) ==
    /\ tx' = [tx EXCEPT ![w] = [pc |-> "idle", next |-> 0]]
    /\ rowLock' = IF rowLock = w THEN Nobody ELSE rowLock

\* The event and the status it reports are committed together.
Commit(w) ==
    /\ tx[w].pc = "numbered"
    /\ ~ Taken(tx[w].next)
    /\ \E kind \in Kinds :
         /\ events' = events \cup
              {[sequence |-> tx[w].next, final |-> kind = "final"]}
         /\ terminal' = IF kind = "progress" THEN terminal ELSE kind = "final"
    /\ Close(w)
    /\ UNCHANGED <<stream, client, drops>>

\* The transaction fails or its process dies.
RollBack(w) ==
    /\ tx[w].pc # "idle"
    /\ Close(w)
    /\ UNCHANGED <<events, terminal, stream, client, drops>>

-----------------------------------------------------------------------------
(* The browser connects, and reconnects.                                   *)

\* The first Limit events after number n.
Since(n) ==
    {e \in events :
        /\ e.sequence > n
        /\ Cardinality({d \in events : n < d.sequence /\ d.sequence < e.sequence})
             < Limit}

\* A browser follows the run it has just asked for from its first event, or
\* the active run of a workspace after the last event the workspace lists.
Follow(c) ==
    /\ client[c].pc = "new"
    /\ \E n \in {0} \cup {e.sequence : e \in Since(0)} :
         /\ n = 0 \/ \A e \in Since(0) : e.sequence <= n
         /\ client' = [client EXCEPT ![c] =
                         [pc |-> "following", last |-> n, told |-> "no"]]
    /\ UNCHANGED <<events, terminal, rowLock, tx, stream, drops>>

\* Mutant: the stream resumes one event too late.
ResumesLate(c) == client[c].last + 1

\* max(Last-Event-ID, after)
Cursor(c) == client[c].last

Connect(c) ==
    /\ client[c].pc = "following"
    /\ stream[c].pc = "closed"
    /\ stream' = [stream EXCEPT ![c] =
                    [pc |-> "polling", position |-> Cursor(c), batch |-> {}]]
    /\ UNCHANGED <<events, terminal, rowLock, tx, client, drops>>

\* The connection breaks, the web process restarts, or the generator returns
\* after 900 idle seconds: the browser connects again.
Drop(c) ==
    /\ stream[c].pc # "closed"
    /\ drops < MaxDrops
    /\ drops' = drops + 1
    /\ stream' = [stream EXCEPT ![c] = NoStream]
    /\ UNCHANGED <<events, terminal, rowLock, tx, client>>

-----------------------------------------------------------------------------
(* The generator of run_events.                                            *)

ReadRows(c) ==
    /\ stream[c].pc = "polling"
    /\ stream' = [stream EXCEPT ![c] =
                    [pc |-> "checking", position |-> stream[c].position,
                     batch |-> Since(stream[c].position)]]
    /\ UNCHANGED <<events, terminal, rowLock, tx, client, drops>>

\* Mutant: a terminal run whose events were all read before keeps the stream.
NeverSubstitutes == FALSE

\* What the second query sees.
RunTerminal == terminal

\* There are rows to yield; or the generator sleeps; or the run is terminal
\* and it yields a final event of its own, numbered like the last one, upon
\* which the browser stops, though an event may have been committed since.
ReadRun(c) ==
    /\ stream[c].pc = "checking"
    /\ \/ /\ stream[c].batch # {}
          /\ stream' = [stream EXCEPT ![c].pc = "sending"]
          /\ UNCHANGED client
       \/ /\ stream[c].batch = {}
          /\ ~ RunTerminal
          /\ stream' = [stream EXCEPT ![c].pc = "polling"]
          /\ UNCHANGED client
       \/ /\ stream[c].batch = {}
          /\ RunTerminal
          /\ stream' = [stream EXCEPT ![c] = NoStream]
          /\ client' = [client EXCEPT ![c] =
                          [pc |-> "done", last |-> client[c].last,
                           told |-> "substitute"]]
    /\ UNCHANGED <<events, terminal, rowLock, tx, drops>>

\* Mutant: a batch is yielded in whatever order the rows came in.
AnyOf(batch) == batch

\* ORDER BY sequence ASC
FirstOf(batch) ==
    {e \in batch : \A d \in batch : e.sequence <= d.sequence}

\* The next row reaches the browser.  A final event makes the browser close
\* the stream; otherwise the generator goes on with the batch or polls again.
Send(c) ==
    /\ stream[c].pc = "sending"
    /\ \E e \in FirstOf(stream[c].batch) :
         /\ client' = [client EXCEPT ![c] =
              [pc |-> IF e.final THEN "done" ELSE "following",
               last |-> e.sequence,
               told |-> IF e.final THEN "final" ELSE "no"]]
         /\ stream' = [stream EXCEPT ![c] =
              IF e.final THEN NoStream
              ELSE [pc |-> IF stream[c].batch = {e} THEN "polling" ELSE "sending",
                    position |-> e.sequence,
                    batch |-> stream[c].batch \ {e}]]
    /\ UNCHANGED <<events, terminal, rowLock, tx, drops>>

-----------------------------------------------------------------------------

Publish(w) == LockRun(w) \/ Number(w) \/ Commit(w) \/ RollBack(w)

Serve(c) == Connect(c) \/ ReadRows(c) \/ ReadRun(c) \/ Send(c)

Next ==
    \/ \E w \in Writers : Publish(w)
    \/ \E c \in Readers : Follow(c) \/ Serve(c) \/ Drop(c)

Spec == Init /\ [][Next]_vars

\* The browser reconnects and the generator goes on; nobody owes the run an
\* event.
FairSpec == Spec /\ \A c \in Readers : WF_vars(Serve(c))

-----------------------------------------------------------------------------
(* Properties.                                                             *)

\* A number that was computed is still free when it is written: the row lock
\* orders the publishers, so the unique index never refuses an event.
NumberStaysFree ==
    \A w \in Writers : tx[w].pc = "numbered" => ~ Taken(tx[w].next)

\* The stream is an event feed: the numbers become visible one after the
\* other without a gap, and a browser receives every event after the one it
\* began with, in order and once, however often its connection breaks
\* (接口文档_BFF_API.md:117).
Feed ==
    INSTANCE EventFeed WITH
        published <- Numbers,
        following <- {c \in Readers : client[c].pc # "new"},
        reached <- [c \in Readers |-> client[c].last]

ImplementsFeed == Feed!Spec

\* A browser that follows a run that has ended is told so, unless the run
\* becomes active again.
EveryoneHears ==
    \A c \in Readers :
        client[c].pc = "following" /\ terminal ~> client[c].pc = "done" \/ ~ terminal
=============================================================================
