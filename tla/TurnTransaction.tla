--------------------------- MODULE TurnTransaction --------------------------
(***************************************************************************)
(* The messages of one plan: every POST of a message is one database       *)
(* transaction that reads the plan, numbers and inserts its turn, has the  *)
(* message interpreted (seconds of model calls), decides what becomes of   *)
(* it and commits turn, clarification, run, constraints and conversation   *)
(* together.  Meanwhile other messages, and the worker that appends the    *)
(* result of a run to the conversation, read and write the same rows.      *)
(***************************************************************************)
EXTENDS Naturals, FiniteSets

CONSTANTS
    Requests,   \* the POSTs; a request makes at most one turn and one run
    Keys,       \* idempotency keys
    KeyOf,      \* the key of each request: a retry is another request
    ActionSets, \* the sets of actions an interpretation may propose
    Patches     \* the sets of constraints it may change

NoRequest == "none"

ASSUME RequestsAssumption == NoRequest \notin Requests
ASSUME KeysAssumption == KeyOf \in [Requests -> Keys]

VARIABLES
    turns,    \* agent_turns, by request, each with its clarification
    runs,     \* agent_runs, by the request of their turn
    plan,     \* the row of plans
    results,  \* whether the plan has a researched bundle
    pc,       \* where the transaction of each request is
    began,    \* the order in which the transactions began
    seen,     \* what each has read
    number,   \* the number each computed for its turn
    answer,   \* the turn each request was answered with; 0 is none yet
    worker    \* the worker process

request == <<pc, began, seen, number, answer>>
vars == <<turns, runs, plan, results, request, worker>>

-----------------------------------------------------------------------------
(* Prerequisites and the runtime decision.                                  *)

ConstraintFacts == {"origin", "target", "start_location"}
ASSUME PatchesAssumption == Patches \subseteq SUBSET ConstraintFacts

Facts == {"origin", "destination", "start_location", "existing_candidates"}
Actions ==
    {"research", "transport_search", "compose_itinerary", "answer", "booking", "replan"}
ASSUME ActionsAssumption == ActionSets \subseteq SUBSET Actions

\* A city one starts from is a destination when no other is named.
KnownFacts(constraints, researched) ==
    {f \in Facts :
        \/ f \in {"origin", "start_location"} /\ f \in constraints
        \/ f = "destination" /\ constraints \cap {"origin", "target"} # {}
        \/ f = "existing_candidates" /\ researched}

\* Inputs with defaults only become assumptions of the run.
Hard(action) ==
    CASE action = "research" -> {"destination"}
      [] action = "transport_search" -> {"origin", "destination"}
      [] action = "compose_itinerary" -> {"existing_candidates"}
      [] OTHER -> {}

Soft(action) == IF action = "research" THEN {"start_location"} ELSE {}

Executable(actions, facts) == {a \in actions : Hard(a) \subseteq facts}
BlockingMissing(actions, facts) == UNION {Hard(a) : a \in actions} \ facts
NonBlockingMissing(actions, facts) ==
    UNION {Soft(a) : a \in Executable(actions, facts)} \ facts

\* A run, a blocking question or an answer; asks is what the clarification
\* of the turn asks for, if it has one.
Decide(actions, facts) ==
    LET able == Executable(actions, facts)
        missing == BlockingMissing(actions, facts)
        hints == NonBlockingMissing(actions, facts)
    IN  IF able \cap {"research", "transport_search", "replan"} # {}
          THEN [status |-> "running", asks |-> IF hints # {} THEN hints ELSE missing]
        ELSE IF "compose_itinerary" \in able
          THEN [status |-> "running", asks |-> hints]
        ELSE IF missing # {} /\ able = {}
          THEN [status |-> "needs_input", asks |-> missing]
        ELSE [status |-> "answered", asks |-> hints]

-----------------------------------------------------------------------------

\* clar is the status of the clarification the turn asked; blocking iff the
\* turn needed input when it was committed.
Turn ==
    [number : Nat,
     status : {"none", "needs_input", "running", "answered", "failed", "ended"},
     clar : {"none", "open", "answered"}, blocking : BOOLEAN, asks : SUBSET Facts]

NoTurn ==
    [number |-> 0, status |-> "none", clar |-> "none", blocking |-> FALSE, asks |-> {}]

Run ==
    [status : {"none", "queued", "running", "over"}, cancel : BOOLEAN,
     parent : Requests \cup {NoRequest}, thread : Requests \cup {NoRequest}]

NoRun == [status |-> "none", cancel |-> FALSE, parent |-> NoRequest, thread |-> NoRequest]

\* known: the facts in constraints; said: the turns and the results of runs in
\* the conversation; thread: the request that renewed thread_id.
Plan ==
    [known : SUBSET ConstraintFacts, said : SUBSET ({"turn", "result"} \X Requests),
     thread : Requests \cup {NoRequest}]

NewPlan == [known |-> {}, said |-> {}, thread |-> NoRequest]

\* The plan, and what CheckKey reads.
Seen ==
    [plan : Plan, results : BOOLEAN, open : SUBSET Requests,
     active : Requests \cup {NoRequest}]

NothingSeen == [plan |-> NewPlan, results |-> FALSE, open |-> {}, active |-> NoRequest]

PC == {"new", "read", "checked", "numbered", "inserted", "done", "failed"}

Worker ==
    [pc : {"idle", "running", "applying", "applied"}, run : Requests \cup {NoRequest}, plan : Plan]

IdleWorker == [pc |-> "idle", run |-> NoRequest, plan |-> NewPlan]

\* The shapes of the variables; the run at the worker is the running one.
TypeOK ==
    /\ turns \in [Requests -> Turn]
    /\ runs \in [Requests -> Run]
    /\ plan \in Plan
    /\ results \in BOOLEAN
    /\ pc \in [Requests -> PC]
    /\ began \in [Requests -> Nat]
    /\ seen \in [Requests -> Seen]
    /\ number \in [Requests -> Nat]
    /\ answer \in [Requests -> Nat]
    /\ worker \in Worker
    /\ \A r \in Requests :
         runs[r].status = "running" <=> worker.pc # "idle" /\ worker.run = r

Init ==
    /\ turns = [r \in Requests |-> NoTurn]
    /\ runs = [r \in Requests |-> NoRun]
    /\ plan = NewPlan
    /\ results = FALSE
    /\ pc = [r \in Requests |-> "new"]
    /\ began = [r \in Requests |-> 0]
    /\ seen = [r \in Requests |-> NothingSeen]
    /\ number = [r \in Requests |-> 0]
    /\ answer = [r \in Requests |-> 0]
    /\ worker = IdleWorker

Committed == {r \in Requests : turns[r].status # "none"}
Active(r) == runs[r].status \in {"queued", "running"}

-----------------------------------------------------------------------------
(* commit_turn, until the turn is inserted.                                 *)

Goto(r, p) == pc' = [pc EXCEPT ![r] = p]

\* The session keeps the plan as it is read here.
ReadPlan(r) ==
    /\ pc[r] = "new"
    /\ Goto(r, "read")
    /\ began' = [began EXCEPT ![r] = 1 + Cardinality({q \in Requests : pc[q] # "new"})]
    /\ seen' = [seen EXCEPT ![r] = [NothingSeen EXCEPT !.plan = plan]]
    /\ UNCHANGED <<turns, runs, plan, results, number, answer, worker>>

\* The committed turn of the key, if there is one.
Served(r) == {q \in Committed : KeyOf[q] = KeyOf[r]}

\* The active run whose transaction began last.
IsLatestActive(a) ==
    IF \E q \in Requests : Active(q)
      THEN a \in Requests /\ Active(a)
             /\ \A q \in Requests : Active(q) => began[q] <= began[a]
      ELSE a = NoRequest

\* A known key is answered with its turn; otherwise the open clarifications,
\* the results and the active run are read.
CheckKey(r) ==
    /\ pc[r] = "read"
    /\ \/ \E q \in Served(r) :
            /\ Goto(r, "done")
            /\ answer' = [answer EXCEPT ![r] = turns[q].number]
            /\ UNCHANGED seen
       \/ /\ Served(r) = {}
          /\ Goto(r, "checked")
          /\ \E a \in Requests \cup {NoRequest} :
               /\ IsLatestActive(a)
               /\ seen' = [seen EXCEPT ![r] =
                     [plan |-> seen[r].plan, results |-> results, active |-> a,
                      open |-> {q \in Committed : turns[q].clar = "open"}]]
          /\ UNCHANGED answer
    /\ UNCHANGED <<turns, runs, plan, results, began, number, worker>>

Numbers == {turns[q].number : q \in Committed}

\* COALESCE(MAX(sequence_no), 0) + 1, of the committed turns.
NumberTurn(r) ==
    /\ pc[r] = "checked"
    /\ Goto(r, "numbered")
    /\ \E top \in Numbers \cup {0} :
         /\ \A n \in Numbers : n <= top
         /\ number' = [number EXCEPT ![r] = top + 1]
    /\ UNCHANGED <<turns, runs, plan, results, began, seen, answer, worker>>

\* Mutant: without the unique index on (plan_id, client_key).
NumberClash(r, q) == number[r] = number[q]

\* The unique indexes on (plan_id, client_key) and (plan_id, sequence_no).
Clash(r, q) == number[r] = number[q] \/ KeyOf[r] = KeyOf[q]

\* The insert waits for an uncommitted turn it clashes with and fails on a
\* committed one.
InsertTurn(r) ==
    /\ pc[r] = "numbered"
    /\ \A q \in Requests : pc[q] = "inserted" => ~ Clash(r, q)
    /\ Goto(r, IF \E q \in Committed : Clash(r, q) THEN "failed" ELSE "inserted")
    /\ UNCHANGED <<turns, runs, plan, results, began, seen, number, answer, worker>>

-----------------------------------------------------------------------------
(* commit_turn, after the interpretation.                                   *)

\* The client is answered with the turn of its own request.
Accepted(r) ==
    /\ Goto(r, "done")
    /\ answer' = [answer EXCEPT ![r] = number[r]]
    /\ UNCHANGED <<began, seen, number>>

\* What the new constraints and the reading of the message lead to.
FactsNow(r, patch) == KnownFacts(seen[r].plan.known \cup patch, seen[r].results)

\* A change of origin or destination needs the research done anew.
ChangesIdentity(patch) == patch \cap {"origin", "target"} # {}

\* Mutant: the turn that asked is left waiting for an input it has got.
LeavesAsker(turn) == [turn EXCEPT !.clar = "answered"]

\* The question is answered, and a turn that waited for it is over.
Answered(turn) ==
    [turn EXCEPT !.clar = "answered",
                 !.status = IF @ = "needs_input" THEN "answered" ELSE @]

\* Answered are the questions read as open of which a fact is now known.
TurnsAfter(r, d, facts) ==
    [q \in Requests |->
        IF q = r
          THEN [number |-> number[r], status |-> d.status,
                clar |-> IF d.asks = {} THEN "none" ELSE "open",
                blocking |-> d.status = "needs_input", asks |-> d.asks]
        ELSE IF q \in seen[r].open /\ turns[q].asks \cap facts # {}
          THEN Answered(turns[q])
        ELSE turns[q]]

\* A run replaces the active run, which is asked to stop, or waits for it.
RunsAfter(r, d, identity, newThread) ==
    IF d.status # "running" THEN runs
    ELSE [q \in Requests |->
            IF q = r
              THEN [status |-> "queued", cancel |-> FALSE, thread |-> newThread,
                    parent |-> IF identity THEN NoRequest ELSE seen[r].active]
            ELSE IF identity /\ q = seen[r].active
              THEN [runs[q] EXCEPT !.cancel = TRUE]
            ELSE runs[q]]

\* A research starts a new thread when it does not add to earlier results but
\* starts over; anything else goes on in the thread the plan was read with.
Renews(r, actions, facts, identity, more) ==
    /\ "replan" \notin actions
    /\ Executable(actions, facts) \cap {"research", "transport_search"} # {}
    /\ identity \/ (seen[r].results /\ ~ more)

Commit(r) ==
    /\ pc[r] = "inserted"
    /\ \E patch \in Patches, actions \in ActionSets, more \in BOOLEAN :
         LET facts == FactsNow(r, patch)
             d == Decide(actions, facts)
             identity == ChangesIdentity(patch)
             renews == Renews(r, actions, facts, identity, more)
             was == seen[r].plan
         IN  /\ turns' = TurnsAfter(r, d, facts)
             /\ runs' = RunsAfter(r, d, identity, IF renews THEN r ELSE was.thread)
             /\ plan' =
                  [known |-> IF patch = {} THEN plan.known ELSE was.known \cup patch,
                   said |-> was.said \cup {<<"turn", r>>},
                   thread |-> IF renews THEN r ELSE plan.thread]
    /\ Accepted(r)
    /\ UNCHANGED <<results, worker>>

\* The interpreter raises: the turn is committed as failed, and nothing else.
InterpretFails(r) ==
    /\ pc[r] = "inserted"
    /\ turns' = [turns EXCEPT ![r] =
                   [number |-> number[r], status |-> "failed", clar |-> "none",
                    blocking |-> FALSE, asks |-> {}]]
    /\ Accepted(r)
    /\ UNCHANGED <<runs, plan, results, worker>>

\* An error of the database, or the end of the process.
RollBack(r) ==
    /\ pc[r] \in {"read", "checked", "numbered", "inserted"}
    /\ Goto(r, "failed")
    /\ UNCHANGED <<turns, runs, plan, results, began, seen, number, answer, worker>>

-----------------------------------------------------------------------------
(* The runs, as far as the plan is concerned.                               *)

EndRun(r) ==
    /\ runs' = [runs EXCEPT ![r].status = "over"]
    /\ turns' = [turns EXCEPT ![r].status = "ended"]

Waits(r) == runs[r].status = "queued"

\* A user cancels: a queued run is over at once.
CancelRun(r) ==
    /\ Active(r)
    /\ IF Waits(r)
         THEN EndRun(r)
         ELSE /\ runs' = [runs EXCEPT ![r].cancel = TRUE]
              /\ UNCHANGED turns
    /\ UNCHANGED <<plan, results, request, worker>>

Take(r) ==
    /\ worker.pc = "idle"
    /\ runs[r].status = "queued"
    /\ runs[r].parent # NoRequest => ~ Active(runs[r].parent)
    /\ runs' = [runs EXCEPT ![r].status = "running"]
    /\ worker' = [pc |-> "running", run |-> r, plan |-> NewPlan]
    /\ UNCHANGED <<turns, plan, results, request>>

\* The graph pauses with a result: the plan is read afresh.
ReadResult(r) ==
    /\ worker.pc = "running" /\ worker.run = r
    /\ ~ runs[r].cancel
    /\ worker' = [pc |-> "applying", run |-> r, plan |-> plan]
    /\ UNCHANGED <<turns, runs, plan, results, request>>

\* The bundle and the conversation are committed.
WriteResult(r) ==
    /\ worker.pc = "applying" /\ worker.run = r
    /\ plan' = [plan EXCEPT !.said = worker.plan.said \cup {<<"result", r>>}]
    /\ results' = TRUE
    /\ worker' = [pc |-> "applied", run |-> r, plan |-> NewPlan]
    /\ UNCHANGED <<turns, runs, request>>

\* The run ends: with a result, cancelled or failed.
Finish(r) ==
    /\ worker.pc \in {"running", "applied"} /\ worker.run = r
    /\ worker' = IdleWorker
    /\ EndRun(r)
    /\ UNCHANGED <<plan, results, request>>

-----------------------------------------------------------------------------

Post(r) ==
    \/ ReadPlan(r) \/ CheckKey(r) \/ NumberTurn(r) \/ InsertTurn(r)
    \/ Commit(r) \/ InterpretFails(r) \/ RollBack(r)

Work(r) == Take(r) \/ ReadResult(r) \/ WriteResult(r) \/ Finish(r)

Next == \E r \in Requests : Post(r) \/ CancelRun(r) \/ Work(r)

Spec == Init /\ [][Next]_vars

-----------------------------------------------------------------------------
(* Properties.                                                             *)

\* A message is accepted once under its key, and every request with that key
\* is answered with the turn it was accepted as; turns are numbered without
\* gaps in the order they are committed (v4 §9.3).
Log ==
    INSTANCE TurnLog WITH
        log <- {<<turns[q].number, KeyOf[q]>> : q \in Committed}

ImplementsLog == Log!Spec

\* A turn waits for input exactly as long as the blocking question it asked
\* is open: no question is hidden behind a finished turn and no turn waits
\* for a question that was answered, whichever later turn answered it
\* (agent/metrics.py:42 counts the hidden ones, and wants none).
AskedTurnWaits ==
    \A r \in Requests :
        turns[r].status = "needs_input" <=> turns[r].blocking /\ turns[r].clar = "open"
=============================================================================
