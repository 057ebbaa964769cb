---------------------------- MODULE RunLifecycle ----------------------------
(***************************************************************************)
(* The life of an AgentRun: a chat turn creates it together with an outbox *)
(* row, a worker claims the row and executes the run under the plan lock,  *)
(* the user may cancel it, and the stall scan requeues or fails it.        *)
(*                                                                         *)
(* An action is one database transaction, or, where the code reads a row   *)
(* without locking it and writes it later (execute_run, cancel_run), the   *)
(* read and the write are two actions.  The ORM writes by primary key and  *)
(* never re-checks the status it read.                                     *)
(***************************************************************************)
EXTENDS Naturals, FiniteSets

CONSTANTS
    Runs,         \* identifiers, in the order their transactions start
    Plans,
    PlanOf,       \* the plan a run belongs to
    Workers,      \* processes running agent.worker.main
    MaxRetries,   \* settings.agent_run_max_retries
    MaxCrashes,   \* bound: worker processes killed in a behaviour
    MaxFaults,    \* bound: exceptions leaving execute_run in a behaviour
    Modes,        \* execution modes turns ask for: "graph", "recompose"
    UserCancels,  \* whether users cancel runs
    WebUses       \* whether the web process takes the plan lock too

NoRun == 0
Slots == 0..MaxRetries

ASSUME RunsAssumption == Runs \subseteq Nat \ {NoRun}
ASSUME PlanAssumption == PlanOf \in [Runs -> Plans]
ASSUME WorkersAssumption ==
    Workers \cap {"free", "orphan", "web"} = {}
ASSUME BoundsAssumption ==
    /\ MaxRetries \in Nat
    /\ MaxCrashes \in Nat
    /\ MaxFaults \in Nat
    /\ UserCancels \in BOOLEAN
    /\ WebUses \in BOOLEAN
    /\ Modes \subseteq {"graph", "recompose"}

VARIABLES
    run,      \* agent_runs: one record per run
    turn,     \* agent_turns.status of the turn that created the run
    outbox,   \* agent_outbox: slot k of r is the row added by r's k-th requeue
    worker,   \* where each worker process is, and the locals it holds
    lock,     \* the key of the plan: free, a worker's, the web's, or nobody's
    keyed,    \* whether a worker streams under a key whose time is not over
    cancel,   \* a cancel request that has read the run and not yet written it
    crashes, faults

vars == <<run, turn, outbox, worker, lock, keyed, cancel, crashes, faults>>

-----------------------------------------------------------------------------
(* The states of a run, a turn, an outbox row and a worker.                 *)

RunActive == {"queued", "running"}
RunTerminal == {"succeeded", "partial", "failed", "cancelled"}
RunStatus == RunActive \cup RunTerminal

\* Before the run's row is committed: the turn has not arrived, has read the
\* plan, has inserted its own row, or has ended without asking for a run.
Unborn == {"absent", "reading", "drafting", "norun"}

TurnTerminal == {"answered", "partial", "failed", "cancelled"}
TurnStatus == {"running"} \cup TurnTerminal

\* The turn status each call of _finalize pairs with a run status.
Verdict ==
    [succeeded |-> "answered", partial |-> "partial",
     failed |-> "failed", cancelled |-> "cancelled"]

RunRecord ==
    [status  : RunStatus \cup Unborn,
     mode    : {"graph", "recompose"},
     parent  : Runs \cup {NoRun},
     cancel  : BOOLEAN,
     retry   : Nat,
     beat    : {"null", "fresh", "stale"}]

Row == [status : {"absent", "pending", "claimed", "done", "failed"},
        attempts : Nat]

PC == {"idle", "claimed", "abort", "begin", "recompose", "locking",
       "stream", "finish", "settle", "raised"}

WorkerRecord ==
    [pc : PC, run : Runs \cup {NoRun}, slot : Slots,
     got : {"nothing", "reply", "bare"}, err : BOOLEAN,
     out : RunTerminal]

NewRun == [status |-> "absent", mode |-> "graph", parent |-> NoRun,
           cancel |-> FALSE, retry |-> 0, beat |-> "null"]
NoRow == [status |-> "absent", attempts |-> 0]
Idle == [pc |-> "idle", run |-> NoRun, slot |-> 0,
         got |-> "nothing", err |-> FALSE, out |-> "failed"]

IsActive(r) == run[r].status \in RunActive
IsTerminal(r) == run[r].status \in RunTerminal

\* The run worker w holds, and the plan it belongs to.
Held(w) == worker[w].run
HeldPlan(w) == PlanOf[Held(w)]

Init ==
    /\ run = [r \in Runs |-> NewRun]
    /\ turn = [r \in Runs |-> "running"]
    /\ outbox = [r \in Runs |-> [k \in Slots |-> NoRow]]
    /\ worker = [w \in Workers |-> Idle]
    /\ lock = [p \in Plans |-> "free"]
    /\ keyed = [w \in Workers |-> FALSE]
    /\ cancel = [r \in Runs |-> "none"]
    /\ crashes = 0
    /\ faults = 0

Goto(w, pc) == worker' = [worker EXCEPT ![w].pc = pc]

\* _finalize: the run's verdict, and the event whose publishing is a heartbeat.
Ended(rec, verdict) == [rec EXCEPT !.status = verdict, !.beat = "fresh"]

\* Mutant: the turn is left to a later transaction.
EndTurnLater(r, verdict) == UNCHANGED turn

\* _finalize also ends the turn, in the same transaction.
EndTurn(r, verdict) == turn' = [turn EXCEPT ![r] = Verdict[verdict]]

Finalize(r, verdict) ==
    /\ run' = [run EXCEPT ![r] = Ended(@, verdict)]
    /\ EndTurn(r, verdict)

\* Mutant: the key is deleted by its name, whoever's token it holds.
UnlockByName(w) ==
    lock' = [p \in Plans |-> IF p = HeldPlan(w) THEN "free" ELSE lock[p]]

\* Leaving the plan_lock block: only the owner's token deletes the key.
Unlock(w) ==
    lock' = [p \in Plans |-> IF lock[p] = w THEN "free" ELSE lock[p]]

\* The owner dies, or loses Redis before it can delete its key.
Abandon(w) ==
    lock' = [p \in Plans |-> IF lock[p] = w THEN "orphan" ELSE lock[p]]

-----------------------------------------------------------------------------
(* The chat turn: commit_turn as far as runs are concerned.                 *)

\* commit_turn reads the latest active run of the plan...
TurnRead(r) ==
    /\ run[r].status = "absent"
    /\ \A q \in Runs : PlanOf[q] = PlanOf[r] /\ q < r => run[q].status # "absent"
    /\ LET live == {q \in Runs : PlanOf[q] = PlanOf[r] /\ IsActive(q)}
       IN  \E latest \in live \cup {NoRun} :
              /\ latest = NoRun <=> live = {}
              /\ \A q \in live : q <= latest
              /\ run' = [run EXCEPT ![r].status = "reading",
                                    ![r].parent = latest]
    /\ UNCHANGED <<turn, outbox, worker, lock, keyed, cancel, crashes, faults>>

\* Another turn of the plan has inserted its row and is not committed yet.
TurnOpen(r) ==
    \E q \in Runs : PlanOf[q] = PlanOf[r] /\ run[q].status = "drafting"

\* ... and then inserts its own row, before it calls the model.  The index
\* on (plan_id, sequence_no) lets one uncommitted turn per plan through.
TurnInsert(r) ==
    /\ run[r].status = "reading"
    /\ ~TurnOpen(r)
    /\ run' = [run EXCEPT ![r].status = "drafting"]
    /\ UNCHANGED <<turn, outbox, worker, lock, keyed, cancel, crashes, faults>>

\* The index refuses the turn, or the turn is answered, clarified or failed
\* without a run.
TurnEndsAlone(r) ==
    /\ \/ run[r].status = "reading" /\ TurnOpen(r)
       \/ run[r].status = "drafting"
    /\ run' = [run EXCEPT ![r].status = "norun"]
    /\ UNCHANGED <<turn, outbox, worker, lock, keyed, cancel, crashes, faults>>

\* Mutant: the run is created without the heartbeat of its "queued" event.
SilentlyQueued(rec, mode, parent) ==
    [rec EXCEPT !.status = "queued", !.mode = mode, !.parent = parent]

\* The new row of agent_runs: publishing "queued" sets heartbeat_at.
Queued(rec, mode, parent) ==
    [rec EXCEPT !.status = "queued", !.mode = mode, !.parent = parent,
                !.beat = "fresh"]

\* The same transaction commits the turn, the run and its outbox row.  A turn
\* that changes the search identity asks the active run to stop and replaces
\* it; any other run becomes its child.
TurnCommit(r) ==
    /\ run[r].status = "drafting"
    /\ \E mode \in Modes, fullReplan \in BOOLEAN :
          run' = [q \in Runs |->
                    IF q = r
                    THEN Queued(run[r], mode,
                                IF fullReplan THEN NoRun ELSE run[r].parent)
                    ELSE IF fullReplan /\ q = run[r].parent
                    THEN [run[q] EXCEPT !.cancel = TRUE]
                    ELSE run[q]]
    /\ outbox' = [outbox EXCEPT ![r][0] = [status |-> "pending", attempts |-> 0]]
    /\ UNCHANGED <<turn, worker, lock, keyed, cancel, crashes, faults>>

-----------------------------------------------------------------------------
(* POST /runs/{id}/cancel: read the run, then write what the read decided.  *)

\* Mutant: no early return for a run that has ended.
CancellableAlways(r) == run[r].status \notin Unborn

\* A terminal run is answered with already_terminal.
Cancellable(r) == IsActive(r)

CancelRead(r) ==
    /\ UserCancels
    /\ Cancellable(r)
    /\ cancel[r] = "none"
    /\ cancel' = [cancel EXCEPT ![r] = run[r].status]
    /\ UNCHANGED <<run, turn, outbox, worker, lock, keyed, crashes, faults>>

CancelWrite(r) ==
    /\ cancel[r] # "none"
    /\ \/ /\ cancel[r] = "running"
          /\ run' = [run EXCEPT ![r].cancel = TRUE]
          /\ UNCHANGED turn
       \/ /\ cancel[r] = "queued"
          /\ run' = [run EXCEPT ![r] = [Ended(@, "cancelled") EXCEPT !.cancel = TRUE]]
          /\ EndTurn(r, "cancelled")
    /\ cancel' = [cancel EXCEPT ![r] = "none"]
    /\ UNCHANGED <<outbox, worker, lock, keyed, crashes, faults>>

-----------------------------------------------------------------------------
(* poll_once: claim a row, execute its run, settle the row.                 *)

ParentDone(r) == run[r].parent # NoRun => IsTerminal(run[r].parent)

\* Mutant: the pending filter is lost, so a row is handed out again.
ClaimableAgain(r, k) == outbox[r][k].status \in {"pending", "claimed"} /\ ParentDone(r)

\* Mutant: a child does not wait.
ClaimableEarly(r, k) == outbox[r][k].status = "pending"

Claimable(r, k) == outbox[r][k].status = "pending" /\ ParentDone(r)

\* _claim_next: FOR UPDATE SKIP LOCKED over the pending rows.  created_at
\* decides which goes first; the model lets any claimable row go first.
Claim(w) ==
    /\ worker[w].pc = "idle"
    /\ \E r \in Runs, k \in Slots :
          /\ Claimable(r, k)
          /\ outbox' = [outbox EXCEPT ![r][k] =
                          [status |-> "claimed", attempts |-> @.attempts + 1]]
          /\ worker' = [worker EXCEPT ![w] =
                          [Idle EXCEPT !.pc = "claimed", !.run = r, !.slot = k]]
    /\ UNCHANGED <<run, turn, lock, keyed, cancel, crashes, faults>>

\* Mutant: a run that is running or over is executed again.
SeenAlways(rec) == IF rec.cancel THEN "abort" ELSE "begin"

\* What execute_run does about the run it read.
Seen(rec) ==
    IF rec.status # "queued" THEN "settle"
    ELSE IF rec.cancel THEN "abort"
    ELSE "begin"

\* execute_run reads the run without a lock and decides on what it read.
ReadRun(w) ==
    /\ worker[w].pc = "claimed"
    /\ Goto(w, Seen(run[Held(w)]))
    /\ UNCHANGED <<run, turn, outbox, lock, keyed, cancel, crashes, faults>>

\* Cancelled before it started.
Abort(w) ==
    /\ worker[w].pc = "abort"
    /\ Finalize(Held(w), "cancelled")
    /\ Goto(w, "settle")
    /\ UNCHANGED <<outbox, lock, keyed, cancel, crashes, faults>>

\* RUNNING, its event and its heartbeat, committed before any work is done.
Begin(w) ==
    /\ worker[w].pc = "begin"
    /\ run' = [run EXCEPT ![Held(w)].status = "running",
                          ![Held(w)].beat = "fresh"]
    /\ Goto(w, IF run[Held(w)].mode = "recompose" THEN "recompose" ELSE "locking")
    /\ UNCHANGED <<turn, outbox, lock, keyed, cancel, crashes, faults>>

\* Mode recompose rearranges the stored result, without the lock and without
\* looking at cancel_requested.
Recompose(w) ==
    /\ worker[w].pc = "recompose"
    /\ \E verdict \in {"succeeded", "failed"} : Finalize(Held(w), verdict)
    /\ Goto(w, "settle")
    /\ UNCHANGED <<outbox, lock, keyed, cancel, crashes, faults>>

LockFree(p) == lock[p] = "free"

\* plan_lock: the key is taken; or Redis does not answer the ping, and the
\* stream goes on under the lock of the process alone, which is always free,
\* since a worker process executes one run at a time.
AcquireLock(w) ==
    /\ worker[w].pc = "locking"
    /\ \/ /\ LockFree(HeldPlan(w))
          /\ lock' = [lock EXCEPT ![HeldPlan(w)] = w]
          /\ keyed' = [keyed EXCEPT ![w] = TRUE]
       \/ UNCHANGED <<lock, keyed>>
    /\ Goto(w, "stream")
    /\ UNCHANGED <<run, turn, outbox, cancel, crashes, faults>>

\* blocking_timeout passed: the run fails with "another task is executing".
LockTimeout(w) ==
    /\ worker[w].pc = "locking"
    /\ ~LockFree(HeldPlan(w))
    /\ Finalize(Held(w), "failed")
    /\ Goto(w, "settle")
    /\ UNCHANGED <<outbox, lock, keyed, cancel, crashes, faults>>

\* One event of the graph's stream: the flag is re-read before each of them,
\* and publishing is a heartbeat.  A bundle without a reply is "bare".
StreamEvent(w) ==
    /\ worker[w].pc = "stream"
    /\ ~run[Held(w)].cancel
    /\ \/ UNCHANGED worker
       \/ worker' = [worker EXCEPT ![w].err = TRUE]
       \/ \E got \in {"reply", "bare"} : worker' = [worker EXCEPT ![w].got = got]
    /\ run' = [run EXCEPT ![Held(w)].beat = "fresh"]
    /\ UNCHANGED <<turn, outbox, lock, keyed, cancel, crashes, faults>>

\* The verdict of a stream that was not cancelled.
Aggregate(got, err) ==
    IF got = "nothing" THEN "failed"
    ELSE IF got = "bare" \/ err THEN "partial"
    ELSE "succeeded"

\* The stream is exhausted, breaks with an exception, or an event arrives
\* after the flag was raised; each way out releases the lock.  If Redis fails
\* then, the key stays until its time is over, and that is an error too.
StreamEnd(w) ==
    /\ worker[w].pc = "stream"
    /\ \E out \in {Aggregate(worker[w].got, worker[w].err),
                   Aggregate(worker[w].got, TRUE)}
                  \cup IF run[Held(w)].cancel THEN {"cancelled"} ELSE {} :
          /\ worker' = [worker EXCEPT ![w].pc = "finish", ![w].out = out]
          /\ \/ Unlock(w)
             \/ out \in {Aggregate(worker[w].got, TRUE), "cancelled"} /\ Abandon(w)
    /\ keyed' = [keyed EXCEPT ![w] = FALSE]
    /\ UNCHANGED <<run, turn, outbox, cancel, crashes, faults>>

\* Redis fails while the lock is taken: caught like a broken stream.
LockError(w) ==
    /\ worker[w].pc = "locking"
    /\ worker' = [worker EXCEPT ![w].pc = "finish",
                                ![w].out = Aggregate("nothing", TRUE)]
    /\ UNCHANGED <<run, turn, outbox, lock, keyed, cancel, crashes, faults>>

Finish(w) ==
    /\ worker[w].pc = "finish"
    /\ Finalize(Held(w), worker[w].out)
    /\ Goto(w, "settle")
    /\ UNCHANGED <<outbox, lock, keyed, cancel, crashes, faults>>

\* An exception leaves execute_run and its open transaction is rolled back.
Raise(w) ==
    /\ worker[w].pc \in {"claimed", "abort", "begin", "recompose", "locking", "finish"}
    /\ faults < MaxFaults
    /\ faults' = faults + 1
    /\ Goto(w, "raised")
    /\ UNCHANGED <<run, turn, outbox, lock, keyed, cancel, crashes>>

SetRow(w, status) ==
    outbox' = [outbox EXCEPT ![Held(w)][worker[w].slot].status = status]

\* _settle_outbox after execute_run returned a status, whatever it is.
Settle(w) ==
    /\ worker[w].pc = "settle"
    /\ SetRow(w, "done")
    /\ worker' = [worker EXCEPT ![w] = Idle]
    /\ UNCHANGED <<run, turn, lock, keyed, cancel, crashes, faults>>

\* The last attempt failed: the run ends, and its retry_count is raised too.
GivenUp(rec) == [Ended(rec, "failed") EXCEPT !.retry = @ + 1]

\* _settle_outbox after an exception: try the row again, or give up on it and
\* on its run.
SettleRaised(w) ==
    /\ worker[w].pc = "raised"
    /\ IF outbox[Held(w)][worker[w].slot].attempts <= MaxRetries
       THEN SetRow(w, "pending") /\ UNCHANGED <<run, turn>>
       ELSE /\ SetRow(w, "failed")
            /\ IF IsTerminal(Held(w)) THEN UNCHANGED <<run, turn>>
               ELSE /\ run' = [run EXCEPT ![Held(w)] = GivenUp(@)]
                    /\ turn' = [turn EXCEPT ![Held(w)] = "failed"]
    /\ worker' = [worker EXCEPT ![w] = Idle]
    /\ UNCHANGED <<lock, keyed, cancel, crashes, faults>>

-----------------------------------------------------------------------------
(* scan_stalled, which main runs between two polls.                         *)

Stalled == {r \in Runs : IsActive(r) /\ run[r].beat = "stale"}

\* Mutant: heartbeat_at stays NULL, which the scan's filter never matches.
RequeuedSilently(rec) ==
    [rec EXCEPT !.status = "queued", !.retry = @ + 1, !.beat = "null"]

\* Publishing "requeued" sets the heartbeat that was just cleared.
Requeued(rec) ==
    [rec EXCEPT !.status = "queued", !.retry = @ + 1, !.beat = "fresh"]

\* Mutant: the requeued runs get no outbox row.
RowsForgotten(again) == outbox

\* A new outbox row for every requeued run.
RowsAdded(again) ==
    [r \in Runs |-> [k \in Slots |->
        IF r \in again /\ k = run[r].retry + 1
        THEN [status |-> "pending", attempts |-> 0]
        ELSE outbox[r][k]]]

\* One transaction handles every stale run it could lock.
Scan(w) ==
    /\ worker[w].pc = "idle"
    /\ \E batch \in SUBSET Stalled \ {{}} :
          LET again == {r \in batch : run[r].retry < MaxRetries}
          IN  /\ run' = [r \in Runs |->
                           IF r \in again THEN Requeued(run[r])
                           ELSE IF r \in batch THEN Ended(run[r], "failed")
                           ELSE run[r]]
              /\ turn' = [r \in Runs |->
                           IF r \in batch \ again THEN "failed" ELSE turn[r]]
              /\ outbox' = RowsAdded(again)
    /\ UNCHANGED <<worker, lock, keyed, cancel, crashes, faults>>

-----------------------------------------------------------------------------
(* The environment: time, the web process, crashes.                         *)

\* 120 s pass without a heartbeat; the age of a finished run's is of no use.
BeatStale(r) ==
    /\ run[r].beat = "fresh"
    /\ IsActive(r)
    /\ run' = [run EXCEPT ![r].beat = "stale"]
    /\ UNCHANGED <<turn, outbox, worker, lock, keyed, cancel, crashes, faults>>

\* The web process streams, resumes or revises the plan under the same lock.
WebAcquire(p) ==
    /\ WebUses
    /\ lock[p] = "free"
    /\ lock' = [lock EXCEPT ![p] = "web"]
    /\ UNCHANGED <<run, turn, outbox, worker, keyed, cancel, crashes, faults>>

WebRelease(p) ==
    /\ lock[p] = "web"
    /\ lock' = [lock EXCEPT ![p] = "free"]
    /\ UNCHANGED <<run, turn, outbox, worker, keyed, cancel, crashes, faults>>

\* The key's TTL passes, for a dead owner and for one that streams too long.
LockExpires(p) ==
    /\ lock[p] = "orphan" \/ lock[p] \in Workers
    /\ lock' = [lock EXCEPT ![p] = "free"]
    /\ keyed' = [w \in Workers |-> keyed[w] /\ lock[p] # w]
    /\ UNCHANGED <<run, turn, outbox, worker, cancel, crashes, faults>>

\* The worker process dies and is restarted.  Its row stays claimed and its
\* key stays in Redis.
Crash(w) ==
    /\ worker[w].pc # "idle"
    /\ crashes < MaxCrashes
    /\ crashes' = crashes + 1
    /\ worker' = [worker EXCEPT ![w] = Idle]
    /\ Abandon(w)
    /\ keyed' = [keyed EXCEPT ![w] = FALSE]
    /\ UNCHANGED <<run, turn, outbox, cancel, faults>>

-----------------------------------------------------------------------------
UserNext == \E r \in Runs :
    \/ TurnRead(r)
    \/ TurnInsert(r)
    \/ TurnEndsAlone(r)
    \/ TurnCommit(r)
    \/ CancelRead(r)
    \/ CancelWrite(r)

Execute(w) ==
    \/ ReadRun(w)
    \/ Abort(w)
    \/ Begin(w)
    \/ Recompose(w)
    \/ AcquireLock(w)
    \/ LockTimeout(w)
    \/ StreamEnd(w)
    \/ Finish(w)
    \/ Settle(w)
    \/ SettleRaised(w)

WorkerNext == \E w \in Workers :
    \/ Claim(w)
    \/ Execute(w)
    \/ StreamEvent(w)
    \/ LockError(w)
    \/ Raise(w)
    \/ Scan(w)
    \/ Crash(w)

EnvNext ==
    \/ \E r \in Runs : BeatStale(r)
    \/ \E p \in Plans : WebAcquire(p) \/ WebRelease(p) \/ LockExpires(p)

Next == UserNext \/ WorkerNext \/ EnvNext

Spec == Init /\ [][Next]_vars

\* The main loop alternates polling and scanning and never blocks for ever:
\* model calls have timeouts, the graph's loops are capped, locks time out.
\* Clocks advance.  Users, crashes and exceptions owe nothing.
Fairness ==
    /\ \A w \in Workers :
          /\ WF_vars(Claim(w))
          /\ WF_vars(Execute(w))
          /\ WF_vars(Scan(w))
    /\ \A r \in Runs : WF_vars(BeatStale(r))
    /\ \A p \in Plans : WF_vars(WebRelease(p)) /\ WF_vars(LockExpires(p))

FairSpec == Spec /\ Fairness

-----------------------------------------------------------------------------
(* Properties.                                                              *)

TypeOK ==
    /\ run \in [Runs -> RunRecord]
    /\ turn \in [Runs -> TurnStatus]
    /\ outbox \in [Runs -> [Slots -> Row]]
    /\ worker \in [Workers -> WorkerRecord]
    /\ lock \in [Plans -> Workers \cup {"free", "orphan", "web"}]
    /\ keyed \in [Workers -> BOOLEAN]
    /\ cancel \in [Runs -> {"none"} \cup RunActive]
    /\ crashes \in Nat
    /\ faults \in Nat

Holds(w, r, k) ==
    /\ worker[w].pc # "idle"
    /\ worker[w].run = r
    /\ worker[w].slot = k

\* Worker states from which a queued run is still going to be looked at.
Carrying == {"claimed", "abort", "begin", "raised"}

Executing == {"recompose", "locking", "stream", "finish"}

\* Every row a worker holds is claimed, and by nobody else: SKIP LOCKED hands
\* an outbox row to one worker, and only that worker gives it back.
RowsHeldOnce ==
    /\ \A w \in Workers :
          worker[w].pc # "idle" => outbox[Held(w)][worker[w].slot].status = "claimed"
    /\ \A v, w \in Workers, r \in Runs, k \in Slots :
          Holds(v, r, k) /\ Holds(w, r, k) => v = w

\* The promise of the outbox: a queued run is never forgotten.  One of its
\* rows is waiting, or is with a worker that has yet to act on the run, or was
\* claimed by a worker that died (which only the stall scan can mend).
QueuedHasCarrier ==
    \A r \in Runs : run[r].status = "queued" =>
        \E k \in Slots :
            \/ outbox[r][k].status = "pending"
            \/ /\ outbox[r][k].status = "claimed"
               /\ \A w \in Workers : Holds(w, r, k) => worker[w].pc \in Carrying

Streams(w) == worker[w].pc = "stream"

\* Two processes never stream the graph of one plan at once, for they would
\* write its checkpoints into each other's: lock:plan makes executions serial.
\* So say the documents, and TLC refutes it (README, section 5).
StreamsAreSerial ==
    \A v, w \in Workers :
        Streams(v) /\ Streams(w) /\ HeldPlan(v) = HeldPlan(w) => v = w

\* A worker that streams under a key whose time is not over is alone with the
\* others that do, and with the web process: whoever streams without Redis,
\* outlives its key or dies never takes the key from under it.
StreamExclusive ==
    \A w \in Workers : Streams(w) /\ keyed[w] =>
        /\ lock[HeldPlan(w)] # "web"
        /\ \A v \in Workers :
              Streams(v) /\ keyed[v] /\ HeldPlan(v) = HeldPlan(w) => v = w

\* The turn the user sees agrees with the run: a finished run has ended its
\* turn with the matching verdict, and a run nobody cancelled or requeued is
\* active only while its turn is RUNNING.
TurnMirrorsRun ==
    \A r \in Runs :
        /\ IsTerminal(r) => turn[r] = Verdict[run[r].status]
        /\ IsActive(r) /\ ~run[r].cancel /\ run[r].retry = 0 => turn[r] = "running"

\* With one worker process, a child run is executed only after its parent has
\* ended, whatever crashes, requeues and duplicate rows there were.
ChildAfterParent ==
    \A w \in Workers : worker[w].pc \in Executing => ParentDone(Held(w))

\* A verdict is overwritten only if the run was cancelled or requeued: the
\* unlocked reads of execute_run and cancel_run matter in no other case.
VerdictStands ==
    [][\A r \in Runs : IsTerminal(r) /\ run'[r].status # run[r].status
          => run'[r].cancel \/ run'[r].retry > 0]_vars

\* With one worker process only a cancel request can overturn a verdict: the
\* duplicate rows that requeues leave behind are harmless.
OnlyCancelOverturns ==
    [][\A r \in Runs : IsTerminal(r) /\ run'[r].status # run[r].status
          => run'[r].cancel]_vars

\* Every active run ends, though workers crash, executions raise, the lock of
\* a dead worker lingers and rows are lost with their claimant.
RunsEnd == \A r \in Runs : IsActive(r) ~> IsTerminal(r)
=============================================================================
