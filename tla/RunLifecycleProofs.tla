------------------------- MODULE RunLifecycleProofs -------------------------
(* Theorems about RunLifecycle, for any runs, plans, workers and bounds.    *)
EXTENDS RunLifecycle, TLAPS

\* _finalize gives every terminal run status a terminal turn status.
LEMMA VerdictType == \A v \in RunTerminal : Verdict[v] \in TurnTerminal
  BY DEF RunTerminal, TurnTerminal, Verdict

\* The new versions of a run record are run records.
LEMMA RecordTypes ==
  ASSUME NEW rec \in RunRecord
  PROVE  /\ \A v \in RunTerminal : Ended(rec, v) \in RunRecord
         /\ \A v \in RunTerminal :
               [Ended(rec, v) EXCEPT !.cancel = TRUE] \in RunRecord
         /\ GivenUp(rec) \in RunRecord
         /\ \A m \in Modes, q \in Runs \cup {NoRun} :
               Queued(rec, m, q) \in RunRecord
         /\ Requeued(rec) \in RunRecord
         /\ [rec EXCEPT !.cancel = TRUE] \in RunRecord
  <1>1. \A v \in RunTerminal : Ended(rec, v) \in RunRecord
    BY DEF Ended, RunRecord, RunStatus
  <1>2. \A x \in RunRecord : [x EXCEPT !.cancel = TRUE] \in RunRecord
    BY DEF RunRecord
  <1>3. \A x \in RunRecord : [x EXCEPT !.retry = @ + 1] \in RunRecord
    BY DEF RunRecord
  <1>4. \A m \in Modes, q \in Runs \cup {NoRun} : Queued(rec, m, q) \in RunRecord
    BY BoundsAssumption DEF Queued, RunRecord, RunStatus, RunActive
  <1>5. Requeued(rec) \in RunRecord
    <2>1. rec.retry \in Nat /\ rec.retry + 1 \in Nat
      BY DEF RunRecord
    <2>2. \A n \in Nat : [rec EXCEPT !.status = "queued", !.retry = n,
                                   !.beat = "fresh"] \in RunRecord
      BY DEF RunRecord, RunStatus, RunActive
    <2> QED BY <2>1, <2>2 DEF Requeued
  <1>6. "failed" \in RunTerminal
    BY DEF RunTerminal
  <1>7. \A v \in RunTerminal : [Ended(rec, v) EXCEPT !.cancel = TRUE] \in RunRecord
    BY <1>1, <1>2
  <1>8. GivenUp(rec) \in RunRecord
    BY <1>1, <1>3, <1>6 DEF GivenUp
  <1>9. [rec EXCEPT !.cancel = TRUE] \in RunRecord
    BY <1>2
  <1> QED BY <1>1, <1>4, <1>5, <1>7, <1>8, <1>9

\* Finalize keeps runs and turns typed.
LEMMA FinalizeType ==
  ASSUME TypeOK, NEW r \in Runs, NEW v \in RunTerminal, Finalize(r, v)
  PROVE  run' \in [Runs -> RunRecord] /\ turn' \in [Runs -> TurnStatus]
  BY VerdictType, RecordTypes DEF TypeOK, Finalize, EndTurn, TurnStatus

\* A worker that is not idle holds a run.
WorkerHasRun == \A w \in Workers : worker[w].pc # "idle" => worker[w].run \in Runs

TInv == TypeOK /\ WorkerHasRun

LEMMA InitType == Init => TInv
  BY BoundsAssumption
     DEF Init, TInv, TypeOK, WorkerHasRun, NewRun, NoRow, Idle, RunRecord, RunStatus, Unborn, TurnStatus,
         Row, Slots, WorkerRecord, PC, RunTerminal, NoRun

\* What a user does keeps the types.
LEMMA UserType == TInv /\ UserNext => TInv'
<1> SUFFICES ASSUME TInv, NEW r \in Runs,
                    \/ TurnRead(r) \/ TurnInsert(r) \/ TurnEndsAlone(r)
                    \/ TurnCommit(r) \/ CancelRead(r) \/ CancelWrite(r)
             PROVE  TInv'
  BY DEF UserNext
<1> USE DEF TInv
<1>1. CASE TurnRead(r)
  <2>1. run' \in [Runs -> RunRecord]
    <3>1. PICK latest \in Runs \cup {NoRun} :
             run' = [run EXCEPT ![r].status = "reading", ![r].parent = latest]
      BY <1>1 DEF TurnRead
    <3>2. [run[r] EXCEPT !.status = "reading", !.parent = latest] \in RunRecord
      BY ZenonT(40) DEF TypeOK, RunRecord, Unborn
    <3> QED BY <3>1, <3>2 DEF TypeOK
  <2> QED BY <1>1, <2>1 DEF TurnRead, TypeOK, WorkerHasRun
<1>5. CASE TurnInsert(r) \/ TurnEndsAlone(r)
  <2>1. PICK st \in Unborn : run' = [run EXCEPT ![r].status = st]
    BY <1>5 DEF TurnInsert, TurnEndsAlone, Unborn
  <2>2. [run[r] EXCEPT !.status = st] \in RunRecord
    BY ZenonT(40) DEF TypeOK, RunRecord
  <2>3. UNCHANGED <<turn, outbox, worker, lock, keyed, cancel, crashes, faults>>
    BY <1>5 DEF TurnInsert, TurnEndsAlone
  <2> QED BY <2>1, <2>2, <2>3 DEF TypeOK, WorkerHasRun
<1>2. CASE TurnCommit(r)
  <2>1. run' \in [Runs -> RunRecord]
    <3>1. \A q \in Runs : run[q] \in RunRecord /\ [run[q] EXCEPT !.cancel = TRUE] \in RunRecord
      BY RecordTypes DEF TypeOK
    <3>2. run[r].parent \in Runs \cup {NoRun}
      BY DEF TypeOK, RunRecord
    <3>3. \A m \in Modes, f \in BOOLEAN :
             Queued(run[r], m, IF f THEN NoRun ELSE run[r].parent) \in RunRecord
      BY <3>1, <3>2, RecordTypes
    <3> QED BY <1>2, <3>1, <3>3 DEF TurnCommit
  <2>2. outbox' \in [Runs -> [Slots -> Row]]
    BY <1>2 DEF TurnCommit, TypeOK, Row
  <2>3. UNCHANGED <<turn, worker, lock, keyed, cancel, crashes, faults>>
    BY <1>2 DEF TurnCommit
  <2>4. WorkerHasRun'
    BY <2>3 DEF WorkerHasRun
  <2>5. TypeOK'
    BY <2>1, <2>2, <2>3 DEF TypeOK
  <2> QED BY <2>4, <2>5
<1>3. CASE CancelRead(r)
  BY <1>3 DEF CancelRead, Cancellable, IsActive, TypeOK, WorkerHasRun
<1>4. CASE CancelWrite(r)
  <2>1. run' \in [Runs -> RunRecord]
    <3>1. /\ run[r] \in RunRecord
          /\ [run[r] EXCEPT !.cancel = TRUE] \in RunRecord
          /\ [Ended(run[r], "cancelled") EXCEPT !.cancel = TRUE] \in RunRecord
      BY RecordTypes DEF TypeOK, RunTerminal
    <3>2. PICK rec \in RunRecord : run' = [run EXCEPT ![r] = rec]
      BY <1>4, <3>1 DEF CancelWrite
    <3> QED BY <3>2 DEF TypeOK
  <2>2. turn' \in [Runs -> TurnStatus]
    BY <1>4, VerdictType DEF CancelWrite, EndTurn, TypeOK, TurnStatus, RunTerminal
  <2> QED BY <1>4, <2>1, <2>2 DEF CancelWrite, TypeOK, WorkerHasRun
<1> QED BY <1>1, <1>2, <1>3, <1>4, <1>5

\* Sending a worker that holds a run somewhere else keeps the worker typed.
LEMMA GotoType ==
  ASSUME TInv, NEW w \in Workers, worker[w].pc # "idle", NEW pc \in PC, Goto(w, pc)
  PROVE  worker' \in [Workers -> WorkerRecord] /\ WorkerHasRun'
  BY SMTT(30) DEF TInv, TypeOK, WorkerHasRun, Goto, WorkerRecord

\* Releasing or losing the lock keeps it typed.
LEMMA LockType ==
  ASSUME TypeOK, NEW w \in Workers, Unlock(w) \/ Abandon(w)
  PROVE  lock' \in [Plans -> Workers \cup {"free", "orphan", "web"}]
  BY DEF TypeOK, Unlock, Abandon

\* Writing the status of a held row keeps the outbox typed.
LEMMA SetRowType ==
  ASSUME TInv, NEW w \in Workers, worker[w].pc # "idle",
         NEW st \in {"pending", "done", "failed"}, SetRow(w, st)
  PROVE  outbox' \in [Runs -> [Slots -> Row]]
<1>1. Held(w) \in Runs /\ worker[w].slot \in Slots
  BY DEF TInv, TypeOK, WorkerHasRun, WorkerRecord, Held
<1>2. [outbox[Held(w)][worker[w].slot] EXCEPT !.status = st] \in Row
  <2>1. outbox[Held(w)][worker[w].slot] \in Row
    BY <1>1 DEF TInv, TypeOK
  <2> QED BY <2>1 DEF Row
<1> QED BY <1>1, <1>2 DEF TInv, TypeOK, SetRow

\* A step of an execution that writes no row, no counter and no cancel
\* request keeps the types if it keeps those of what it does write.
LEMMA ExecuteType == TInv /\ (\E w \in Workers : Execute(w)) => TInv'
<1> SUFFICES ASSUME TInv, NEW w \in Workers, Execute(w)
             PROVE  TInv'
  OBVIOUS
<1> USE DEF TInv
<1>1. worker[w].pc # "idle" /\ Held(w) \in Runs /\ run[Held(w)] \in RunRecord
  BY DEF Execute, ReadRun, Abort, Begin, Recompose, AcquireLock, LockTimeout, StreamEnd,
         Finish, Settle, SettleRaised, TypeOK, WorkerHasRun, Held
<1>2. CASE ReadRun(w)
  <2>1. Seen(run[Held(w)]) \in PC
    BY DEF Seen, PC
  <2>2. worker' \in [Workers -> WorkerRecord] /\ WorkerHasRun'
    BY <1>1, <1>2, <2>1, GotoType DEF ReadRun
  <2> QED BY <1>2, <2>2 DEF ReadRun, TypeOK
<1>3. CASE Abort(w) \/ LockTimeout(w) \/ Recompose(w) \/ Finish(w)
  <2>1. PICK v \in RunTerminal : Finalize(Held(w), v)
    BY <1>3 DEF Abort, LockTimeout, Recompose, Finish, RunTerminal, TypeOK, WorkerRecord
  <2>2. run' \in [Runs -> RunRecord] /\ turn' \in [Runs -> TurnStatus]
    BY <1>1, <2>1, FinalizeType
  <2>3. Goto(w, "settle") /\ UNCHANGED <<outbox, lock, keyed, cancel, crashes, faults>>
    BY <1>3 DEF Abort, LockTimeout, Recompose, Finish
  <2>4. worker' \in [Workers -> WorkerRecord] /\ WorkerHasRun'
    BY <1>1, <2>3, GotoType DEF PC
  <2> QED BY <2>2, <2>3, <2>4 DEF TypeOK
<1>4. CASE Begin(w)
  <2>1. run' \in [Runs -> RunRecord]
    <3>1. [run[Held(w)] EXCEPT !.status = "running", !.beat = "fresh"] \in RunRecord
      BY <1>1 DEF RunRecord, RunStatus, RunActive
    <3> QED BY <1>4, <3>1 DEF Begin, TypeOK
  <2>2. worker' \in [Workers -> WorkerRecord] /\ WorkerHasRun'
    BY <1>1, <1>4, GotoType DEF Begin, PC
  <2> QED BY <1>4, <2>1, <2>2 DEF Begin, TypeOK
<1>5. CASE AcquireLock(w)
  <2>1. worker' \in [Workers -> WorkerRecord] /\ WorkerHasRun'
    BY <1>1, <1>5, GotoType DEF AcquireLock, PC
  <2>2. lock' \in [Plans -> Workers \cup {"free", "orphan", "web"}]
    BY <1>5 DEF AcquireLock, TypeOK
  <2>3. keyed' \in [Workers -> BOOLEAN]
    BY <1>5 DEF AcquireLock, TypeOK
  <2> QED BY <1>5, <2>1, <2>2, <2>3 DEF AcquireLock, TypeOK
<1>6. CASE StreamEnd(w)
  <2>1. PICK out \in RunTerminal :
           worker' = [worker EXCEPT ![w].pc = "finish", ![w].out = out]
    BY <1>6 DEF StreamEnd, Aggregate, RunTerminal
  <2>2. [worker[w] EXCEPT !.pc = "finish", !.out = out] \in WorkerRecord
    BY DEF TypeOK, WorkerRecord, PC
  <2>3. worker' \in [Workers -> WorkerRecord] /\ WorkerHasRun'
    BY <1>1, <2>1, <2>2 DEF TypeOK, WorkerHasRun, Held
  <2>4. lock' \in [Plans -> Workers \cup {"free", "orphan", "web"}]
    BY <1>6, LockType DEF StreamEnd
  <2>5. keyed' \in [Workers -> BOOLEAN]
    BY <1>6 DEF StreamEnd, TypeOK
  <2> QED BY <1>6, <2>3, <2>4, <2>5 DEF StreamEnd, TypeOK
<1>7. Idle \in WorkerRecord /\ Idle.pc = "idle"
  BY BoundsAssumption DEF Idle, WorkerRecord, PC, Slots, RunTerminal
<1>8. worker' = [worker EXCEPT ![w] = Idle] =>
         worker' \in [Workers -> WorkerRecord] /\ WorkerHasRun'
  BY <1>7 DEF TypeOK, WorkerHasRun
<1>9. CASE Settle(w)
  <2>1. outbox' \in [Runs -> [Slots -> Row]]
    BY <1>1, <1>9, SetRowType DEF Settle
  <2> QED BY <1>8, <1>9, <2>1 DEF Settle, TypeOK
<1>10. CASE SettleRaised(w)
  <2>1. outbox' \in [Runs -> [Slots -> Row]]
    BY <1>1, <1>10, SetRowType DEF SettleRaised
  <2>2. run' \in [Runs -> RunRecord]
    <3>1. GivenUp(run[Held(w)]) \in RunRecord
      BY <1>1, RecordTypes
    <3>2. run' = run \/ run' = [run EXCEPT ![Held(w)] = GivenUp(@)]
      BY <1>10 DEF SettleRaised
    <3> QED BY <3>1, <3>2 DEF TypeOK
  <2>3. turn' \in [Runs -> TurnStatus]
    BY <1>10 DEF SettleRaised, TypeOK, TurnStatus, TurnTerminal
  <2> QED BY <1>8, <1>10, <2>1, <2>2, <2>3 DEF SettleRaised, TypeOK
<1> QED BY <1>2, <1>3, <1>4, <1>5, <1>6, <1>9, <1>10 DEF Execute

\* Claiming, streaming, failing, scanning and crashing keep the types.
LEMMA WorkerType == TInv /\ WorkerNext => TInv'
<1> SUFFICES ASSUME TInv, NEW w \in Workers,
                    \/ Claim(w) \/ StreamEvent(w) \/ LockError(w)
                    \/ Raise(w) \/ Scan(w) \/ Crash(w)
             PROVE  TInv'
  BY ExecuteType DEF WorkerNext
<1> USE DEF TInv
<1>1. Idle \in WorkerRecord /\ Idle.pc = "idle"
  BY BoundsAssumption DEF Idle, WorkerRecord, PC, Slots, RunTerminal
<1>2. CASE Claim(w)
  <2>1. PICK r \in Runs, k \in Slots :
           /\ outbox' = [outbox EXCEPT ![r][k] =
                           [status |-> "claimed", attempts |-> @.attempts + 1]]
           /\ worker' = [worker EXCEPT ![w] =
                           [Idle EXCEPT !.pc = "claimed", !.run = r, !.slot = k]]
    BY <1>2 DEF Claim
  <2>2. [status |-> "claimed", attempts |-> outbox[r][k].attempts + 1] \in Row
    BY DEF TypeOK, Row
  <2>3. outbox' \in [Runs -> [Slots -> Row]]
    BY <2>1, <2>2 DEF TypeOK
  <2>4. [Idle EXCEPT !.pc = "claimed", !.run = r, !.slot = k] \in WorkerRecord
    BY <1>1 DEF WorkerRecord, PC
  <2>5. worker' \in [Workers -> WorkerRecord] /\ WorkerHasRun'
    BY <2>1, <2>4 DEF TypeOK, WorkerHasRun, Idle
  <2> QED BY <1>2, <2>3, <2>5 DEF Claim, TypeOK
<1>3. CASE StreamEvent(w)
  <2>1. Held(w) \in Runs
    BY <1>3 DEF StreamEvent, WorkerHasRun, Held
  <2>2. run' \in [Runs -> RunRecord]
    <3>1. [run[Held(w)] EXCEPT !.beat = "fresh"] \in RunRecord
      BY <2>1 DEF TypeOK, RunRecord
    <3> QED BY <1>3, <3>1 DEF StreamEvent, TypeOK
  <2>3. worker' \in [Workers -> WorkerRecord] /\ WorkerHasRun'
    <3>1. PICK rec \in WorkerRecord :
             worker' = [worker EXCEPT ![w] = rec] /\ rec.run = worker[w].run
      <4>1. /\ worker[w] \in WorkerRecord
            /\ [worker[w] EXCEPT !.err = TRUE] \in WorkerRecord
            /\ \A got \in {"reply", "bare"} :
                  [worker[w] EXCEPT !.got = got] \in WorkerRecord
        <5>1. worker[w] \in WorkerRecord
          BY DEF TypeOK
        <5>2. [worker[w] EXCEPT !.err = TRUE] \in WorkerRecord
          BY <5>1 DEF WorkerRecord
        <5>3. \A got \in {"reply", "bare"} :
                 [worker[w] EXCEPT !.got = got] \in WorkerRecord
          BY <5>1 DEF WorkerRecord
        <5> QED BY <5>1, <5>2, <5>3
      <4>2. CASE UNCHANGED worker
        BY <4>1, <4>2 DEF TypeOK
      <4>3. CASE worker' = [worker EXCEPT ![w].err = TRUE]
        BY <4>1, <4>3 DEF WorkerRecord
      <4>4. CASE \E got \in {"reply", "bare"} : worker' = [worker EXCEPT ![w].got = got]
        BY <4>1, <4>4 DEF WorkerRecord
      <4> QED BY <1>3, <4>2, <4>3, <4>4 DEF StreamEvent
    <3> QED BY <1>3, <2>1, <3>1 DEF TypeOK, WorkerHasRun, Held
  <2> QED BY <1>3, <2>2, <2>3 DEF StreamEvent, TypeOK
<1>4. CASE LockError(w)
  <2>1. [worker[w] EXCEPT !.pc = "finish", !.out = "failed"] \in WorkerRecord
    BY ZenonT(40) DEF TypeOK, WorkerRecord, PC, RunTerminal
  <2>2. worker' = [worker EXCEPT ![w].pc = "finish", ![w].out = "failed"]
    BY <1>4 DEF LockError, Aggregate
  <2>3. worker' \in [Workers -> WorkerRecord] /\ WorkerHasRun'
    <3>1. worker[w].run \in Runs
      BY <1>4 DEF LockError, WorkerHasRun
    <3>2. [worker[w] EXCEPT !.pc = "finish", !.out = "failed"].run \in Runs
      BY <3>1 DEF TypeOK, WorkerRecord
    <3> QED BY <2>1, <2>2, <3>2 DEF TypeOK, WorkerHasRun
  <2> QED BY <1>4, <2>3 DEF LockError, TypeOK
<1>5. CASE Raise(w)
  <2>1. worker' \in [Workers -> WorkerRecord] /\ WorkerHasRun'
    BY <1>5, GotoType DEF Raise, PC
  <2> QED BY <1>5, <2>1 DEF Raise, TypeOK
<1>6. CASE Scan(w)
  <2>1. run' \in [Runs -> RunRecord]
    <3>1. \A r \in Runs : /\ run[r] \in RunRecord
                          /\ Requeued(run[r]) \in RunRecord
                          /\ Ended(run[r], "failed") \in RunRecord
      BY RecordTypes DEF TypeOK, RunTerminal
    <3> QED BY <1>6, <3>1 DEF Scan
  <2>2. turn' \in [Runs -> TurnStatus]
    BY <1>6 DEF Scan, TypeOK, TurnStatus, TurnTerminal
  <2>3. outbox' \in [Runs -> [Slots -> Row]]
    <3>1. [status |-> "pending", attempts |-> 0] \in Row
      BY DEF Row
    <3>2. PICK again : outbox' = RowsAdded(again)
      BY <1>6 DEF Scan
    <3> QED BY <3>1, <3>2 DEF RowsAdded, TypeOK
  <2> QED BY <1>6, <2>1, <2>2, <2>3 DEF Scan, TypeOK, WorkerHasRun
<1>7. CASE Crash(w)
  <2>1. worker' \in [Workers -> WorkerRecord] /\ WorkerHasRun'
    BY <1>1, <1>7 DEF Crash, TypeOK, WorkerHasRun
  <2>2. lock' \in [Plans -> Workers \cup {"free", "orphan", "web"}]
    BY <1>7, LockType DEF Crash
  <2>3. keyed' \in [Workers -> BOOLEAN]
    BY <1>7 DEF Crash, TypeOK
  <2> QED BY <1>7, <2>1, <2>2, <2>3 DEF Crash, TypeOK
<1> QED BY <1>2, <1>3, <1>4, <1>5, <1>6, <1>7

\* The environment keeps the types.
LEMMA EnvType == TInv /\ EnvNext => TInv'
<1> SUFFICES ASSUME TInv, EnvNext PROVE TInv'
  OBVIOUS
<1> USE DEF TInv
<1>1. ASSUME NEW r \in Runs, BeatStale(r) PROVE TInv'
  <2>1. [run[r] EXCEPT !.beat = "stale"] \in RunRecord
    BY DEF TypeOK, RunRecord
  <2> QED BY <1>1, <2>1 DEF BeatStale, TypeOK, WorkerHasRun
<1>2. ASSUME NEW p \in Plans, WebAcquire(p) \/ WebRelease(p) \/ LockExpires(p)
      PROVE  TInv'
  <2>1. PICK l \in {"free", "web"} : lock' = [lock EXCEPT ![p] = l]
    BY <1>2 DEF WebAcquire, WebRelease, LockExpires
  <2>2. UNCHANGED <<run, turn, outbox, worker, cancel, crashes, faults>>
    BY <1>2 DEF WebAcquire, WebRelease, LockExpires
  <2>3. lock' \in [Plans -> Workers \cup {"free", "orphan", "web"}]
    BY <2>1 DEF TypeOK
  <2>4. keyed' \in [Workers -> BOOLEAN]
    BY <1>2 DEF WebAcquire, WebRelease, LockExpires, TypeOK
  <2>5. WorkerHasRun'
    BY <2>2 DEF WorkerHasRun
  <2> QED BY <2>2, <2>3, <2>4, <2>5 DEF TypeOK
<1> QED BY <1>1, <1>2 DEF EnvNext

LEMMA StepType == TInv /\ [Next]_vars => TInv'
<1>1. TInv /\ UNCHANGED vars => TInv'
  BY DEF TInv, TypeOK, WorkerHasRun, vars
<1> QED BY <1>1, UserType, WorkerType, EnvType DEF Next

\* Every reachable state is typed: among other things, an outbox row is never
\* written outside its run's slots and a worker at work always holds a run.
THEOREM TypeCorrect == Spec => []TypeOK
<1>1. Spec => []TInv
  BY InitType, StepType, PTL DEF Spec
<1>2. TInv => TypeOK
  BY DEF TInv
<1> QED BY <1>1, <1>2, PTL

-----------------------------------------------------------------------------
(* No queued run is forgotten.  QueuedHasCarrier is not inductive alone:    *)
(* settling a row must not take it from another worker (RowsHeldOnce), and  *)
(* a requeue must find its row unused (RowsFresh).                          *)

\* A slot is empty before its run is committed and before its requeue.
RowsFresh ==
    \A r \in Runs, k \in Slots :
        run[r].status \in Unborn \/ k > run[r].retry => outbox[r][k].status = "absent"

CarrierInv == TInv /\ RowsFresh /\ RowsHeldOnce /\ QueuedHasCarrier

\* A step that touches no row and keeps every worker on its row, and whose
\* queued runs were queued before and lose no worker that carries them.
QuietMove ==
    /\ outbox' = outbox
    /\ \A w \in Workers :
          /\ worker'[w].pc = "idle" <=> worker[w].pc = "idle"
          /\ worker'[w].run = worker[w].run
          /\ worker'[w].slot = worker[w].slot
          /\ worker[w].pc \in Carrying =>
                worker'[w].pc \in Carrying \/ run'[Held(w)].status # "queued"
    /\ \A r \in Runs :
          /\ run'[r].status = "queued" => run[r].status = "queued"
          /\ run'[r].status \in Unborn => run[r].status \in Unborn
          /\ run'[r].retry = run[r].retry

LEMMA InitCarrier == Init => CarrierInv
<1> SUFFICES ASSUME Init PROVE CarrierInv
  OBVIOUS
<1>1. RowsFresh
  BY DEF Init, RowsFresh, NoRow
<1>2. RowsHeldOnce
  BY DEF Init, RowsHeldOnce, Holds, Idle
<1>3. QueuedHasCarrier
  BY DEF Init, QueuedHasCarrier, NewRun
<1> QED BY <1>1, <1>2, <1>3, InitType DEF CarrierInv

LEMMA QuietMoveKeeps ==
  ASSUME CarrierInv, QuietMove
  PROVE  RowsFresh' /\ RowsHeldOnce' /\ QueuedHasCarrier'
<1> USE DEF CarrierInv, QuietMove
<1>1. RowsFresh'
  BY DEF RowsFresh
<1>2. \A w \in Workers, r \in Runs, k \in Slots : Holds(w, r, k)' <=> Holds(w, r, k)
  BY DEF Holds
<1>3. RowsHeldOnce'
  BY <1>2 DEF RowsHeldOnce, Held
<1>4. QueuedHasCarrier'
  <2> SUFFICES ASSUME NEW r \in Runs, run'[r].status = "queued"
               PROVE  \E k \in Slots :
                        \/ outbox[r][k].status = "pending"
                        \/ /\ outbox[r][k].status = "claimed"
                           /\ \A w \in Workers : Holds(w, r, k)' => worker'[w].pc \in Carrying
    BY DEF QueuedHasCarrier
  <2>1. PICK k \in Slots :
           \/ outbox[r][k].status = "pending"
           \/ /\ outbox[r][k].status = "claimed"
              /\ \A w \in Workers : Holds(w, r, k) => worker[w].pc \in Carrying
    BY DEF QueuedHasCarrier
  <2>2. ASSUME NEW w \in Workers, Holds(w, r, k), worker[w].pc \in Carrying
        PROVE  worker'[w].pc \in Carrying
    BY <2>2 DEF Holds, Held
  <2> QED BY <1>2, <2>1, <2>2
<1> QED BY <1>1, <1>3, <1>4

\* What the new versions of a run record do to its status and retry count.
LEMMA RecordFields ==
  ASSUME NEW rec \in RunRecord
  PROVE  /\ rec.retry \in Nat
         /\ \A v \in RunTerminal : /\ Ended(rec, v).status = v
                                   /\ Ended(rec, v).retry = rec.retry
         /\ \A v \in RunTerminal : [Ended(rec, v) EXCEPT !.cancel = TRUE].status = v
         /\ \A v \in RunTerminal : [Ended(rec, v) EXCEPT !.cancel = TRUE].retry = rec.retry
         /\ GivenUp(rec).status = "failed" /\ GivenUp(rec).retry = rec.retry + 1
         /\ Requeued(rec).status = "queued" /\ Requeued(rec).retry = rec.retry + 1
         /\ \A m \in Modes, q \in Runs \cup {NoRun} :
               Queued(rec, m, q).status = "queued" /\ Queued(rec, m, q).retry = rec.retry
<1>1. rec.retry \in Nat
  BY DEF RunRecord
<1>2. \A v \in RunTerminal :
         /\ Ended(rec, v) \in RunRecord
         /\ Ended(rec, v).status = v
         /\ Ended(rec, v).retry = rec.retry
  BY RecordTypes DEF Ended, RunRecord
<1>3. \A v \in RunTerminal : /\ [Ended(rec, v) EXCEPT !.cancel = TRUE].status = v
                             /\ [Ended(rec, v) EXCEPT !.cancel = TRUE].retry = rec.retry
  <2> SUFFICES ASSUME NEW v \in RunTerminal
               PROVE  /\ [Ended(rec, v) EXCEPT !.cancel = TRUE].status = v
                      /\ [Ended(rec, v) EXCEPT !.cancel = TRUE].retry = rec.retry
    OBVIOUS
  <2>1. \A x \in RunRecord : /\ [x EXCEPT !.cancel = TRUE].status = x.status
                             /\ [x EXCEPT !.cancel = TRUE].retry = x.retry
    BY DEF RunRecord
  <2> QED BY <1>2, <2>1
<1>4. GivenUp(rec).status = "failed" /\ GivenUp(rec).retry = rec.retry + 1
  <2>1. \A x \in RunRecord : /\ [x EXCEPT !.retry = @ + 1].status = x.status
                             /\ [x EXCEPT !.retry = @ + 1].retry = x.retry + 1
    BY DEF RunRecord
  <2>2. "failed" \in RunTerminal
    BY DEF RunTerminal
  <2> QED BY <1>2, <2>1, <2>2 DEF GivenUp
<1>5. Requeued(rec).status = "queued" /\ Requeued(rec).retry = rec.retry + 1
  BY DEF Requeued, RunRecord
<1>6. \A m \in Modes, q \in Runs \cup {NoRun} :
         Queued(rec, m, q).status = "queued" /\ Queued(rec, m, q).retry = rec.retry
  BY DEF Queued, RunRecord
<1> QED BY <1>1, <1>2, <1>3, <1>4, <1>5, <1>6

\* Moving one working worker, and giving one run a status that is not
\* "queued" or was "queued" already, is a quiet move.
LEMMA OneRunQuiet ==
  ASSUME TInv, NEW w \in Workers, worker[w].pc # "idle",
         NEW pc \in PC \ {"idle"}, NEW r \in Runs,
         NEW rec \in RunRecord,
         outbox' = outbox,
         worker' \in [Workers -> WorkerRecord],
         \A v \in Workers : v # w => worker'[v] = worker[v],
         worker'[w].pc = pc /\ worker'[w].run = worker[w].run /\ worker'[w].slot = worker[w].slot,
         run' = run \/ run' = [run EXCEPT ![r] = rec],
         rec.status = "queued" => run[r].status = "queued",
         rec.status \in Unborn => run[r].status \in Unborn,
         rec.retry = run[r].retry,
         worker[w].pc \in Carrying => pc \in Carrying \/ run'[Held(w)].status # "queued"
  PROVE  QuietMove
<1>1. \A q \in Runs : /\ run'[q].status = "queued" => run[q].status = "queued"
                      /\ run'[q].status \in Unborn => run[q].status \in Unborn
                      /\ run'[q].retry = run[q].retry
  BY DEF TInv, TypeOK
<1>2. \A v \in Workers :
          /\ worker'[v].pc = "idle" <=> worker[v].pc = "idle"
          /\ worker'[v].run = worker[v].run
          /\ worker'[v].slot = worker[v].slot
          /\ worker[v].pc \in Carrying =>
                worker'[v].pc \in Carrying \/ run'[Held(v)].status # "queued"
  <2> TAKE v \in Workers
  <2>1. CASE v = w
    BY <2>1
  <2>2. CASE v # w
    BY <2>2
  <2> QED BY <2>1, <2>2
<1> QED BY <1>1, <1>2 DEF QuietMove

\* Executing a run, up to settling its row.
LEMMA ExecuteQuiet ==
  ASSUME CarrierInv, NEW w \in Workers,
         \/ ReadRun(w) \/ Abort(w) \/ Begin(w) \/ Recompose(w) \/ AcquireLock(w)
         \/ LockTimeout(w) \/ StreamEvent(w) \/ StreamEnd(w) \/ LockError(w)
         \/ Finish(w) \/ Raise(w)
  PROVE  QuietMove
<1> USE DEF CarrierInv
<1>1. /\ worker[w].pc \in PC \ {"idle"}
      /\ worker[w] \in WorkerRecord
      /\ Held(w) \in Runs
      /\ run[Held(w)] \in RunRecord
  BY DEF ReadRun, Abort, Begin, Recompose, AcquireLock, LockTimeout, StreamEvent,
         StreamEnd, LockError, Finish, Raise, TInv, TypeOK, WorkerHasRun, Held, PC,
         WorkerRecord
<1>2. ASSUME NEW pc \in PC \ {"idle"}, Goto(w, pc)
      PROVE  /\ worker' \in [Workers -> WorkerRecord]
             /\ \A v \in Workers : v # w => worker'[v] = worker[v]
             /\ worker'[w].pc = pc
             /\ worker'[w].run = worker[w].run
             /\ worker'[w].slot = worker[w].slot
  BY <1>1, <1>2 DEF Goto, TInv, TypeOK, WorkerRecord
<1>3. CASE ReadRun(w)
  <2>1. Seen(run[Held(w)]) \in PC \ {"idle"} /\ Goto(w, Seen(run[Held(w)]))
    BY <1>3 DEF ReadRun, Seen, PC
  <2>2. Seen(run[Held(w)]) \in Carrying \/ run[Held(w)].status # "queued"
    BY DEF Seen, Carrying
  <2>3. run' = run /\ outbox' = outbox
    BY <1>3 DEF ReadRun
  <2> QED BY <1>1, <1>2, <2>1, <2>2, <2>3, OneRunQuiet
<1>4. CASE Abort(w) \/ LockTimeout(w) \/ Recompose(w) \/ Finish(w)
  <2>1. PICK v \in RunTerminal : Finalize(Held(w), v)
    BY <1>4 DEF Abort, LockTimeout, Recompose, Finish, RunTerminal, TInv, TypeOK, WorkerRecord
  <2>2. Goto(w, "settle") /\ outbox' = outbox
    BY <1>4 DEF Abort, LockTimeout, Recompose, Finish
  <2>3. /\ Ended(run[Held(w)], v) \in RunRecord
        /\ Ended(run[Held(w)], v).status = v
        /\ Ended(run[Held(w)], v).retry = run[Held(w)].retry
    BY <1>1, RecordTypes, RecordFields
  <2>4. run' = [run EXCEPT ![Held(w)] = Ended(run[Held(w)], v)]
    BY <2>1 DEF Finalize
  <2>5. v # "queued" /\ v \notin Unborn
    BY DEF RunTerminal, Unborn
  <2>6. run'[Held(w)].status # "queued"
    BY <1>1, <2>3, <2>4, <2>5 DEF TInv, TypeOK
  <2>7. "settle" \in PC \ {"idle"}
    BY DEF PC
  <2> QED BY <1>1, <1>2, <2>2, <2>3, <2>4, <2>5, <2>6, <2>7, OneRunQuiet
<1>5. CASE Begin(w)
  <2> DEFINE rec == [run[Held(w)] EXCEPT !.status = "running", !.beat = "fresh"]
  <2>1. rec \in RunRecord /\ rec.status = "running" /\ rec.retry = run[Held(w)].retry
    BY <1>1 DEF RunRecord, RunStatus, RunActive
  <2>2. run' = [run EXCEPT ![Held(w)] = rec] /\ outbox' = outbox
    BY <1>5 DEF Begin
  <2>3. PICK pc \in PC \ {"idle"} : Goto(w, pc)
    BY <1>5 DEF Begin, PC
  <2>4. "running" \notin Unborn
    BY DEF Unborn
  <2> HIDE DEF rec
  <2>5. run'[Held(w)].status # "queued"
    BY <1>1, <2>1, <2>2 DEF TInv, TypeOK
  <2> QED BY <1>1, <1>2, <2>1, <2>2, <2>3, <2>4, <2>5, OneRunQuiet
<1>6. CASE AcquireLock(w)
  <2>1. Goto(w, "stream") /\ "stream" \in PC \ {"idle"} /\ run' = run /\ outbox' = outbox
    BY <1>6 DEF AcquireLock, PC
  <2>2. worker[w].pc \notin Carrying
    BY <1>6 DEF AcquireLock, Carrying
  <2> QED BY <1>1, <1>2, <2>1, <2>2, OneRunQuiet
<1>7. CASE StreamEvent(w)
  <2> DEFINE rec == [run[Held(w)] EXCEPT !.beat = "fresh"]
  <2>1. rec \in RunRecord /\ rec.status = run[Held(w)].status /\ rec.retry = run[Held(w)].retry
    BY <1>1 DEF RunRecord
  <2>2. run' = [run EXCEPT ![Held(w)] = rec] /\ outbox' = outbox /\ worker[w].pc = "stream"
    BY <1>7 DEF StreamEvent
  <2>3. "stream" \notin Carrying /\ "stream" \in PC \ {"idle"}
    BY DEF Carrying, PC
  <2> HIDE DEF rec
  <2>4. /\ worker' \in [Workers -> WorkerRecord]
        /\ \A v \in Workers : v # w => worker'[v] = worker[v]
        /\ worker'[w].pc = "stream"
        /\ worker'[w].run = worker[w].run
        /\ worker'[w].slot = worker[w].slot
    <3>1. CASE UNCHANGED worker
      BY <2>2, <3>1 DEF TInv, TypeOK
    <3>2. CASE worker' = [worker EXCEPT ![w].err = TRUE]
      BY <1>1, <2>2, <3>2 DEF TInv, TypeOK, WorkerRecord
    <3>3. ASSUME NEW got \in {"reply", "bare"}, worker' = [worker EXCEPT ![w].got = got]
          PROVE  /\ worker' \in [Workers -> WorkerRecord]
                 /\ \A v \in Workers : v # w => worker'[v] = worker[v]
                 /\ worker'[w].pc = "stream"
                 /\ worker'[w].run = worker[w].run
                 /\ worker'[w].slot = worker[w].slot
      <4>1. [worker[w] EXCEPT !.got = got] \in WorkerRecord
        BY <1>1 DEF WorkerRecord
      <4> QED BY <1>1, <2>2, <3>3, <4>1 DEF TInv, TypeOK, WorkerRecord
    <3> QED BY <1>7, <3>1, <3>2, <3>3 DEF StreamEvent
  <2> QED BY <1>1, <2>1, <2>2, <2>3, <2>4, OneRunQuiet
<1>8. CASE StreamEnd(w) \/ LockError(w)
  <2>1. PICK out \in RunTerminal :
           worker' = [worker EXCEPT ![w].pc = "finish", ![w].out = out]
    BY <1>8 DEF StreamEnd, LockError, Aggregate, RunTerminal
  <2>2. run' = run /\ outbox' = outbox
    BY <1>8 DEF StreamEnd, LockError
  <2>3. worker[w].pc \notin Carrying /\ "finish" \in PC \ {"idle"}
    BY <1>8 DEF StreamEnd, LockError, Carrying, PC
  <2>4. [worker[w] EXCEPT !.pc = "finish", !.out = out] \in WorkerRecord
    BY <1>1 DEF WorkerRecord, PC
  <2>5. /\ worker' \in [Workers -> WorkerRecord]
        /\ \A v \in Workers : v # w => worker'[v] = worker[v]
        /\ worker'[w].pc = "finish"
        /\ worker'[w].run = worker[w].run
        /\ worker'[w].slot = worker[w].slot
    BY <1>1, <2>1, <2>4 DEF TInv, TypeOK, WorkerRecord
  <2> QED BY <1>1, <2>2, <2>3, <2>5, OneRunQuiet
<1>9. CASE Raise(w)
  <2>1. Goto(w, "raised") /\ "raised" \in PC \ {"idle"} /\ run' = run /\ outbox' = outbox
    BY <1>9 DEF Raise, PC
  <2>2. "raised" \in Carrying
    BY DEF Carrying
  <2> QED BY <1>1, <1>2, <2>1, <2>2, OneRunQuiet
<1> QED BY <1>3, <1>4, <1>5, <1>6, <1>7, <1>8, <1>9

\* Steps of users and of the environment that touch neither rows nor workers.
LEMMA OthersQuiet ==
  ASSUME CarrierInv,
         \/ \E r \in Runs : \/ TurnRead(r) \/ TurnInsert(r) \/ TurnEndsAlone(r)
                            \/ CancelRead(r) \/ CancelWrite(r) \/ BeatStale(r)
         \/ \E p \in Plans : WebAcquire(p) \/ WebRelease(p) \/ LockExpires(p)
         \/ UNCHANGED vars
  PROVE  QuietMove
<1> USE DEF CarrierInv
<1>1. ASSUME UNCHANGED <<run, outbox, worker>>
      PROVE  QuietMove
  BY <1>1 DEF QuietMove, Held
<1>2. ASSUME NEW r \in Runs, NEW rec \in RunRecord, UNCHANGED <<outbox, worker>>,
             run' = [run EXCEPT ![r] = rec],
             rec.status # "queued" \/ run[r].status = "queued",
             rec.status \notin Unborn \/ run[r].status \in Unborn,
             rec.retry = run[r].retry
      PROVE  QuietMove
  BY <1>2 DEF QuietMove, TInv, TypeOK
<1>3. ASSUME NEW r \in Runs, TurnRead(r) \/ TurnInsert(r) \/ TurnEndsAlone(r)
      PROVE  QuietMove
  <2>1. run[r] \in RunRecord /\ run[r].status \in Unborn /\ UNCHANGED <<outbox, worker>>
    BY <1>3 DEF TurnRead, TurnInsert, TurnEndsAlone, Unborn, TInv, TypeOK
  <2>2. ASSUME NEW st \in Unborn, NEW q \in Runs \cup {NoRun}
        PROVE  LET rec == [run[r] EXCEPT !.status = st, !.parent = q]
               IN  /\ rec \in RunRecord
                   /\ rec.status = st
                   /\ rec.retry = run[r].retry
    BY <2>1 DEF RunRecord
  <2>3. run[r].parent \in Runs \cup {NoRun}
    BY <2>1 DEF RunRecord
  <2>4. ASSUME NEW st \in Unborn, run' = [run EXCEPT ![r].status = st]
        PROVE  QuietMove
    <3>1. /\ [run[r] EXCEPT !.status = st] \in RunRecord
          /\ [run[r] EXCEPT !.status = st].status = st
          /\ [run[r] EXCEPT !.status = st].retry = run[r].retry
      BY <2>1 DEF RunRecord
    <3>2. st # "queued"
      BY DEF Unborn
    <3> QED BY <1>2, <2>1, <2>4, <3>1, <3>2
  <2>5. ASSUME NEW q \in Runs \cup {NoRun},
               run' = [run EXCEPT ![r].status = "reading", ![r].parent = q]
        PROVE  QuietMove
    <3>1. "reading" \in Unborn
      BY DEF Unborn
    <3>2. run' = [run EXCEPT ![r] = [run[r] EXCEPT !.status = "reading", !.parent = q]]
      BY <2>5
    <3> QED BY <1>2, <2>1, <2>2, <3>1, <3>2
  <2>6. CASE TurnRead(r)
    BY <2>5, <2>6 DEF TurnRead
  <2>7. CASE TurnInsert(r) \/ TurnEndsAlone(r)
    BY <2>4, <2>7 DEF TurnInsert, TurnEndsAlone, Unborn
  <2> QED BY <1>3, <2>6, <2>7
<1>4. ASSUME NEW r \in Runs, CancelWrite(r)
      PROVE  QuietMove
  <2>1. /\ run[r] \in RunRecord
        /\ [run[r] EXCEPT !.cancel = TRUE] \in RunRecord
        /\ [Ended(run[r], "cancelled") EXCEPT !.cancel = TRUE] \in RunRecord
        /\ [Ended(run[r], "cancelled") EXCEPT !.cancel = TRUE].status = "cancelled"
        /\ [Ended(run[r], "cancelled") EXCEPT !.cancel = TRUE].retry = run[r].retry
    BY RecordTypes, RecordFields DEF TInv, TypeOK, RunTerminal
  <2>2. /\ [run[r] EXCEPT !.cancel = TRUE].status = run[r].status
        /\ [run[r] EXCEPT !.cancel = TRUE].retry = run[r].retry
    BY <2>1 DEF RunRecord
  <2>3. UNCHANGED <<outbox, worker>>
    BY <1>4 DEF CancelWrite
  <2>4. CASE run' = [run EXCEPT ![r].cancel = TRUE]
    BY <1>2, <2>1, <2>2, <2>3, <2>4
  <2>5. CASE run' = [run EXCEPT ![r] = [Ended(@, "cancelled") EXCEPT !.cancel = TRUE]]
    <3>1. "cancelled" # "queued" /\ "cancelled" \notin Unborn
      BY DEF Unborn
    <3>2. PICK rec \in RunRecord :
             /\ rec = [Ended(run[r], "cancelled") EXCEPT !.cancel = TRUE]
             /\ rec.status = "cancelled"
             /\ rec.retry = run[r].retry
      BY <2>1
    <3>3. run' = [run EXCEPT ![r] = rec]
      BY <2>5, <3>2
    <3> QED BY <1>2, <2>3, <3>1, <3>2, <3>3
  <2> QED BY <1>4, <2>4, <2>5 DEF CancelWrite
<1>5. ASSUME NEW r \in Runs, BeatStale(r)
      PROVE  QuietMove
  <2>1. /\ [run[r] EXCEPT !.beat = "stale"] \in RunRecord
        /\ [run[r] EXCEPT !.beat = "stale"].status = run[r].status
        /\ [run[r] EXCEPT !.beat = "stale"].retry = run[r].retry
    BY DEF TInv, TypeOK, RunRecord
  <2> QED BY <1>2, <1>5, <2>1 DEF BeatStale
<1>6. ASSUME NEW r \in Runs, CancelRead(r)
      PROVE  QuietMove
  BY <1>1, <1>6 DEF CancelRead
<1>7. ASSUME NEW p \in Plans, WebAcquire(p) \/ WebRelease(p) \/ LockExpires(p)
      PROVE  QuietMove
  BY <1>1, <1>7 DEF WebAcquire, WebRelease, LockExpires
<1>8. CASE UNCHANGED vars
  BY <1>1, <1>8 DEF vars
<1> QED BY <1>3, <1>4, <1>5, <1>6, <1>7, <1>8

\* Committing a turn puts its run and a pending row there together.
LEMMA CommitKeeps ==
  ASSUME CarrierInv, NEW r \in Runs, TurnCommit(r)
  PROVE  RowsFresh' /\ RowsHeldOnce' /\ QueuedHasCarrier'
<1> USE DEF CarrierInv
<1>1. 0 \in Slots /\ \A k \in Slots : k \in Nat
  BY BoundsAssumption DEF Slots
<1>2. \A q \in Runs : /\ run'[q].retry = run[q].retry
                      /\ run[q].retry \in Nat
                      /\ q # r => run'[q].status = run[q].status
                      /\ q = r => run'[q].status = "queued"
  <2>1. \A q \in Runs : /\ [run[q] EXCEPT !.cancel = TRUE].status = run[q].status
                        /\ [run[q] EXCEPT !.cancel = TRUE].retry = run[q].retry
                        /\ run[q].retry \in Nat
                        /\ run[q].parent \in Runs \cup {NoRun}
                        /\ run[q] \in RunRecord
    BY DEF TInv, TypeOK, RunRecord
  <2>2. PICK mode \in Modes, full \in BOOLEAN :
          run' = [q \in Runs |->
                    IF q = r
                    THEN Queued(run[r], mode, IF full THEN NoRun ELSE run[r].parent)
                    ELSE IF full /\ q = run[r].parent
                    THEN [run[q] EXCEPT !.cancel = TRUE]
                    ELSE run[q]]
    BY DEF TurnCommit
  <2>3. LET rec == Queued(run[r], mode, IF full THEN NoRun ELSE run[r].parent)
        IN  rec.status = "queued" /\ rec.retry = run[r].retry
    BY <2>1, RecordFields
  <2> QED BY <2>1, <2>2, <2>3
<1>3. /\ outbox[r][0].status = "absent"
      /\ outbox'[r][0].status = "pending"
      /\ \A q \in Runs, k \in Slots : <<q, k>> # <<r, 0>> => outbox'[q][k] = outbox[q][k]
  <2>1. run[r].status \in Unborn
    BY DEF TurnCommit, Unborn
  <2> QED BY <1>1, <2>1 DEF TurnCommit, RowsFresh, TInv, TypeOK
<1>4. UNCHANGED worker
  BY DEF TurnCommit
<1>5. RowsFresh'
  <2>1. ASSUME NEW q \in Runs, NEW k \in Slots, run'[q].status \in Unborn \/ k > run'[q].retry
        PROVE  outbox'[q][k].status = "absent"
    <3>1. CASE q = r
      <4>1. "queued" \notin Unborn
        BY DEF Unborn
      <4>2. k > run[r].retry /\ k # 0
        BY <1>1, <1>2, <2>1, <3>1, <4>1
      <4> QED BY <1>3, <3>1, <4>2 DEF RowsFresh
    <3>2. CASE q # r
      BY <1>2, <1>3, <2>1, <3>2 DEF RowsFresh
    <3> QED BY <3>1, <3>2
  <2> QED BY <2>1 DEF RowsFresh
<1>6. RowsHeldOnce'
  <2>1. \A w \in Workers :
           worker[w].pc # "idle" => Held(w) \in Runs /\ worker[w].slot \in Slots
    BY DEF TInv, TypeOK, WorkerHasRun, WorkerRecord, Held
  <2> QED BY <1>3, <1>4, <2>1 DEF RowsHeldOnce, Held, Holds
<1>7. QueuedHasCarrier'
  BY <1>1, <1>2, <1>3, <1>4 DEF QueuedHasCarrier, Holds
<1> QED BY <1>5, <1>6, <1>7

\* Claiming moves a pending row, which nobody holds, to one worker.
LEMMA ClaimKeeps ==
  ASSUME CarrierInv, NEW w \in Workers, Claim(w)
  PROVE  RowsFresh' /\ RowsHeldOnce' /\ QueuedHasCarrier'
<1> USE DEF CarrierInv
<1>1. PICK r \in Runs, k \in Slots :
         /\ outbox[r][k].status = "pending"
         /\ outbox' = [outbox EXCEPT ![r][k] =
                         [status |-> "claimed", attempts |-> @.attempts + 1]]
         /\ worker' = [worker EXCEPT ![w] =
                         [Idle EXCEPT !.pc = "claimed", !.run = r, !.slot = k]]
         /\ run' = run
  BY DEF Claim, Claimable
<1>2. /\ outbox'[r][k].status = "claimed"
      /\ \A q \in Runs, j \in Slots : <<q, j>> # <<r, k>> => outbox'[q][j] = outbox[q][j]
  BY <1>1 DEF TInv, TypeOK
<1>3. /\ worker'[w].pc = "claimed" /\ worker'[w].run = r /\ worker'[w].slot = k
      /\ \A v \in Workers : v # w => worker'[v] = worker[v]
  BY <1>1 DEF TInv, TypeOK, Idle
<1>4. worker[w].pc = "idle"
  BY DEF Claim
<1>5. RowsFresh'
  BY <1>1, <1>2 DEF RowsFresh
<1>6. \A v \in Workers : v # w => ~Holds(v, r, k)
  BY <1>1 DEF RowsHeldOnce, Holds, Held
<1>7. RowsHeldOnce'
  <2>1. \A v \in Workers :
           worker[v].pc # "idle" => Held(v) \in Runs /\ worker[v].slot \in Slots
    BY DEF TInv, TypeOK, WorkerHasRun, WorkerRecord, Held
  <2>2. ASSUME NEW v \in Workers, worker'[v].pc # "idle"
        PROVE  outbox'[worker'[v].run][worker'[v].slot].status = "claimed"
    <3>1. CASE v = w
      BY <1>2, <1>3, <3>1
    <3>2. CASE v # w
      BY <1>2, <1>3, <1>6, <2>1, <2>2, <3>2 DEF RowsHeldOnce, Holds, Held
    <3> QED BY <3>1, <3>2
  <2>3. ASSUME NEW u \in Workers, NEW v \in Workers, NEW q \in Runs, NEW j \in Slots,
               Holds(u, q, j)', Holds(v, q, j)'
        PROVE  u = v
    BY <1>3, <1>6, <2>3 DEF RowsHeldOnce, Holds
  <2> QED BY <2>2, <2>3 DEF RowsHeldOnce, Held
<1>8. QueuedHasCarrier'
  <2> SUFFICES ASSUME NEW q \in Runs, run[q].status = "queued"
               PROVE  \E j \in Slots :
                        \/ outbox'[q][j].status = "pending"
                        \/ /\ outbox'[q][j].status = "claimed"
                           /\ \A v \in Workers : Holds(v, q, j)' => worker'[v].pc \in Carrying
    BY <1>1 DEF QueuedHasCarrier
  <2>1. PICK j \in Slots :
           \/ outbox[q][j].status = "pending"
           \/ /\ outbox[q][j].status = "claimed"
              /\ \A v \in Workers : Holds(v, q, j) => worker[v].pc \in Carrying
    BY DEF QueuedHasCarrier
  <2>2. CASE <<q, j>> = <<r, k>>
    <3>1. \A v \in Workers : Holds(v, r, k)' => v = w
      BY <1>3, <1>6 DEF Holds
    <3>2. "claimed" \in Carrying
      BY DEF Carrying
    <3> QED BY <1>2, <1>3, <2>2, <3>1, <3>2
  <2>3. CASE <<q, j>> # <<r, k>>
    <3>1. \A v \in Workers : Holds(v, q, j)' => v # w /\ Holds(v, q, j)
      BY <1>3, <2>3 DEF Holds
    <3> QED BY <1>2, <1>3, <2>1, <2>3, <3>1
  <2> QED BY <2>2, <2>3
<1> QED BY <1>5, <1>7, <1>8

\* A worker that lets go of its row, leaving it in status st.
LEMMA LetGo ==
  ASSUME CarrierInv, NEW w \in Workers, worker[w].pc # "idle",
         worker' = [worker EXCEPT ![w] = Idle],
         NEW st \in {"pending", "claimed", "done", "failed"}, SetRow(w, st),
         \A q \in Runs : q # Held(w) => run'[q] = run[q],
         run'[Held(w)].status \notin Unborn,
         run'[Held(w)].retry \in Nat,
         run'[Held(w)].retry >= run[Held(w)].retry,
         run'[Held(w)].status = "queued" =>
            /\ run[Held(w)].status = "queued"
            /\ st \in {"pending", "claimed"} \/ worker[w].pc \notin Carrying
  PROVE  RowsFresh' /\ RowsHeldOnce' /\ QueuedHasCarrier'
<1> USE DEF CarrierInv
<1> DEFINE r == Held(w)
           k == worker[w].slot
<1>1. r \in Runs /\ k \in Slots /\ outbox[r][k].status = "claimed"
  BY DEF TInv, TypeOK, WorkerHasRun, WorkerRecord, RowsHeldOnce, Held
<1>2. /\ outbox'[r][k].status = st
      /\ \A q \in Runs, j \in Slots : <<q, j>> # <<r, k>> => outbox'[q][j] = outbox[q][j]
  <2>1. outbox' = [outbox EXCEPT ![r][k].status = st]
    BY DEF SetRow
  <2>2. outbox[r][k] \in Row
    BY <1>1 DEF TInv, TypeOK
  <2> QED BY <1>1, <2>1, <2>2 DEF TInv, TypeOK, Row
<1>3. /\ worker'[w].pc = "idle"
      /\ \A v \in Workers : v # w => worker'[v] = worker[v]
  BY DEF TInv, TypeOK, Idle
<1>4. Holds(w, r, k)
  BY DEF Holds, Held
<1>5. \A v \in Workers, q \in Runs, j \in Slots :
         Holds(v, q, j)' => v # w /\ Holds(v, q, j) /\ <<q, j>> # <<r, k>>
  BY <1>1, <1>3, <1>4 DEF RowsHeldOnce, Holds
<1>6. \A q \in Runs : /\ q # r => run'[q] = run[q]
                      /\ run'[q].retry >= run[q].retry
                      /\ run[q].retry \in Nat /\ run'[q].retry \in Nat
                      /\ run'[q].status \in Unborn => run[q].status \in Unborn
  <2>1. \A q \in Runs : run[q].retry \in Nat
    BY DEF TInv, TypeOK, RunRecord
  <2>2. \A q \in Runs : q # r => /\ run'[q].retry >= run[q].retry
                                 /\ run'[q].retry \in Nat
    BY <2>1
  <2> QED BY <1>1, <2>1, <2>2
<1> HIDE DEF r, k
<1>7. RowsFresh'
  <2>1. ASSUME NEW q \in Runs, NEW j \in Slots, run'[q].status \in Unborn \/ j > run'[q].retry
        PROVE  outbox[q][j].status = "absent"
    <3>1. j \in Nat
      BY BoundsAssumption DEF Slots
    <3>2. run[q].status \in Unborn \/ j > run[q].retry
      BY <1>6, <2>1, <3>1
    <3> QED BY <3>2 DEF RowsFresh
  <2>2. \A q \in Runs, j \in Slots : outbox[q][j].status = "absent" => <<q, j>> # <<r, k>>
    BY <1>1
  <2> QED BY <1>2, <2>1, <2>2 DEF RowsFresh
<1>8. RowsHeldOnce'
  <2>1. ASSUME NEW v \in Workers, worker'[v].pc # "idle"
        PROVE  outbox'[worker'[v].run][worker'[v].slot].status = "claimed"
    <3>1. v # w /\ worker'[v] = worker[v]
      BY <1>3, <2>1
    <3>2. Held(v) \in Runs /\ worker[v].slot \in Slots
      BY <2>1, <3>1 DEF TInv, TypeOK, WorkerHasRun, WorkerRecord, Held
    <3>3. Holds(v, Held(v), worker[v].slot)
      BY <2>1, <3>1 DEF Holds, Held
    <3>4. <<Held(v), worker[v].slot>> # <<r, k>>
      BY <1>1, <1>4, <3>1, <3>3 DEF RowsHeldOnce
    <3>5. outbox[Held(v)][worker[v].slot].status = "claimed"
      BY <2>1, <3>1 DEF RowsHeldOnce
    <3> QED BY <1>2, <3>1, <3>2, <3>4, <3>5 DEF Held
  <2>2. ASSUME NEW u \in Workers, NEW v \in Workers, NEW q \in Runs, NEW j \in Slots,
               Holds(u, q, j)', Holds(v, q, j)'
        PROVE  u = v
    BY <1>5, <2>2 DEF RowsHeldOnce
  <2> QED BY <2>1, <2>2 DEF RowsHeldOnce, Held
<1>9. QueuedHasCarrier'
  <2> SUFFICES ASSUME NEW q \in Runs, run'[q].status = "queued"
               PROVE  \E j \in Slots :
                        \/ outbox'[q][j].status = "pending"
                        \/ /\ outbox'[q][j].status = "claimed"
                           /\ \A v \in Workers : Holds(v, q, j)' => worker'[v].pc \in Carrying
    BY DEF QueuedHasCarrier
  <2>1. run[q].status = "queued"
    BY <1>6 DEF r
  <2>2. PICK j \in Slots :
           \/ outbox[q][j].status = "pending"
           \/ /\ outbox[q][j].status = "claimed"
              /\ \A v \in Workers : Holds(v, q, j) => worker[v].pc \in Carrying
    BY <2>1 DEF QueuedHasCarrier
  <2>3. \A v \in Workers : Holds(v, q, j)' => worker'[v] = worker[v] /\ Holds(v, q, j)
    BY <1>3, <1>5
  <2>4. CASE <<q, j>> # <<r, k>>
    BY <1>2, <2>2, <2>3, <2>4
  <2>5. CASE <<q, j>> = <<r, k>>
    <3>1. worker[w].pc \in Carrying
      BY <1>1, <1>4, <2>2, <2>5
    <3>2. st = "pending" \/ st = "claimed"
      BY <2>5, <3>1 DEF r
    <3>3. \A v \in Workers : ~Holds(v, q, j)'
      BY <1>5, <2>5
    <3> QED BY <1>2, <2>5, <3>2, <3>3
  <2> QED BY <2>4, <2>5
<1> QED BY <1>7, <1>8, <1>9

\* Settling a row, and dying with one.
LEMMA SettleKeeps ==
  ASSUME CarrierInv, NEW w \in Workers, Settle(w) \/ SettleRaised(w) \/ Crash(w)
  PROVE  RowsFresh' /\ RowsHeldOnce' /\ QueuedHasCarrier'
<1> USE DEF CarrierInv
<1>1. worker[w].pc # "idle" /\ worker' = [worker EXCEPT ![w] = Idle]
  BY DEF Settle, SettleRaised, Crash
<1>2. /\ Held(w) \in Runs /\ worker[w].slot \in Slots
      /\ outbox[Held(w)][worker[w].slot].status = "claimed"
      /\ run[Held(w)] \in RunRecord
      /\ run[Held(w)].status \notin Unborn
      /\ run[Held(w)].retry \in Nat
  BY <1>1 DEF TInv, TypeOK, WorkerHasRun, WorkerRecord, RowsHeldOnce, RowsFresh, RunRecord, Held
<1>3. ASSUME run' = run, NEW st \in {"pending", "claimed", "done", "failed"}, SetRow(w, st),
             run[Held(w)].status = "queued" =>
                st \in {"pending", "claimed"} \/ worker[w].pc \notin Carrying
      PROVE  RowsFresh' /\ RowsHeldOnce' /\ QueuedHasCarrier'
  <2>1. run[Held(w)].retry >= run[Held(w)].retry
    BY <1>2
  <2> QED BY <1>1, <1>2, <1>3, <2>1, LetGo
<1>4. CASE Settle(w)
  <2>1. SetRow(w, "done") /\ run' = run /\ worker[w].pc \notin Carrying
    BY <1>4 DEF Settle, Carrying
  <2> QED BY <1>3, <2>1
<1>5. CASE SettleRaised(w)
  <2>1. CASE SetRow(w, "pending") /\ run' = run
    BY <1>3, <2>1
  <2>2. CASE SetRow(w, "failed") /\ IsTerminal(Held(w)) /\ run' = run
    <3>1. run[Held(w)].status # "queued"
      BY <2>2 DEF IsTerminal, RunTerminal
    <3> QED BY <1>3, <2>2, <3>1
  <2>3. CASE SetRow(w, "failed") /\ run' = [run EXCEPT ![Held(w)] = GivenUp(@)]
    <3> DEFINE rec == GivenUp(run[Held(w)])
    <3>1. rec.status = "failed" /\ rec.retry = run[Held(w)].retry + 1
      BY <1>2, RecordFields
    <3>2. run' = [run EXCEPT ![Held(w)] = rec]
      BY <2>3
    <3> HIDE DEF rec
    <3>3. run'[Held(w)] = rec /\ \A q \in Runs : q # Held(w) => run'[q] = run[q]
      BY <1>2, <3>2 DEF TInv, TypeOK
    <3>4. /\ run'[Held(w)].status \notin Unborn
          /\ run'[Held(w)].status # "queued"
          /\ run'[Held(w)].retry \in Nat
          /\ run'[Held(w)].retry >= run[Held(w)].retry
      BY <1>2, <3>1, <3>3 DEF Unborn
    <3> QED BY <1>1, <2>3, <3>3, <3>4, LetGo
  <2> QED BY <1>5, <2>1, <2>2, <2>3 DEF SettleRaised
<1>6. CASE Crash(w)
  <2>1. outbox' = outbox /\ run' = run
    BY <1>6 DEF Crash
  <2>2. SetRow(w, "claimed")
    <3>1. outbox[Held(w)][worker[w].slot] \in Row
      BY <1>2 DEF TInv, TypeOK
    <3>2. [outbox[Held(w)][worker[w].slot] EXCEPT !.status = "claimed"]
             = outbox[Held(w)][worker[w].slot]
      BY <1>2, <3>1 DEF Row
    <3> QED BY <1>2, <2>1, <3>2 DEF SetRow, TInv, TypeOK
  <2> QED BY <1>3, <2>1, <2>2
<1> QED BY <1>4, <1>5, <1>6

\* The scan gives every run it requeues a row nobody has used.
LEMMA ScanKeeps ==
  ASSUME CarrierInv, NEW w \in Workers, Scan(w)
  PROVE  RowsFresh' /\ RowsHeldOnce' /\ QueuedHasCarrier'
<1> USE DEF CarrierInv
<1>1. PICK batch \in SUBSET Stalled \ {{}} :
         LET again == {r \in batch : run[r].retry < MaxRetries}
         IN  /\ run' = [r \in Runs |->
                          IF r \in again THEN Requeued(run[r])
                          ELSE IF r \in batch THEN Ended(run[r], "failed")
                          ELSE run[r]]
             /\ outbox' = RowsAdded(again)
             /\ worker' = worker
  BY DEF Scan
<1> DEFINE again == {r \in batch : run[r].retry < MaxRetries}
           new(r) == run[r].retry + 1
<1>2. /\ again \subseteq Runs
      /\ \A r \in again : /\ new(r) \in Slots
                          /\ run'[r].status = "queued"
                          /\ run'[r].retry = new(r)
      /\ \A r \in Runs \ again : /\ run'[r].retry = run[r].retry
                                 /\ run'[r] = run[r] \/ run'[r].status = "failed"
      /\ \A r \in Runs : run[r].retry \in Nat
  <2>1. \A r \in Runs : run[r] \in RunRecord /\ run[r].retry \in Nat
    BY DEF TInv, TypeOK, RunRecord
  <2>2. batch \subseteq Runs /\ "failed" \in RunTerminal
    BY DEF Stalled, RunTerminal
  <2>3. \A r \in Runs : /\ Ended(run[r], "failed").status = "failed"
                        /\ Ended(run[r], "failed").retry = run[r].retry
                        /\ Requeued(run[r]).status = "queued"
                        /\ Requeued(run[r]).retry = run[r].retry + 1
    BY <2>1, <2>2, RecordFields
  <2>4. \A r \in again : new(r) \in Slots
    BY <2>1, <2>2, BoundsAssumption DEF Slots
  <2> QED BY <1>1, <2>1, <2>2, <2>3, <2>4
<1>3. \A r \in Runs, k \in Slots :
         /\ r \in again /\ k = new(r) => outbox'[r][k].status = "pending"
         /\ r \notin again \/ k # new(r) => outbox'[r][k] = outbox[r][k]
  BY <1>1 DEF RowsAdded
<1>4. \A r \in again : outbox[r][new(r)].status = "absent"
  BY <1>2 DEF RowsFresh
<1>5. worker' = worker
  BY <1>1
<1> HIDE DEF again, new
<1>6. RowsFresh'
  <2>1. ASSUME NEW r \in Runs, NEW k \in Slots, run'[r].status \in Unborn \/ k > run'[r].retry
        PROVE  outbox'[r][k].status = "absent"
    <3>1. k \in Nat
      BY BoundsAssumption DEF Slots
    <3>2. "queued" \notin Unborn /\ "failed" \notin Unborn
      BY DEF Unborn
    <3>3. CASE r \in again
      <4>1. k > run[r].retry /\ k # new(r)
        BY <1>2, <2>1, <3>1, <3>2, <3>3 DEF new
      <4> QED BY <1>3, <4>1 DEF RowsFresh
    <3>4. CASE r \notin again
      <4>1. run[r].status \in Unborn \/ k > run[r].retry
        BY <1>2, <2>1, <3>2, <3>4
      <4> QED BY <1>3, <3>4, <4>1 DEF RowsFresh
    <3> QED BY <3>3, <3>4
  <2> QED BY <2>1 DEF RowsFresh
<1>7. RowsHeldOnce'
  <2>1. \A v \in Workers :
           worker[v].pc # "idle" => Held(v) \in Runs /\ worker[v].slot \in Slots
    BY DEF TInv, TypeOK, WorkerHasRun, WorkerRecord, Held
  <2> QED BY <1>3, <1>4, <1>5, <2>1 DEF RowsHeldOnce, Holds, Held
<1>8. QueuedHasCarrier'
  <2> SUFFICES ASSUME NEW r \in Runs, run'[r].status = "queued"
               PROVE  \E k \in Slots :
                        \/ outbox'[r][k].status = "pending"
                        \/ /\ outbox'[r][k].status = "claimed"
                           /\ \A v \in Workers : Holds(v, r, k)' => worker'[v].pc \in Carrying
    BY DEF QueuedHasCarrier
  <2>1. CASE r \in again
    BY <1>2, <1>3, <2>1
  <2>2. CASE r \notin again
    <3>1. run[r].status = "queued"
      BY <1>2, <2>2
    <3> QED BY <1>3, <1>5, <2>2, <3>1 DEF QueuedHasCarrier, Holds
  <2> QED BY <2>1, <2>2
<1> QED BY <1>6, <1>7, <1>8

LEMMA StepCarrier == CarrierInv /\ [Next]_vars => CarrierInv'
<1> SUFFICES ASSUME CarrierInv, [Next]_vars
             PROVE  RowsFresh' /\ RowsHeldOnce' /\ QueuedHasCarrier'
  BY StepType DEF CarrierInv
<1>1. CASE UserNext \/ EnvNext \/ UNCHANGED vars
  <2>1. CASE \E r \in Runs : TurnCommit(r)
    BY <2>1, CommitKeeps
  <2>2. CASE ~\E r \in Runs : TurnCommit(r)
    BY <1>1, <2>2, OthersQuiet, QuietMoveKeeps DEF UserNext, EnvNext
  <2> QED BY <2>1, <2>2
<1>2. CASE WorkerNext
  <2>1. PICK w \in Workers : \/ Claim(w) \/ Execute(w) \/ StreamEvent(w) \/ LockError(w)
                             \/ Raise(w) \/ Scan(w) \/ Crash(w)
    BY <1>2 DEF WorkerNext
  <2>2. CASE Claim(w)
    BY <2>2, ClaimKeeps
  <2>3. CASE Settle(w) \/ SettleRaised(w) \/ Crash(w)
    BY <2>3, SettleKeeps
  <2>4. CASE Scan(w)
    BY <2>4, ScanKeeps
  <2>5. CASE \/ ReadRun(w) \/ Abort(w) \/ Begin(w) \/ Recompose(w) \/ AcquireLock(w)
             \/ LockTimeout(w) \/ StreamEvent(w) \/ StreamEnd(w) \/ LockError(w)
             \/ Finish(w) \/ Raise(w)
    BY <2>5, ExecuteQuiet, QuietMoveKeeps
  <2> QED BY <2>1, <2>2, <2>3, <2>4, <2>5 DEF Execute
<1> QED BY <1>1, <1>2 DEF Next

LEMMA CarrierAlways == Spec => []CarrierInv
BY InitCarrier, StepCarrier, PTL DEF Spec

\* No outbox row is ever with two workers, and a row that is with a worker is
\* claimed, whatever is given back, lost or added meanwhile.
THEOREM RowsAreHeldOnce == Spec => []RowsHeldOnce
<1>1. CarrierInv => RowsHeldOnce
  BY DEF CarrierInv
<1> QED BY <1>1, CarrierAlways, PTL

\* However turns, workers, exceptions, cancels, crashes and scans interleave,
\* every queued run still has a row from which it will be looked at, or that
\* a dead worker took with it.
THEOREM QueuedIsCarried == Spec => []QueuedHasCarrier
<1>1. CarrierInv => QueuedHasCarrier
  BY DEF CarrierInv
<1> QED BY <1>1, CarrierAlways, PTL

-----------------------------------------------------------------------------
(* The plan lock.                                                           *)

\* Whoever streams under a key whose time is not over owns it.
StreamOwnsLock ==
    \A w \in Workers : keyed[w] => worker[w].pc = "stream" /\ lock[HeldPlan(w)] = w

LockInv == TInv /\ StreamOwnsLock

LEMMA StepLock == LockInv /\ [Next]_vars => StreamOwnsLock'
<1> SUFFICES ASSUME LockInv, [Next]_vars, NEW w \in Workers, keyed'[w]
             PROVE  worker'[w].pc = "stream" /\ lock'[PlanOf[worker'[w].run]] = w
  BY DEF StreamOwnsLock, HeldPlan, Held
<1> DEFINE Goal == worker'[w].pc = "stream" /\ lock'[PlanOf[worker'[w].run]] = w
<1> USE DEF LockInv
<1>1. \A v \in Workers : worker[v].pc # "idle" => HeldPlan(v) \in Plans
  BY PlanAssumption DEF TInv, WorkerHasRun, HeldPlan, Held
<1>2. keyed[w] => /\ worker[w].pc = "stream"
                  /\ lock[HeldPlan(w)] = w
                  /\ HeldPlan(w) \in Plans
                  /\ w \notin {"free", "orphan", "web"}
  BY <1>1, WorkersAssumption DEF StreamOwnsLock
<1>3. ASSUME keyed[w], worker'[w].pc = worker[w].pc, worker'[w].run = worker[w].run,
             lock'[HeldPlan(w)] = lock[HeldPlan(w)]
      PROVE  Goal
  BY <1>2, <1>3 DEF HeldPlan, Held
<1>4. CASE UserNext
  BY <1>3, <1>4 DEF UserNext, TurnRead, TurnInsert, TurnEndsAlone, TurnCommit,
                    CancelRead, CancelWrite
<1>5. CASE EnvNext
  <2>1. CASE \E r \in Runs : BeatStale(r)
    BY <1>3, <2>1 DEF BeatStale
  <2>2. ASSUME NEW p \in Plans, WebAcquire(p) \/ WebRelease(p) \/ LockExpires(p)
        PROVE  Goal
    <3>1. worker' = worker
      BY <2>2 DEF WebAcquire, WebRelease, LockExpires
    <3>2. keyed[w] /\ lock[p] # w
      <4>1. CASE WebAcquire(p) \/ WebRelease(p)
        BY <1>2, <4>1 DEF WebAcquire, WebRelease
      <4>2. CASE LockExpires(p)
        BY <4>2 DEF LockExpires
      <4> QED BY <2>2, <4>1, <4>2
    <3>3. \A q \in Plans : q # p => lock'[q] = lock[q]
      BY <2>2 DEF WebAcquire, WebRelease, LockExpires, TInv, TypeOK
    <3> QED BY <1>2, <1>3, <3>1, <3>2, <3>3
  <2> QED BY <1>5, <2>1, <2>2 DEF EnvNext
<1>6. ASSUME NEW v \in Workers,
             \/ Claim(v) \/ Execute(v) \/ StreamEvent(v) \/ LockError(v)
             \/ Raise(v) \/ Scan(v) \/ Crash(v)
      PROVE  Goal
  <2>1. CASE Scan(v)
    BY <1>3, <2>1 DEF Scan
  <2>2. ASSUME NEW rec, worker' = [worker EXCEPT ![v] = rec], worker[v].pc # "stream",
               UNCHANGED <<lock, keyed>>
        PROVE  Goal
    <3>1. keyed[w] /\ w # v
      BY <1>2, <2>2
    <3>2. worker'[w] = worker[w]
      BY <2>2, <3>1 DEF TInv, TypeOK
    <3> QED BY <1>3, <2>2, <3>1, <3>2
  <2>3. CASE \/ ReadRun(v) \/ Abort(v) \/ Begin(v) \/ Recompose(v) \/ LockTimeout(v)
             \/ LockError(v) \/ Finish(v) \/ Raise(v) \/ Claim(v) \/ Settle(v)
             \/ SettleRaised(v)
    <3>1. worker[v].pc # "stream" /\ UNCHANGED <<lock, keyed>>
      BY <2>3 DEF ReadRun, Abort, Begin, Recompose, LockTimeout, LockError, Finish, Raise,
                  Claim, Settle, SettleRaised
    <3>2. PICK rec : worker' = [worker EXCEPT ![v] = rec]
      BY <2>3 DEF ReadRun, Abort, Begin, Recompose, LockTimeout, LockError, Finish, Raise,
                  Claim, Settle, SettleRaised, Goto
    <3> QED BY <2>2, <3>1, <3>2
  <2>4. CASE AcquireLock(v)
    <3>1. HeldPlan(v) \in Plans /\ worker[v].pc = "locking"
      BY <1>1, <2>4 DEF AcquireLock
    <3>2. worker' = [worker EXCEPT ![v].pc = "stream"]
      BY <2>4 DEF AcquireLock, Goto
    <3>3. /\ worker'[v].pc = "stream" /\ worker'[v].run = worker[v].run
          /\ w # v => worker'[w] = worker[w]
      BY <3>2 DEF TInv, TypeOK, WorkerRecord
    <3>4. CASE /\ LockFree(HeldPlan(v))
               /\ lock' = [lock EXCEPT ![HeldPlan(v)] = v]
               /\ keyed' = [keyed EXCEPT ![v] = TRUE]
      <4>1. CASE w = v
        BY <3>1, <3>3, <3>4, <4>1 DEF TInv, TypeOK, HeldPlan, Held
      <4>2. CASE w # v
        <5>1. keyed[w] /\ HeldPlan(w) # HeldPlan(v)
          BY <1>2, <3>4, <4>2 DEF TInv, TypeOK, LockFree
        <5>2. lock'[HeldPlan(w)] = lock[HeldPlan(w)]
          BY <1>2, <3>4, <5>1 DEF TInv, TypeOK
        <5> QED BY <1>3, <3>3, <4>2, <5>1, <5>2
      <4> QED BY <4>1, <4>2
    <3>5. CASE UNCHANGED <<lock, keyed>>
      BY <2>2, <3>1, <3>2, <3>5
    <3> QED BY <2>4, <3>4, <3>5 DEF AcquireLock
  <2>5. CASE StreamEvent(v)
    <3>1. worker'[w].run = worker[w].run /\ worker'[w].pc = worker[w].pc
      <4>1. CASE UNCHANGED worker
        BY <4>1
      <4>2. CASE worker' = [worker EXCEPT ![v].err = TRUE]
        BY <4>2 DEF TInv, TypeOK, WorkerRecord
      <4>3. ASSUME NEW got \in {"reply", "bare"}, worker' = [worker EXCEPT ![v].got = got]
            PROVE  worker'[w].run = worker[w].run /\ worker'[w].pc = worker[w].pc
        BY <4>3 DEF TInv, TypeOK, WorkerRecord
      <4> QED BY <2>5, <4>1, <4>2, <4>3 DEF StreamEvent
    <3> QED BY <1>3, <2>5, <3>1 DEF StreamEvent
  <2>6. CASE StreamEnd(v) \/ Crash(v)
    <3>1. PICK rec : worker' = [worker EXCEPT ![v] = rec]
      BY <2>6 DEF StreamEnd, Crash
    <3>2. keyed' = [keyed EXCEPT ![v] = FALSE] /\ (Unlock(v) \/ Abandon(v))
      BY <2>6 DEF StreamEnd, Crash
    <3>3. keyed[w] /\ w # v
      BY <3>2 DEF TInv, TypeOK
    <3>4. worker'[w] = worker[w]
      BY <3>1, <3>3 DEF TInv, TypeOK
    <3>5. lock'[HeldPlan(w)] = lock[HeldPlan(w)]
      BY <1>2, <3>2, <3>3 DEF Unlock, Abandon
    <3> QED BY <1>3, <3>3, <3>4, <3>5
  <2> QED BY <1>6, <2>1, <2>3, <2>4, <2>5, <2>6 DEF Execute
<1>7. CASE UNCHANGED vars
  BY <1>3, <1>7 DEF vars
<1> QED BY <1>4, <1>5, <1>6, <1>7 DEF Next, WorkerNext

\* Two workers never stream one plan under keys that still hold, nor one beside
\* the web process, whatever processes without Redis, dead owners and streams
\* that outlive their key do: none of them deletes a key it does not own.
THEOREM StreamsExclude == Spec => []StreamExclusive
<1>1. Init => StreamOwnsLock
  BY DEF Init, StreamOwnsLock
<1>2. Spec => []LockInv
  BY <1>1, InitType, StepType, StepLock, PTL DEF Spec, LockInv
<1>3. LockInv => StreamExclusive
  BY WorkersAssumption DEF LockInv, StreamOwnsLock, StreamExclusive, Streams
<1> QED BY <1>2, <1>3, PTL

-----------------------------------------------------------------------------
(* What one step can do to one run.  Every property of verdicts and parents *)
(* follows from this case split and from what the workers have read.        *)

\* Worker states in which the run was seen queued and is still to be ended.
AtRisk == {"begin"} \cup Executing

Untouched(r) == run'[r].status = run[r].status /\ turn'[r] = turn[r]

Created(r) ==
    /\ run[r].status \in Unborn /\ run'[r].status \in Unborn \cup {"queued"}
    /\ turn'[r] = turn[r]

Begun(r) ==
    /\ run'[r].status = "running" /\ turn'[r] = turn[r]
    /\ \E w \in Workers : worker[w].pc = "begin" /\ Held(w) = r

SentBack(r) ==
    /\ IsActive(r) /\ run'[r].status = "queued" /\ run'[r].retry > 0
    /\ turn'[r] = turn[r]
    /\ \E w \in Workers : worker[w].pc = "idle"

\* Ended by a cancel request, by a worker that scans, or by one that held it.
EndedBy(r, w) ==
    /\ worker'[w].pc \notin AtRisk
    /\ \/ worker[w].pc = "idle" /\ IsActive(r) /\ run'[r].retry >= MaxRetries
       \/ /\ worker[w].pc # "idle" /\ Held(w) = r
          /\ worker[w].pc \in Executing \cup {"abort"} \/ ~IsTerminal(r)

Over(r) ==
    /\ run'[r].status \in RunTerminal /\ turn'[r] = Verdict[run'[r].status]
    /\ run'[r].cancel \/ \E w \in Workers : EndedBy(r, w)

\* The count is raised when a run is sent back, which happens MaxRetries times
\* at most, or when a worker that raised gives it up.
Counted(r) ==
    \/ run'[r].retry = run[r].retry
    \/ run'[r].retry <= MaxRetries
    \/ run'[r].status \in RunTerminal /\ \E w \in Workers : worker[w].pc = "raised" /\ Held(w) = r

Fate(r) ==
    /\ run[r].cancel => run'[r].cancel
    /\ Counted(r)
    /\ run[r].retry \in Nat /\ run'[r].retry \in Nat /\ run'[r].retry >= run[r].retry
    /\ run[r].parent # r => run'[r].parent # r
    /\ run[r].status \notin Unborn =>
          run'[r].status \notin Unborn /\ run'[r].parent = run[r].parent
    /\ Untouched(r) \/ Created(r) \/ Begun(r) \/ SentBack(r) \/ Over(r)

\* A run whose row is not there yet has a running turn and no cancel request.
Unstarted ==
    \A r \in Runs : run[r].status \in Unborn => turn[r] = "running" /\ cancel[r] = "none"

\* What the new versions of a run record do to the flag and the parent.
LEMMA RecordRest ==
  ASSUME NEW rec \in RunRecord
  PROVE  /\ \A v \in RunTerminal : /\ Ended(rec, v).cancel = rec.cancel
                                   /\ Ended(rec, v).parent = rec.parent
                                   /\ [Ended(rec, v) EXCEPT !.cancel = TRUE].cancel
                                   /\ [Ended(rec, v) EXCEPT !.cancel = TRUE].parent = rec.parent
         /\ GivenUp(rec).cancel = rec.cancel /\ GivenUp(rec).parent = rec.parent
         /\ Requeued(rec).cancel = rec.cancel /\ Requeued(rec).parent = rec.parent
         /\ \A m \in Modes, q \in Runs \cup {NoRun} :
               Queued(rec, m, q).cancel = rec.cancel /\ Queued(rec, m, q).parent = q
<1>1. \A v \in RunTerminal : /\ Ended(rec, v) \in RunRecord
                             /\ Ended(rec, v).cancel = rec.cancel
                             /\ Ended(rec, v).parent = rec.parent
  BY RecordTypes DEF Ended, RunRecord
<1>2. \A x \in RunRecord : /\ [x EXCEPT !.cancel = TRUE].cancel
                           /\ [x EXCEPT !.cancel = TRUE].parent = x.parent
                           /\ [x EXCEPT !.retry = @ + 1].cancel = x.cancel
                           /\ [x EXCEPT !.retry = @ + 1].parent = x.parent
  BY DEF RunRecord
<1>3. GivenUp(rec).cancel = rec.cancel /\ GivenUp(rec).parent = rec.parent
  <2>1. "failed" \in RunTerminal
    BY DEF RunTerminal
  <2> QED BY <1>1, <1>2, <2>1 DEF GivenUp
<1>4. Requeued(rec).cancel = rec.cancel /\ Requeued(rec).parent = rec.parent
  BY DEF Requeued, RunRecord
<1>5. \A m \in Modes, q \in Runs \cup {NoRun} :
         Queued(rec, m, q).cancel = rec.cancel /\ Queued(rec, m, q).parent = q
  BY DEF Queued, RunRecord
<1> QED BY <1>1, <1>2, <1>3, <1>4, <1>5

\* A step that leaves every status, flag, count, parent and turn alone.
LEMMA NothingHappened ==
  ASSUME TInv, turn' = turn,
         \A r \in Runs : /\ run'[r].status = run[r].status
                         /\ run'[r].cancel = run[r].cancel \/ run'[r].cancel
                         /\ run'[r].retry = run[r].retry
                         /\ run'[r].parent = run[r].parent
  PROVE  \A r \in Runs : Fate(r)
<1>1. \A r \in Runs : run[r].retry \in Nat
  BY DEF TInv, TypeOK, RunRecord
<1> QED BY <1>1 DEF Fate, Counted, Untouched

\* A step that writes the record and the turn of one run.
LEMMA OneFate ==
  ASSUME TInv, NEW r \in Runs, NEW rec \in RunRecord, run' = [run EXCEPT ![r] = rec],
         turn' = turn \/ \E s : turn' = [turn EXCEPT ![r] = s],
         run'[r] = rec => Fate(r)
  PROVE  \A q \in Runs : Fate(q)
<1>1. run'[r] = rec /\ \A q \in Runs : q # r => run'[q] = run[q] /\ turn'[q] = turn[q]
  BY DEF TInv, TypeOK
<1>2. \A q \in Runs : run[q].retry \in Nat
  BY DEF TInv, TypeOK, RunRecord
<1>3. ASSUME NEW q \in Runs, q # r PROVE Fate(q)
  BY <1>1, <1>2, <1>3 DEF Fate, Counted, Untouched
<1> QED BY <1>1, <1>3

\* _finalize, of a run that is held and by the worker that holds it.
LEMMA FinalizeFate ==
  ASSUME TInv, NEW r \in Runs, NEW v \in RunTerminal, Finalize(r, v),
         run[r].status \notin Unborn,
         NEW w \in Workers, EndedBy(r, w)
  PROVE  \A q \in Runs : Fate(q)
<1> DEFINE rec == Ended(run[r], v)
<1>1. /\ run[r] \in RunRecord /\ rec \in RunRecord
      /\ rec.status = v /\ rec.retry = run[r].retry /\ rec.retry \in Nat
      /\ rec.cancel = run[r].cancel /\ rec.parent = run[r].parent
  <2>1. run[r] \in RunRecord
    BY DEF TInv, TypeOK
  <2> QED BY <2>1, RecordTypes, RecordFields, RecordRest
<1>2. run' = [run EXCEPT ![r] = rec] /\ turn' = [turn EXCEPT ![r] = Verdict[v]]
  BY DEF Finalize, EndTurn
<1>3. v \notin Unborn
  BY DEF RunTerminal, Unborn
<1>4. turn'[r] = Verdict[v]
  BY <1>2 DEF TInv, TypeOK
<1> HIDE DEF rec
<1>5. run'[r] = rec => Fate(r)
  BY <1>1, <1>3, <1>4 DEF Fate, Counted, Over
<1> QED BY <1>1, <1>2, <1>5, OneFate

\* The run a worker holds has been committed, with its row.
LEMMA HeldIsBorn ==
  ASSUME CarrierInv, NEW w \in Workers, worker[w].pc # "idle"
  PROVE  Held(w) \in Runs /\ run[Held(w)] \in RunRecord /\ run[Held(w)].status \notin Unborn
<1>1. Held(w) \in Runs /\ worker[w].slot \in Slots
  BY DEF CarrierInv, TInv, TypeOK, WorkerHasRun, WorkerRecord, Held
<1>2. outbox[Held(w)][worker[w].slot].status = "claimed"
  BY DEF CarrierInv, RowsHeldOnce
<1> QED BY <1>1, <1>2 DEF CarrierInv, RowsFresh, TInv, TypeOK

\* What turns and cancel requests do to the runs.
LEMMA UserFates ==
  ASSUME TInv, Unstarted, NEW r \in Runs,
         \/ TurnRead(r) \/ TurnInsert(r) \/ TurnEndsAlone(r)
         \/ TurnCommit(r) \/ CancelRead(r) \/ CancelWrite(r)
  PROVE  \A q \in Runs : Fate(q)
<1>1. \A q \in Runs : run[q] \in RunRecord
  BY DEF TInv, TypeOK
<1>2. run[r].retry \in Nat /\ run[r].parent \in Runs \cup {NoRun} /\ r # NoRun
  BY <1>1, RunsAssumption DEF RunRecord
<1>3. CASE TurnRead(r)
  <2>1. PICK latest \in (Runs \ {r}) \cup {NoRun} :
           run' = [run EXCEPT ![r].status = "reading", ![r].parent = latest]
    BY <1>3 DEF TurnRead, IsActive, RunActive
  <2> DEFINE rec == [run[r] EXCEPT !.status = "reading", !.parent = latest]
  <2>2. /\ rec \in RunRecord /\ rec.status = "reading" /\ rec.parent = latest
        /\ rec.cancel = run[r].cancel /\ rec.retry = run[r].retry
    BY <1>1 DEF RunRecord, Unborn
  <2>3. run[r].status \in Unborn /\ turn' = turn /\ run' = [run EXCEPT ![r] = rec]
    BY <1>3, <2>1 DEF TurnRead, Unborn
  <2>4. latest # r /\ "reading" \in Unborn
    BY <1>2 DEF Unborn
  <2> HIDE DEF rec
  <2>5. run'[r] = rec => Fate(r)
    BY <1>2, <2>2, <2>3, <2>4 DEF Fate, Counted, Created
  <2> QED BY <2>2, <2>3, <2>5, OneFate
<1>4. CASE TurnInsert(r) \/ TurnEndsAlone(r)
  <2>1. PICK st \in Unborn : run' = [run EXCEPT ![r].status = st]
    BY <1>4 DEF TurnInsert, TurnEndsAlone, Unborn
  <2> DEFINE rec == [run[r] EXCEPT !.status = st]
  <2>2. /\ rec \in RunRecord /\ rec.status = st /\ rec.parent = run[r].parent
        /\ rec.cancel = run[r].cancel /\ rec.retry = run[r].retry
    BY <1>1 DEF RunRecord
  <2>3. run[r].status \in Unborn /\ turn' = turn /\ run' = [run EXCEPT ![r] = rec]
    BY <1>4, <2>1 DEF TurnInsert, TurnEndsAlone, Unborn
  <2> HIDE DEF rec
  <2>4. run'[r] = rec => Fate(r)
    BY <1>2, <2>2, <2>3 DEF Fate, Counted, Created
  <2> QED BY <2>2, <2>3, <2>4, OneFate
<1>5. CASE TurnCommit(r)
  <2>1. PICK mode \in Modes, full \in BOOLEAN :
          run' = [q \in Runs |->
                    IF q = r
                    THEN Queued(run[r], mode, IF full THEN NoRun ELSE run[r].parent)
                    ELSE IF full /\ q = run[r].parent
                    THEN [run[q] EXCEPT !.cancel = TRUE]
                    ELSE run[q]]
    BY <1>5 DEF TurnCommit
  <2>2. run[r].status \in Unborn /\ turn' = turn
    BY <1>5 DEF TurnCommit, Unborn
  <2>3. ASSUME NEW q \in Runs, q # r PROVE Fate(q)
    <3>1. /\ [run[q] EXCEPT !.cancel = TRUE].status = run[q].status
          /\ [run[q] EXCEPT !.cancel = TRUE].retry = run[q].retry
          /\ [run[q] EXCEPT !.cancel = TRUE].parent = run[q].parent
          /\ [run[q] EXCEPT !.cancel = TRUE].cancel
          /\ run[q].retry \in Nat
      BY <1>1 DEF RunRecord
    <3>2. run'[q] = run[q] \/ run'[q] = [run[q] EXCEPT !.cancel = TRUE]
      BY <2>1, <2>3
    <3>3. turn'[q] = turn[q]
      BY <2>2
    <3>4. /\ run'[q].status = run[q].status /\ run'[q].retry = run[q].retry
          /\ run'[q].parent = run[q].parent
          /\ run[q].cancel => run'[q].cancel
      BY <3>1, <3>2
    <3> QED BY <3>1, <3>3, <3>4 DEF Fate, Counted, Untouched
  <2>4. Fate(r)
    <3>1. PICK p \in {NoRun, run[r].parent} : run'[r] = Queued(run[r], mode, p)
      BY <2>1
    <3>2. /\ run'[r].status = "queued" /\ run'[r].retry = run[r].retry
          /\ run'[r].cancel = run[r].cancel /\ run'[r].parent = p
      BY <1>1, <1>2, <3>1, RecordFields, RecordRest
    <3> QED BY <1>2, <2>2, <3>2 DEF Fate, Counted, Created
  <2> QED BY <2>3, <2>4
<1>6. CASE CancelRead(r)
  BY <1>6, NothingHappened DEF CancelRead
<1>7. CASE CancelWrite(r)
  <2>1. run[r].status \notin Unborn
    BY <1>7 DEF CancelWrite, Unstarted
  <2>2. CASE run' = [run EXCEPT ![r].cancel = TRUE] /\ turn' = turn
    <3>1. /\ [run[r] EXCEPT !.cancel = TRUE].status = run[r].status
          /\ [run[r] EXCEPT !.cancel = TRUE].retry = run[r].retry
          /\ [run[r] EXCEPT !.cancel = TRUE].parent = run[r].parent
          /\ [run[r] EXCEPT !.cancel = TRUE].cancel
      BY <1>1 DEF RunRecord
    <3>2. \A q \in Runs : run'[q] = IF q = r THEN [run[r] EXCEPT !.cancel = TRUE] ELSE run[q]
      BY <2>2 DEF TInv, TypeOK
    <3> QED BY <2>2, <3>1, <3>2, NothingHappened
  <2>3. CASE /\ run' = [run EXCEPT ![r] = [Ended(@, "cancelled") EXCEPT !.cancel = TRUE]]
             /\ EndTurn(r, "cancelled")
    <3>1. "cancelled" \in RunTerminal /\ "cancelled" \notin Unborn
      BY DEF RunTerminal, Unborn
    <3> DEFINE rec == [Ended(run[r], "cancelled") EXCEPT !.cancel = TRUE]
    <3>2. /\ rec \in RunRecord /\ rec.status = "cancelled" /\ rec.parent = run[r].parent
          /\ rec.cancel /\ rec.retry = run[r].retry
      BY <1>1, <3>1, RecordTypes, RecordFields, RecordRest
    <3>3. run' = [run EXCEPT ![r] = rec] /\ turn' = [turn EXCEPT ![r] = Verdict["cancelled"]]
      BY <2>3 DEF EndTurn
    <3>4. turn'[r] = Verdict["cancelled"]
      BY <3>3 DEF TInv, TypeOK
    <3> HIDE DEF rec
    <3>5. run'[r] = rec => Fate(r)
      BY <1>2, <2>1, <3>1, <3>2, <3>4 DEF Fate, Counted, Over
    <3> QED BY <3>2, <3>3, <3>5, OneFate
  <2> QED BY <1>7, <2>2, <2>3 DEF CancelWrite
<1> QED BY <1>3, <1>4, <1>5, <1>6, <1>7

\* What executing a run, settling its row and dying do to the runs.
LEMMA ExecuteFates ==
  ASSUME CarrierInv, NEW w \in Workers,
         Execute(w) \/ StreamEvent(w) \/ LockError(w) \/ Raise(w) \/ Crash(w)
  PROVE  \A q \in Runs : Fate(q)
<1> DEFINE r == Held(w)
<1>1. worker[w].pc # "idle"
  BY DEF Execute, ReadRun, Abort, Begin, Recompose, AcquireLock, LockTimeout, StreamEvent,
         StreamEnd, LockError, Finish, Settle, SettleRaised, Raise, Crash
<1>2. r \in Runs /\ run[r] \in RunRecord /\ run[r].status \notin Unborn
  BY <1>1, HeldIsBorn
<1>3. run[r].retry \in Nat /\ TInv
  BY <1>2 DEF RunRecord, CarrierInv
<1>4. CASE run' = run /\ turn' = turn
  BY <1>3, <1>4, NothingHappened
<1>5. CASE Abort(w) \/ LockTimeout(w) \/ Recompose(w) \/ Finish(w)
  <2>1. PICK v \in RunTerminal : Finalize(r, v)
    BY <1>3, <1>5 DEF Abort, LockTimeout, Recompose, Finish, RunTerminal, TInv, TypeOK, WorkerRecord
  <2>2. Goto(w, "settle") /\ worker[w].pc \in Executing \cup {"abort"}
    BY <1>5 DEF Abort, LockTimeout, Recompose, Finish, Executing
  <2>3. worker'[w].pc \notin AtRisk
    BY <1>3, <2>2 DEF Goto, TInv, TypeOK, WorkerRecord, AtRisk, Executing
  <2>4. EndedBy(r, w)
    BY <1>1, <2>2, <2>3 DEF EndedBy
  <2> QED BY <1>2, <1>3, <2>1, <2>4, FinalizeFate
<1>6. CASE Begin(w)
  <2> DEFINE rec == [run[r] EXCEPT !.status = "running", !.beat = "fresh"]
  <2>1. /\ rec \in RunRecord /\ rec.status = "running" /\ rec.parent = run[r].parent
        /\ rec.cancel = run[r].cancel /\ rec.retry = run[r].retry
    BY <1>2 DEF RunRecord, RunStatus, RunActive
  <2>2. run' = [run EXCEPT ![r] = rec] /\ turn' = turn /\ worker[w].pc = "begin"
    BY <1>6 DEF Begin
  <2>3. "running" \notin Unborn
    BY DEF Unborn
  <2> HIDE DEF rec
  <2>4. run'[r] = rec => Fate(r)
    BY <1>3, <2>1, <2>2, <2>3 DEF Fate, Counted, Begun
  <2> QED BY <1>2, <1>3, <2>1, <2>2, <2>4, OneFate
<1>7. CASE StreamEvent(w)
  <2>1. run' = [run EXCEPT ![r].beat = "fresh"] /\ turn' = turn
    BY <1>7 DEF StreamEvent
  <2>2. /\ [run[r] EXCEPT !.beat = "fresh"].status = run[r].status
        /\ [run[r] EXCEPT !.beat = "fresh"].retry = run[r].retry
        /\ [run[r] EXCEPT !.beat = "fresh"].parent = run[r].parent
        /\ [run[r] EXCEPT !.beat = "fresh"].cancel = run[r].cancel
    BY <1>2 DEF RunRecord
  <2>3. \A q \in Runs : run'[q] = IF q = r THEN [run[r] EXCEPT !.beat = "fresh"] ELSE run[q]
    BY <1>3, <2>1 DEF TInv, TypeOK
  <2> HIDE DEF r
  <2> QED BY <1>3, <2>1, <2>2, <2>3, NothingHappened
<1>8. CASE SettleRaised(w)
  <2>1. CASE run' = [run EXCEPT ![r] = GivenUp(@)] /\ turn' = [turn EXCEPT ![r] = "failed"]
             /\ ~IsTerminal(r)
    <3> DEFINE rec == GivenUp(run[r])
    <3>1. /\ rec \in RunRecord /\ rec.status = "failed" /\ rec.parent = run[r].parent
          /\ rec.cancel = run[r].cancel /\ rec.retry = run[r].retry + 1
      BY <1>2, RecordTypes, RecordFields, RecordRest
    <3>2. run' = [run EXCEPT ![r] = rec]
      BY <2>1
    <3>3. turn'[r] = "failed" /\ Verdict["failed"] = "failed"
      BY <1>2, <1>3, <2>1 DEF TInv, TypeOK, Verdict
    <3>4. worker'[w].pc \notin AtRisk
      BY <1>3, <1>8 DEF SettleRaised, TInv, TypeOK, Idle, AtRisk, Executing
    <3>5. EndedBy(r, w)
      BY <1>1, <2>1, <3>4 DEF EndedBy
    <3>6. "failed" \in RunTerminal /\ "failed" \notin Unborn
      BY DEF RunTerminal, Unborn
    <3> HIDE DEF rec
    <3>8. worker[w].pc = "raised" /\ Held(w) = r
      BY <1>8 DEF SettleRaised
    <3>7. run'[r] = rec => Fate(r)
      BY <1>3, <3>8, <3>1, <3>3, <3>5, <3>6 DEF Fate, Counted, Over
    <3> QED BY <1>2, <1>3, <2>1, <3>1, <3>2, <3>7, OneFate
  <2> QED BY <1>4, <1>8, <2>1 DEF SettleRaised
<1> QED BY <1>4, <1>5, <1>6, <1>7, <1>8
        DEF Execute, ReadRun, AcquireLock, StreamEnd, LockError, Raise, Settle, Crash

\* The scan sends a stale run back while it has retries left, and ends it
\* when it has none.
LEMMA ScanFates ==
  ASSUME TInv, NEW w \in Workers, Scan(w)
  PROVE  \A q \in Runs : Fate(q)
<1>1. PICK batch \in SUBSET Stalled \ {{}} :
         LET again == {r \in batch : run[r].retry < MaxRetries}
         IN  /\ run' = [r \in Runs |->
                          IF r \in again THEN Requeued(run[r])
                          ELSE IF r \in batch THEN Ended(run[r], "failed")
                          ELSE run[r]]
             /\ turn' = [r \in Runs |-> IF r \in batch \ again THEN "failed" ELSE turn[r]]
  BY DEF Scan
<1> SUFFICES ASSUME NEW q \in Runs PROVE Fate(q)
  OBVIOUS
<1>2. /\ run[q] \in RunRecord /\ run[q].retry \in Nat
      /\ worker[w].pc = "idle" /\ worker' = worker
  BY DEF Scan, TInv, TypeOK, RunRecord
<1>3. CASE q \notin batch
  BY <1>1, <1>2, <1>3 DEF Fate, Counted, Untouched
<1>4. CASE q \in batch /\ run[q].retry < MaxRetries
  <2>1. run'[q] = Requeued(run[q]) /\ turn'[q] = turn[q]
    BY <1>1, <1>4
  <2>2. /\ run'[q].status = "queued" /\ run'[q].retry = run[q].retry + 1
        /\ run'[q].cancel = run[q].cancel /\ run'[q].parent = run[q].parent
    BY <1>2, <2>1, RecordFields, RecordRest
  <2>3. IsActive(q) /\ "queued" \notin Unborn /\ run[q].retry + 1 <= MaxRetries
    BY <1>2, <1>4, BoundsAssumption DEF Stalled, Unborn
  <2> QED BY <1>2, <2>1, <2>2, <2>3 DEF Fate, Counted, SentBack
<1>5. CASE q \in batch /\ ~(run[q].retry < MaxRetries)
  <2>1. run'[q] = Ended(run[q], "failed") /\ turn'[q] = "failed"
    BY <1>1, <1>5
  <2>2. "failed" \in RunTerminal /\ "failed" \notin Unborn /\ Verdict["failed"] = "failed"
    BY DEF RunTerminal, Unborn, Verdict
  <2>3. /\ run'[q].status = "failed" /\ run'[q].retry = run[q].retry
        /\ run'[q].cancel = run[q].cancel /\ run'[q].parent = run[q].parent
    BY <1>2, <2>1, <2>2, RecordFields, RecordRest
  <2>4. IsActive(q) /\ run[q].retry >= MaxRetries
    BY <1>2, <1>5, BoundsAssumption DEF Stalled
  <2>5. EndedBy(q, w)
    BY <1>2, <2>3, <2>4 DEF EndedBy, AtRisk, Executing
  <2> QED BY <1>2, <2>1, <2>2, <2>3, <2>5 DEF Fate, Counted, Over
<1> QED BY <1>3, <1>4, <1>5

\* Every step is one of these to every run.
LEMMA StepFates ==
  ASSUME CarrierInv, Unstarted, [Next]_vars
  PROVE  \A q \in Runs : Fate(q)
<1> USE DEF CarrierInv
<1>1. CASE UserNext
  BY <1>1, UserFates DEF UserNext
<1>2. CASE WorkerNext
  <2>1. ASSUME NEW w \in Workers, Claim(w) PROVE run' = run /\ turn' = turn
    BY <2>1 DEF Claim
  <2> QED BY <1>2, <2>1, NothingHappened, ExecuteFates, ScanFates DEF WorkerNext
<1>3. CASE EnvNext
  <2>1. ASSUME NEW r \in Runs, BeatStale(r) PROVE \A q \in Runs : Fate(q)
    <3>1. run' = [run EXCEPT ![r].beat = "stale"] /\ turn' = turn
      BY <2>1 DEF BeatStale
    <3>2. run[r] \in RunRecord
      BY DEF TInv, TypeOK
    <3>3. /\ [run[r] EXCEPT !.beat = "stale"].status = run[r].status
          /\ [run[r] EXCEPT !.beat = "stale"].retry = run[r].retry
          /\ [run[r] EXCEPT !.beat = "stale"].parent = run[r].parent
          /\ [run[r] EXCEPT !.beat = "stale"].cancel = run[r].cancel
      BY <3>2 DEF RunRecord
    <3>4. \A q \in Runs : run'[q] = IF q = r THEN [run[r] EXCEPT !.beat = "stale"] ELSE run[q]
      BY <3>1 DEF TInv, TypeOK
    <3> QED BY <3>1, <3>3, <3>4, NothingHappened
  <2>2. ASSUME NEW p \in Plans, WebAcquire(p) \/ WebRelease(p) \/ LockExpires(p)
        PROVE  run' = run /\ turn' = turn
    BY <2>2 DEF WebAcquire, WebRelease, LockExpires
  <2> QED BY <1>3, <2>1, <2>2, NothingHappened DEF EnvNext
<1>4. CASE UNCHANGED vars
  BY <1>4, NothingHappened DEF vars
<1> QED BY <1>1, <1>2, <1>3, <1>4 DEF Next

-----------------------------------------------------------------------------
(* Verdicts.  The unlocked read of execute_run is only dangerous when two   *)
(* workers hold one run, which takes a requeue, or when it is cancelled.    *)

\* A worker that saw its run queued, or saw its flag, acts on a run of which
\* that is still true, or that was cancelled or requeued since.
ReadsStand ==
    \A w \in Workers :
        /\ worker[w].pc = "abort" => run[Held(w)].cancel
        /\ worker[w].pc \in AtRisk /\ IsTerminal(Held(w)) =>
              run[Held(w)].cancel \/ run[Held(w)].retry > 0

VerdictInv == CarrierInv /\ Unstarted /\ TurnMirrorsRun /\ ReadsStand

\* Two workers hold one run only after a requeue: before it, the run has one
\* row, and a row is held once.
LEMMA HeldTwice ==
  ASSUME CarrierInv, NEW v \in Workers, NEW w \in Workers, v # w,
         worker[v].pc # "idle", worker[w].pc # "idle", Held(v) = Held(w)
  PROVE  run[Held(w)].retry > 0
<1> USE DEF CarrierInv
<1>1. Held(w) \in Runs /\ run[Held(w)].retry \in Nat
  BY HeldIsBorn DEF RunRecord
<1>2. /\ worker[v].slot \in Slots /\ worker[w].slot \in Slots
      /\ \A k \in Slots : k \in Nat
  BY BoundsAssumption DEF TInv, TypeOK, WorkerRecord, Slots
<1>3. worker[v].slot # worker[w].slot
  BY <1>1, <1>2 DEF RowsHeldOnce, Holds, Held
<1>4. ASSUME NEW u \in {v, w} PROVE ~(worker[u].slot > run[Held(w)].retry)
  BY <1>1, <1>2 DEF RowsHeldOnce, RowsFresh, Held
<1> QED BY <1>1, <1>2, <1>3, <1>4

\* A worker comes to act on a run only by seeing it queued, and to abort it
\* only by seeing its flag; it stays with that run.
LEMMA WorkerReads ==
  ASSUME CarrierInv, [Next]_vars, NEW w \in Workers, worker'[w].pc # "idle"
  PROVE  /\ worker[w].pc # "idle" => worker'[w].run = Held(w)
         /\ worker'[w].pc = "abort" =>
               /\ worker[w].pc # "idle"
               /\ worker[w].pc = "abort" \/ run[Held(w)].cancel
         /\ worker'[w].pc \in AtRisk =>
               /\ worker[w].pc # "idle"
               /\ \/ worker[w].pc \in AtRisk
                  \/ run[Held(w)].status = "queued" /\ run' = run
<1> USE DEF CarrierInv
<1> DEFINE Read == 
         /\ worker[w].pc # "idle" => worker'[w].run = Held(w)
         /\ worker'[w].pc = "abort" =>
               /\ worker[w].pc # "idle"
               /\ worker[w].pc = "abort" \/ run[Held(w)].cancel
         /\ worker'[w].pc \in AtRisk =>
               /\ worker[w].pc # "idle"
               /\ \/ worker[w].pc \in AtRisk
                  \/ run[Held(w)].status = "queued" /\ run' = run
<1>1. CASE worker'[w] = worker[w]
  BY <1>1 DEF Held, AtRisk, Executing
<1>2. CASE UserNext \/ EnvNext \/ UNCHANGED vars
  BY <1>1, <1>2 DEF UserNext, TurnRead, TurnInsert, TurnEndsAlone, TurnCommit, CancelRead,
                    CancelWrite, EnvNext, BeatStale, WebAcquire, WebRelease, LockExpires, vars
<1>3. ASSUME NEW v \in Workers,
             \/ Claim(v) \/ Execute(v) \/ StreamEvent(v) \/ LockError(v)
             \/ Raise(v) \/ Scan(v) \/ Crash(v)
      PROVE  Read
  <2>1. CASE worker' = worker
    BY <1>1, <2>1
  <2>2. ASSUME NEW rec, worker' = [worker EXCEPT ![v] = rec], v # w PROVE Read
    BY <1>1, <2>2 DEF TInv, TypeOK
  <2>3. ASSUME NEW pc \in PC, Goto(v, pc), v = w
        PROVE  worker'[w].pc = pc /\ worker'[w].run = Held(w)
    BY <2>3 DEF Goto, TInv, TypeOK, WorkerRecord, Held
  <2>4. CASE ReadRun(v)
    <3>1. Seen(run[Held(v)]) \in PC /\ Goto(v, Seen(run[Held(v)])) /\ run' = run
          /\ worker[v].pc = "claimed"
      BY <2>4 DEF ReadRun, Seen, PC
    <3>2. CASE v = w
      <4>1. worker'[w].pc = Seen(run[Held(w)]) /\ worker'[w].run = Held(w)
        BY <2>3, <3>1, <3>2
      <4> QED BY <3>1, <3>2, <4>1 DEF Seen, AtRisk, Executing
    <3> QED BY <2>2, <3>1, <3>2 DEF Goto
  <2>5. CASE Abort(v) \/ Begin(v) \/ Recompose(v) \/ AcquireLock(v) \/ LockTimeout(v)
             \/ Finish(v) \/ Raise(v)
    <3>1. PICK pc \in PC : /\ Goto(v, pc)
                           /\ pc # "abort" /\ worker[v].pc # "idle"
                           /\ pc \in AtRisk => worker[v].pc \in AtRisk
      BY <2>5 DEF Abort, Begin, Recompose, AcquireLock, LockTimeout, Finish, Raise, PC,
                  AtRisk, Executing
    <3>2. CASE v = w
      BY <2>3, <3>1, <3>2
    <3> QED BY <2>2, <3>1, <3>2 DEF Goto
  <2>6. CASE StreamEvent(v)
    <3>1. PICK rec : /\ worker' = [worker EXCEPT ![v] = rec]
                     /\ rec.pc = worker[v].pc /\ rec.run = worker[v].run
      <4>1. worker[v] \in WorkerRecord /\ worker = [worker EXCEPT ![v] = worker[v]]
        BY DEF TInv, TypeOK
      <4>2. [worker[v] EXCEPT !.err = TRUE].pc = worker[v].pc
            /\ [worker[v] EXCEPT !.err = TRUE].run = worker[v].run
        BY <4>1 DEF WorkerRecord
      <4>3. \A got : /\ [worker[v] EXCEPT !.got = got].pc = worker[v].pc
                     /\ [worker[v] EXCEPT !.got = got].run = worker[v].run
        BY <4>1 DEF WorkerRecord
      <4>4. CASE UNCHANGED worker
        BY <4>1, <4>4
      <4>5. CASE worker' = [worker EXCEPT ![v].err = TRUE]
        BY <4>2, <4>5
      <4>6. ASSUME NEW got, worker' = [worker EXCEPT ![v].got = got]
            PROVE  \E rec : /\ worker' = [worker EXCEPT ![v] = rec]
                            /\ rec.pc = worker[v].pc /\ rec.run = worker[v].run
        BY <4>3, <4>6
      <4> QED BY <2>6, <4>4, <4>5, <4>6 DEF StreamEvent
    <3>2. CASE v = w
      <4>1. worker'[w] = rec
        BY <3>1, <3>2 DEF TInv, TypeOK
      <4>2. worker[v].pc = "stream"
        BY <2>6 DEF StreamEvent
      <4> QED BY <3>1, <3>2, <4>1, <4>2 DEF Held, AtRisk, Executing
    <3> QED BY <2>2, <3>1, <3>2
  <2>7. CASE StreamEnd(v) \/ LockError(v)
    <3>1. PICK out : worker' = [worker EXCEPT ![v].pc = "finish", ![v].out = out]
      BY <2>7 DEF StreamEnd, LockError
    <3>2. worker[v].pc \in {"stream", "locking"}
      BY <2>7 DEF StreamEnd, LockError
    <3>3. CASE v = w
      <4>1. worker'[w].pc = "finish" /\ worker'[w].run = Held(w)
        BY <3>1, <3>3 DEF TInv, TypeOK, WorkerRecord, Held
      <4> QED BY <3>2, <3>3, <4>1 DEF AtRisk, Executing
    <3> QED BY <2>2, <3>1, <3>3
  <2>8. CASE Claim(v)
    <3>1. PICK r \in Runs, k \in Slots :
             worker' = [worker EXCEPT ![v] =
                          [Idle EXCEPT !.pc = "claimed", !.run = r, !.slot = k]]
      BY <2>8 DEF Claim
    <3>2. worker[v].pc = "idle"
      BY <2>8 DEF Claim
    <3>3. CASE v = w
      <4>1. worker'[w].pc = "claimed"
        BY <3>1, <3>3 DEF TInv, TypeOK, Idle
      <4> QED BY <3>2, <3>3, <4>1 DEF AtRisk, Executing
    <3> QED BY <2>2, <3>1, <3>3
  <2>9. CASE Settle(v) \/ SettleRaised(v) \/ Crash(v)
    <3>1. worker' = [worker EXCEPT ![v] = Idle]
      BY <2>9 DEF Settle, SettleRaised, Crash
    <3>2. v # w
      BY <3>1 DEF Idle, TInv, TypeOK
    <3> QED BY <2>2, <3>1, <3>2
  <2>10. CASE Scan(v)
    BY <2>1, <2>10 DEF Scan
  <2> QED BY <1>3, <2>4, <2>5, <2>6, <2>7, <2>8, <2>9, <2>10 DEF Execute
<1> QED BY <1>2, <1>3 DEF Next, WorkerNext

LEMMA InitVerdict == Init => VerdictInv
<1> SUFFICES ASSUME Init PROVE Unstarted /\ TurnMirrorsRun /\ ReadsStand
  BY InitCarrier DEF VerdictInv
<1>1. Unstarted
  BY DEF Init, Unstarted
<1>2. TurnMirrorsRun
  BY DEF Init, TurnMirrorsRun, NewRun, IsTerminal, IsActive, RunTerminal, RunActive
<1>3. ReadsStand
  BY DEF Init, ReadsStand, Idle, AtRisk, Executing
<1> QED BY <1>1, <1>2, <1>3

\* Cancel requests are opened for active runs only.
LEMMA CancelsAreOfActives ==
  ASSUME TInv, [Next]_vars, NEW r \in Runs
  PROVE  cancel'[r] \in {cancel[r], "none"} \/ IsActive(r)
<1> USE DEF TInv, TypeOK
<1>1. CASE \E q \in Runs : CancelRead(q) \/ CancelWrite(q)
  BY <1>1 DEF CancelRead, Cancellable, CancelWrite
<1>2. CASE UNCHANGED cancel
  BY <1>2
<1> QED BY <1>1, <1>2
        DEF Next, UserNext, TurnRead, TurnInsert, TurnEndsAlone, TurnCommit, WorkerNext,
            Claim, Execute, ReadRun, Abort, Begin, Recompose, AcquireLock, LockTimeout,
            StreamEnd, Finish, Settle, SettleRaised, StreamEvent, LockError, Raise, Scan,
            Crash, EnvNext, BeatStale, WebAcquire, WebRelease, LockExpires, vars

LEMMA StepUnstarted ==
  ASSUME CarrierInv, Unstarted, [Next]_vars
  PROVE  Unstarted'
<1> SUFFICES ASSUME NEW r \in Runs, run'[r].status \in Unborn
             PROVE  turn'[r] = "running" /\ cancel'[r] = "none"
  BY DEF Unstarted
<1>1. Fate(r)
  BY StepFates
<1>2. run[r].status \in Unborn
  BY <1>1 DEF Fate
<1>3. ~IsActive(r) /\ "queued" \notin Unborn /\ "running" \notin Unborn
      /\ RunTerminal \cap Unborn = {}
  BY <1>2 DEF IsActive, RunActive, RunTerminal, Unborn
<1>4. turn'[r] = turn[r]
  BY <1>1, <1>3 DEF Fate, Untouched, Created, Begun, SentBack, Over
<1>5. cancel'[r] \in {cancel[r], "none"}
  BY <1>3, CancelsAreOfActives DEF CarrierInv
<1> QED BY <1>2, <1>4, <1>5 DEF Unstarted

\* What the reads say still holds after a step, if a run the scan fails has
\* been requeued before.
LEMMA StepReads ==
  ASSUME CarrierInv, Unstarted, ReadsStand, [Next]_vars, MaxRetries > 0
  PROVE  ReadsStand'
<1> USE DEF CarrierInv
<1>1. ASSUME NEW w \in Workers, worker'[w].pc = "abort"
      PROVE  run'[worker'[w].run].cancel
  <2>1. /\ worker[w].pc # "idle" /\ worker'[w].run = Held(w)
        /\ worker[w].pc = "abort" \/ run[Held(w)].cancel
    BY <1>1, WorkerReads
  <2>2. Fate(Held(w))
    BY <2>1, HeldIsBorn, StepFates
  <2> QED BY <2>1, <2>2 DEF ReadsStand, Fate
<1>2. ASSUME NEW w \in Workers, worker'[w].pc \in AtRisk,
             run'[worker'[w].run].status \in RunTerminal
      PROVE  run'[worker'[w].run].cancel \/ run'[worker'[w].run].retry > 0
  <2> DEFINE r == Held(w)
  <2>1. worker'[w].pc # "idle"
    BY <1>2 DEF AtRisk, Executing
  <2>2. /\ worker[w].pc # "idle" /\ worker'[w].run = r
        /\ worker[w].pc \in AtRisk \/ (run[r].status = "queued" /\ run' = run)
    BY <1>2, <2>1, WorkerReads
  <2>3. r \in Runs /\ run[r].status \notin Unborn /\ Fate(r)
    BY <2>2, HeldIsBorn, StepFates
  <2>4. run'[r].status # "queued"
    BY <1>2, <2>2 DEF RunTerminal
  <2>5. worker[w].pc \in AtRisk
    BY <2>2, <2>4
  <2>6. CASE Untouched(r)
    BY <1>2, <2>2, <2>3, <2>5, <2>6 DEF Untouched, ReadsStand, IsTerminal, Fate
  <2>7. CASE Over(r)
    <3>1. CASE run'[r].cancel
      BY <2>2, <3>1
    <3>2. ASSUME NEW v \in Workers, EndedBy(r, v), worker[v].pc = "idle"
          PROVE  run'[r].retry > 0
      BY <2>3, <3>2, BoundsAssumption DEF EndedBy, Fate
    <3>3. ASSUME NEW v \in Workers, EndedBy(r, v), worker[v].pc # "idle"
          PROVE  run'[r].retry > 0
      <4>1. v # w /\ Held(v) = r
        BY <1>2, <3>3 DEF EndedBy
      <4>2. run[r].retry > 0
        BY <2>2, <3>3, <4>1, HeldTwice
      <4> QED BY <2>3, <4>2 DEF Fate
    <3> QED BY <2>2, <2>7, <3>1, <3>2, <3>3 DEF Over
  <2> QED BY <1>2, <2>2, <2>3, <2>6, <2>7
          DEF Fate, Created, Begun, SentBack, RunTerminal
<1> QED BY <1>1, <1>2 DEF ReadsStand, IsTerminal, Held

LEMMA StepMirrors ==
  ASSUME VerdictInv, [Next]_vars
  PROVE  TurnMirrorsRun'
<1> USE DEF VerdictInv
<1> SUFFICES ASSUME NEW r \in Runs
             PROVE  /\ IsTerminal(r)' => turn'[r] = Verdict[run'[r].status]
                    /\ IsActive(r)' /\ ~run'[r].cancel /\ run'[r].retry = 0
                          => turn'[r] = "running"
  BY DEF TurnMirrorsRun
<1>1. Fate(r)
  BY StepFates
<1>2. /\ RunTerminal \cap Unborn = {} /\ RunTerminal \cap RunActive = {}
      /\ "queued" \notin RunTerminal /\ "running" \notin RunTerminal
  BY DEF RunTerminal, RunActive, Unborn
<1>3. CASE Untouched(r)
  BY <1>1, <1>3 DEF Untouched, Fate, TurnMirrorsRun, IsTerminal, IsActive
<1>4. CASE Created(r)
  BY <1>1, <1>2, <1>4 DEF Created, Unstarted, IsTerminal, IsActive
<1>5. CASE Begun(r)
  <2>1. ASSUME ~run'[r].cancel, run'[r].retry = 0 PROVE turn'[r] = "running"
    <3>1. ~run[r].cancel /\ run[r].retry = 0
      BY <1>1, <2>1 DEF Fate
    <3>2. ~IsTerminal(r) /\ run[r].status \notin Unborn
      BY <1>5, <3>1, HeldIsBorn DEF Begun, ReadsStand, AtRisk
    <3>3. IsActive(r)
      BY <3>2 DEF IsTerminal, IsActive, CarrierInv, TInv, TypeOK, RunRecord, RunStatus
    <3> QED BY <1>5, <3>1, <3>3 DEF TurnMirrorsRun, Begun
  <2> QED BY <1>2, <1>5, <2>1 DEF Begun, IsTerminal
<1>6. CASE SentBack(r)
  BY <1>2, <1>6 DEF SentBack, IsTerminal
<1>7. CASE Over(r)
  BY <1>2, <1>7 DEF Over, IsActive
<1> QED BY <1>1, <1>3, <1>4, <1>5, <1>6, <1>7 DEF Fate

LEMMA StepVerdict == MaxRetries > 0 => (VerdictInv /\ [Next]_vars => VerdictInv')
  BY StepCarrier, StepUnstarted, StepReads, StepMirrors DEF VerdictInv

\* A step that overturns a verdict is of a run that was cancelled or requeued.
LEMMA StepStands ==
  ASSUME VerdictInv, [Next]_vars, NEW r \in Runs, IsTerminal(r),
         run'[r].status # run[r].status
  PROVE  run'[r].cancel \/ run'[r].retry > 0
<1> USE DEF VerdictInv
<1>1. Fate(r)
  BY StepFates
<1>2. /\ RunTerminal \cap Unborn = {} /\ RunTerminal \cap RunActive = {}
  BY DEF RunTerminal, RunActive, Unborn
<1>3. run[r].cancel \/ run[r].retry > 0 => run'[r].cancel \/ run'[r].retry > 0
  BY <1>1 DEF Fate
<1>4. CASE Begun(r)
  BY <1>3, <1>4 DEF Begun, ReadsStand, AtRisk
<1>5. CASE Over(r)
  BY <1>2, <1>3, <1>5 DEF Over, EndedBy, ReadsStand, AtRisk, IsTerminal, IsActive
<1> QED BY <1>1, <1>2, <1>4, <1>5
        DEF Fate, Untouched, Created, SentBack, IsTerminal, IsActive

LEMMA VerdictAlways ==
  ASSUME MaxRetries > 0
  PROVE  Spec => []VerdictInv
BY InitVerdict, StepVerdict, PTL DEF Spec

\* If a run may be retried at all, the turn the user sees agrees with the run,
\* however many workers there are.  Without retries it does not: the scan
\* fails a slow run for good while its worker is still on it.
THEOREM TurnsMirrorRuns ==
  ASSUME MaxRetries > 0
  PROVE  Spec => []TurnMirrorsRun
<1>1. VerdictInv => TurnMirrorsRun
  BY DEF VerdictInv
<1> QED BY <1>1, VerdictAlways, PTL

\* Under the same condition a verdict is overturned only after a cancel
\* request or a requeue.
THEOREM VerdictsStand ==
  ASSUME MaxRetries > 0
  PROVE  Spec => VerdictStands
<1>1. VerdictInv /\ [Next]_vars =>
         [\A r \in Runs : IsTerminal(r) /\ run'[r].status # run[r].status
             => run'[r].cancel \/ run'[r].retry > 0]_vars
  BY StepStands
<1>2. Spec => [][Next]_vars
  BY DEF Spec
<1> QED BY <1>1, <1>2, VerdictAlways, PTL DEF VerdictStands

-----------------------------------------------------------------------------
(* One worker process, as deployed.                                         *)

OneWorker == \A v, w \in Workers : v = w

\* The worker acts on a finished run only if it was cancelled.
OneReads ==
    \A w \in Workers :
        /\ worker[w].pc = "abort" => run[Held(w)].cancel
        /\ worker[w].pc \in AtRisk /\ IsTerminal(Held(w)) => run[Held(w)].cancel

\* The run a worker holds was claimed after its parent had ended, and no run
\* is its own parent.
HeldAfterParent ==
    /\ \A r \in Runs : run[r].parent # r
    /\ \A w \in Workers : worker[w].pc # "idle" => ParentDone(Held(w))

OneInv == CarrierInv /\ Unstarted /\ OneReads /\ HeldAfterParent

LEMMA InitOne == Init => OneInv
<1> SUFFICES ASSUME Init PROVE Unstarted /\ OneReads /\ HeldAfterParent
  BY InitCarrier DEF OneInv
<1>1. Unstarted
  BY InitVerdict DEF VerdictInv
<1>2. OneReads
  BY DEF Init, OneReads, Idle, AtRisk, Executing
<1>3. HeldAfterParent
  BY RunsAssumption DEF Init, HeldAfterParent, Idle, NewRun
<1> QED BY <1>1, <1>2, <1>3

LEMMA StepOneReads ==
  ASSUME OneWorker, CarrierInv, Unstarted, OneReads, [Next]_vars
  PROVE  OneReads'
<1>1. ASSUME NEW w \in Workers, worker'[w].pc = "abort"
      PROVE  run'[worker'[w].run].cancel
  <2>1. /\ worker[w].pc # "idle" /\ worker'[w].run = Held(w)
        /\ worker[w].pc = "abort" \/ run[Held(w)].cancel
    BY <1>1, WorkerReads
  <2>2. Fate(Held(w))
    BY <2>1, HeldIsBorn, StepFates
  <2> QED BY <2>1, <2>2 DEF OneReads, Fate
<1>2. ASSUME NEW w \in Workers, worker'[w].pc \in AtRisk,
             run'[worker'[w].run].status \in RunTerminal
      PROVE  run'[worker'[w].run].cancel
  <2> DEFINE r == Held(w)
  <2>1. worker'[w].pc # "idle"
    BY <1>2 DEF AtRisk, Executing
  <2>2. /\ worker[w].pc # "idle" /\ worker'[w].run = r
        /\ worker[w].pc \in AtRisk \/ (run[r].status = "queued" /\ run' = run)
    BY <1>2, <2>1, WorkerReads
  <2>3. r \in Runs /\ run[r].status \notin Unborn /\ Fate(r)
    BY <2>2, HeldIsBorn, StepFates
  <2>4. run'[r].status # "queued"
    BY <1>2, <2>2 DEF RunTerminal
  <2>5. worker[w].pc \in AtRisk
    BY <2>2, <2>4
  <2>6. CASE Untouched(r)
    BY <1>2, <2>2, <2>3, <2>5, <2>6 DEF Untouched, OneReads, IsTerminal, Fate
  <2>7. CASE Over(r)
    <3>1. \A v \in Workers : ~EndedBy(r, v)
      BY <1>2 DEF EndedBy, OneWorker
    <3> QED BY <2>2, <2>7, <3>1 DEF Over
  <2> QED BY <1>2, <2>2, <2>3, <2>6, <2>7
          DEF Fate, Created, Begun, SentBack, RunTerminal
<1> QED BY <1>1, <1>2 DEF OneReads, IsTerminal, Held

LEMMA StepAfterParent ==
  ASSUME OneWorker, OneInv, [Next]_vars
  PROVE  HeldAfterParent'
<1> USE DEF OneInv
<1>1. \A r \in Runs : run'[r].parent # r
  BY StepFates DEF Fate, HeldAfterParent
<1>2. ASSUME NEW w \in Workers, worker'[w].pc # "idle",
             run'[worker'[w].run].parent # NoRun
      PROVE  run'[run'[worker'[w].run].parent].status \in RunTerminal
  <2>1. CASE worker[w].pc = "idle"
    <3>1. Claim(w)
      <4>1. \A v \in Workers : v = w
        BY DEF OneWorker
      <4>2. CASE worker' = worker
        BY <1>2, <2>1, <4>2
      <4> QED BY <2>1, <4>1, <4>2
              DEF Next, UserNext, TurnRead, TurnInsert, TurnEndsAlone, TurnCommit,
                  CancelRead, CancelWrite, WorkerNext, Execute, ReadRun, Abort, Begin,
                  Recompose, AcquireLock, LockTimeout, StreamEnd, Finish, Settle,
                  SettleRaised, StreamEvent, LockError, Raise, Scan, Crash, EnvNext,
                  BeatStale, WebAcquire, WebRelease, LockExpires, vars
    <3>2. PICK r \in Runs, k \in Slots :
             /\ ParentDone(r) /\ run' = run
             /\ worker' = [worker EXCEPT ![w] =
                             [Idle EXCEPT !.pc = "claimed", !.run = r, !.slot = k]]
      BY <3>1 DEF Claim, Claimable
    <3>3. worker'[w].run = r
      BY <3>2 DEF CarrierInv, TInv, TypeOK, Idle
    <3> QED BY <1>2, <3>2, <3>3 DEF ParentDone, IsTerminal
  <2>2. CASE worker[w].pc # "idle"
    <3> DEFINE r == Held(w)
               p == run[r].parent
    <3>1. /\ worker'[w].run = r /\ r \in Runs /\ run[r].status \notin Unborn
          /\ run[r] \in RunRecord
      BY <1>2, <2>2, WorkerReads, HeldIsBorn
    <3>2. run'[r].parent = p
      BY <3>1, StepFates DEF Fate
    <3>3. p \in Runs /\ p # r /\ IsTerminal(p)
      BY <1>2, <2>2, <3>1, <3>2 DEF HeldAfterParent, ParentDone, RunRecord
    <3>4. Fate(p)
      BY <3>3, StepFates
    <3>5. ~Begun(p)
      BY <3>3 DEF Begun, OneWorker
    <3>6. run'[p].status \in RunTerminal
      BY <3>3, <3>4, <3>5
         DEF Fate, Untouched, Created, SentBack, Over, IsTerminal, IsActive, RunTerminal,
             RunActive, Unborn
    <3> QED BY <3>1, <3>2, <3>6
  <2> QED BY <2>1, <2>2
<1> QED BY <1>1, <1>2 DEF HeldAfterParent, ParentDone, IsTerminal, Held

LEMMA StepOne == OneWorker => (OneInv /\ [Next]_vars => OneInv')
  BY StepCarrier, StepUnstarted, StepOneReads, StepAfterParent DEF OneInv

\* The step that overturns a verdict is of a cancelled run.
LEMMA StepCancelOverturns ==
  ASSUME OneWorker, OneInv, [Next]_vars, NEW r \in Runs, IsTerminal(r),
         run'[r].status # run[r].status
  PROVE  run'[r].cancel
<1> USE DEF OneInv
<1>1. Fate(r)
  BY StepFates
<1>2. /\ RunTerminal \cap Unborn = {} /\ RunTerminal \cap RunActive = {}
  BY DEF RunTerminal, RunActive, Unborn
<1>3. run[r].cancel => run'[r].cancel
  BY <1>1 DEF Fate
<1>4. CASE Begun(r)
  BY <1>3, <1>4 DEF Begun, OneReads, AtRisk
<1>5. CASE Over(r)
  BY <1>2, <1>3, <1>5 DEF Over, EndedBy, OneReads, AtRisk, IsTerminal, IsActive
<1> QED BY <1>1, <1>2, <1>4, <1>5
        DEF Fate, Untouched, Created, SentBack, IsTerminal, IsActive

LEMMA OneAlways ==
  ASSUME OneWorker
  PROVE  Spec => []OneInv
BY InitOne, StepOne, PTL DEF Spec

\* With one worker process, as deployed, a child run is executed only after
\* its parent has ended.
THEOREM ChildrenWait ==
  ASSUME OneWorker
  PROVE  Spec => []ChildAfterParent
<1>1. OneInv => ChildAfterParent
  BY DEF OneInv, HeldAfterParent, ChildAfterParent, Executing
<1> QED BY <1>1, OneAlways, PTL

\* With one worker process only a cancel request overturns a verdict, whatever
\* crashes, exceptions, requeues and duplicate rows there were.
THEOREM OnlyCancelsOverturn ==
  ASSUME OneWorker
  PROVE  Spec => OnlyCancelOverturns
<1>1. OneInv /\ [Next]_vars =>
         [\A r \in Runs : IsTerminal(r) /\ run'[r].status # run[r].status
             => run'[r].cancel]_vars
  BY StepCancelOverturns
<1>2. Spec => [][Next]_vars
  BY DEF Spec
<1> QED BY <1>1, <1>2, OneAlways, PTL DEF OnlyCancelOverturns

\* A run with more retries than are allowed is over, and nobody acts on it.
RetriesHold ==
    /\ \A r \in Runs : run[r].retry > MaxRetries => IsTerminal(r)
    /\ \A w \in Workers : worker[w].pc \in AtRisk => run[Held(w)].retry <= MaxRetries

LEMMA StepRetries ==
  ASSUME OneWorker, OneInv, RetriesHold, [Next]_vars
  PROVE  RetriesHold'
<1> USE DEF OneInv
<1>0. MaxRetries \in Nat /\ \A r \in Runs : run[r].retry \in Nat /\ run'[r].retry \in Nat
  BY StepFates, BoundsAssumption DEF Fate
<1>1. ASSUME NEW r \in Runs, run'[r].retry > MaxRetries
      PROVE  run'[r].status \in RunTerminal
  <2>1. Fate(r)
    BY StepFates
  <2>2. CASE run'[r].retry = run[r].retry
    <3>1. IsTerminal(r)
      BY <1>1, <2>2 DEF RetriesHold
    <3>2. ~Begun(r)
      BY <1>0, <1>1, <2>2 DEF Begun, RetriesHold, AtRisk
    <3> QED BY <2>1, <3>1, <3>2
            DEF Fate, Untouched, Created, SentBack, Over, IsTerminal, IsActive, RunTerminal,
                RunActive, Unborn
  <2>3. CASE run'[r].retry # run[r].retry
    BY <1>0, <1>1, <2>1, <2>3 DEF Fate, Counted
  <2> QED BY <2>2, <2>3
<1>2. ASSUME NEW w \in Workers, worker'[w].pc \in AtRisk
      PROVE  run'[worker'[w].run].retry <= MaxRetries
  <2> DEFINE r == Held(w)
  <2>1. worker'[w].pc # "idle"
    BY <1>2 DEF AtRisk, Executing
  <2>2. /\ worker[w].pc # "idle" /\ worker'[w].run = r
        /\ worker[w].pc \in AtRisk \/ (run[r].status = "queued" /\ run' = run)
    BY <1>2, <2>1, WorkerReads
  <2>3. r \in Runs /\ Fate(r)
    BY <2>2, HeldIsBorn, StepFates
  <2>4. CASE worker[w].pc \in AtRisk
    <3>1. run[r].retry <= MaxRetries
      BY <2>4 DEF RetriesHold
    <3>2. \A v \in Workers : worker[v].pc # "raised"
      BY <2>4 DEF OneWorker, AtRisk, Executing
    <3> QED BY <2>2, <2>3, <3>1, <3>2 DEF Fate, Counted
  <2>5. CASE run[r].status = "queued" /\ run' = run
    <3>1. ~IsTerminal(r)
      BY <2>5 DEF IsTerminal, RunTerminal
    <3> QED BY <1>0, <2>2, <2>3, <2>5, <3>1 DEF RetriesHold
  <2> QED BY <2>2, <2>4, <2>5
<1> QED BY <1>1, <1>2 DEF RetriesHold, IsTerminal, Held

\* With one worker process a run that is queued or running was retried at most
\* MaxRetries times, whatever crashes, exceptions, late cancels and duplicate
\* rows there were (worker.py, scan_stalled and _settle_outbox): the scan
\* cannot send it back for ever.  With two, one of them may begin a run the
\* other has just given up, which raised its count once more.
RetriesAreCounted == \A r \in Runs : IsActive(r) => run[r].retry <= MaxRetries
THEOREM RetriesAreBounded ==
  ASSUME OneWorker
  PROVE  Spec => []RetriesAreCounted
<1>1. Init => RetriesHold
  BY BoundsAssumption DEF Init, RetriesHold, Idle, AtRisk, Executing, NewRun
<1>2. OneInv /\ RetriesHold => RetriesAreCounted
  <2> SUFFICES ASSUME OneInv, RetriesHold, NEW r \in Runs, IsActive(r)
               PROVE  run[r].retry <= MaxRetries
    BY DEF RetriesAreCounted
  <2>1. ~IsTerminal(r)
    BY DEF IsActive, IsTerminal, RunActive, RunTerminal
  <2>2. run[r].retry \in Nat /\ MaxRetries \in Nat
    BY BoundsAssumption DEF OneInv, CarrierInv, TInv, TypeOK, RunRecord
  <2> QED BY <2>1, <2>2 DEF RetriesHold
<1> QED BY <1>1, <1>2, StepRetries, OneAlways, PTL DEF Spec
=============================================================================
