------------------------- MODULE RoomLifecycleProofs ------------------------
(* Theorems about RoomLifecycle and about the outing a room publishes       *)
(* (RoomRules), for any clients, themes, members, activities and bounds.    *)
EXTENDS RoomLifecycle, RoomRules, FiniteSetTheorems, SequenceTheorems, TLAPS

TInv == TypeOK /\ IsFiniteSet(plans)

\* A request keeps its type whatever program counter it moves to.
LEMMA GotoType ==
  ASSUME TypeOK, NEW c \in Clients, NEW pc \in PC, Goto(c, pc)
  PROVE  req' \in [Clients -> Request]
  BY DEF TypeOK, Goto, Request

LEMMA LeaveType ==
  ASSUME TypeOK, NEW c \in Clients, Leave(c)
  PROVE  req' \in [Clients -> Request]
  BY DEF TypeOK, Leave, NoRequest, Request, PC, MaxWheelSpins

\* The lock belongs to the client at work, before and after one client moves.
WorkerLocks == \A c \in Clients : AtWork(c) <=> lock = c

\* A client that is at work neither before nor after its step leaves the
\* correspondence alone.
LEMMA IdleMove ==
  ASSUME TypeOK, NEW c \in Clients, ~ AtWork(c), ~ AtWork(c)',
         \A d \in Clients \ {c} : req'[d] = req[d], lock' = lock
  PROVE  WorkerLocks'
  BY DEF TypeOK, WorkerLocks, AtWork

\* So does one that stays at work.
LEMMA BusyMove ==
  ASSUME TypeOK, NEW c \in Clients, AtWork(c), AtWork(c)',
         \A d \in Clients \ {c} : req'[d] = req[d], lock' = lock
  PROVE  WorkerLocks'
  BY DEF TypeOK, WorkerLocks, AtWork

LEMMA InitTyped == Init => TInv
  <1> SUFFICES ASSUME Init PROVE TInv
    OBVIOUS
  <1>1. room \in Room /\ graph \in Graph /\ asked \in 0..MaxRequests
    BY BoundsAssumption DEF Init, Room, Graph, Status, MaxWheelSpins
  <1>2. req \in [Clients -> Request]
    BY DEF Init, NoRequest, Request, PC, MaxWheelSpins
  <1>3. WorkerLocks
    BY ClientsAssumption DEF Init, WorkerLocks, AtWork, NoRequest
  <1>4. plans = {} /\ IsFiniteSet(plans)
    BY FS_EmptySet DEF Init
  <1> QED BY <1>1, <1>2, <1>3, <1>4 DEF TInv, TypeOK, WorkerLocks, Init

\* Every step keeps the variables typed.
LEMMA StepTyped == TInv /\ [Next]_vars => TInv'
  <1> SUFFICES ASSUME TInv, [Next]_vars PROVE TInv'
    OBVIOUS
  <1> USE DEF TInv
  <1>0. CASE UNCHANGED vars
    BY <1>0 DEF vars, TypeOK, AtWork
  <1>1. CASE Crash
    <2>1. req' \in [Clients -> Request]
      BY <1>1 DEF Crash, NoRequest, Request, PC, MaxWheelSpins
    <2>2. lock' \in {"free", "orphan"}
      BY <1>1 DEF Crash, TypeOK
    <2>3. WorkerLocks'
      BY <1>1, <2>2, ClientsAssumption DEF Crash, WorkerLocks, AtWork, NoRequest
    <2> QED BY <1>1, <2>1, <2>2, <2>3 DEF Crash, TypeOK, WorkerLocks
  <1>2. CASE LockExpires
    BY <1>2, ClientsAssumption DEF LockExpires, TypeOK, AtWork
  <1>3. ASSUME NEW c \in Clients, Ask(c) PROVE TInv'
    <2>1. ~ AtWork(c) /\ asked' \in 0..MaxRequests
      BY <1>3, BoundsAssumption
         DEF Ask, ConfirmRead, BackRead, WheelRead, RecommendRead, SelectRead,
             Start, InFlight, AtWork, TypeOK
    <2>2. req' \in [Clients -> Request] /\ ~ AtWork(c)'
            /\ \A d \in Clients \ {c} : req'[d] = req[d]
      <3>6. ASSUME NEW rec \in Request, req' = [req EXCEPT ![c] = rec],
                   rec.pc \in {"confirming", "spinning", "waiting"}
            PROVE  /\ req' \in [Clients -> Request] /\ ~ AtWork(c)'
                   /\ \A d \in Clients \ {c} : req'[d] = req[d]
        BY <3>6 DEF TypeOK, AtWork
      <3>1. CASE ConfirmRead(c)
        <4>1. PICK t \in Themes :
                req' = [req EXCEPT ![c] = [req[c] EXCEPT !.pc = "confirming",
                                                        !.theme = t]]
          BY <3>1 DEF ConfirmRead, TypeOK
        <4>2. [req[c] EXCEPT !.pc = "confirming", !.theme = t] \in Request
              /\ [req[c] EXCEPT !.pc = "confirming", !.theme = t].pc = "confirming"
          BY DEF TypeOK, Request, PC
        <4> QED BY <4>1, <4>2, <3>6
      <3>2. CASE BackRead(c)
        BY <3>2 DEF BackRead, Goto, TypeOK, Request, PC, AtWork
      <3>3. CASE WheelRead(c)
        <4>1. req' = [req EXCEPT ![c] = [req[c] EXCEPT !.pc = "spinning",
                                                      !.spins = room.spins]]
          BY <3>3 DEF WheelRead, TypeOK
        <4>0. room.spins \in 0..MaxWheelSpins - 1
          BY <3>3 DEF WheelRead, TypeOK, Room, MaxWheelSpins
        <4>2. [req[c] EXCEPT !.pc = "spinning", !.spins = room.spins] \in Request
              /\ [req[c] EXCEPT !.pc = "spinning", !.spins = room.spins].pc = "spinning"
          BY <4>0 DEF TypeOK, Request, PC
        <4> QED BY <4>1, <4>2, <3>6
      <3>4. CASE RecommendRead(c)
        <4>1. req' = [req EXCEPT ![c] = [req[c] EXCEPT !.pc = "waiting",
                                                      !.theme = room.theme]]
          BY <3>4 DEF RecommendRead, TypeOK
        <4>2. [req[c] EXCEPT !.pc = "waiting", !.theme = room.theme] \in Request
              /\ [req[c] EXCEPT !.pc = "waiting", !.theme = room.theme].pc = "waiting"
          BY DEF TypeOK, Room, Request, PC
        <4> QED BY <4>1, <4>2, <3>6
      <3>5. CASE SelectRead(c)
        BY <3>5, ZenonT(40) DEF SelectRead, TypeOK, Request, PC, AtWork
      <3> QED BY <1>3, <3>1, <3>2, <3>3, <3>4, <3>5 DEF Ask
    <2>3. UNCHANGED <<room, graph, plans, lock>>
      BY <1>3 DEF Ask, ConfirmRead, BackRead, WheelRead, RecommendRead, SelectRead
    <2>4. WorkerLocks'
      BY <2>1, <2>2, <2>3, IdleMove
    <2> QED BY <2>1, <2>2, <2>3, <2>4 DEF TypeOK, WorkerLocks
  <1>4. ASSUME NEW c \in Clients, Serve(c) PROVE TInv'
    <2>1. CASE ConfirmWrite(c)
      <3>1. req' \in [Clients -> Request] /\ WorkerLocks'
        BY <2>1, LeaveType, IdleMove DEF ConfirmWrite, Leave, AtWork, NoRequest, TypeOK
      <3>2. room' \in [status : Status, theme : Themes \cup {NoTheme}, spins : 0..MaxWheelSpins]
        BY <2>1 DEF ConfirmWrite, TypeOK, Room, Request, Status
      <3> QED BY <2>1, <3>1, <3>2 DEF ConfirmWrite, TypeOK, WorkerLocks, Room
    <2>2. CASE BackWrite(c)
      <3>1. req' \in [Clients -> Request] /\ WorkerLocks'
        BY <2>2, LeaveType, IdleMove DEF BackWrite, Leave, AtWork, NoRequest, TypeOK
      <3>2. room' \in Room
        BY <2>2 DEF BackWrite, TypeOK, Room, Status
      <3> QED BY <2>2, <3>1, <3>2 DEF BackWrite, TypeOK, WorkerLocks
    <2>3. CASE WheelWrite(c)
      <3>1. req' \in [Clients -> Request] /\ WorkerLocks'
        BY <2>3, LeaveType, IdleMove DEF WheelWrite, Leave, AtWork, NoRequest, TypeOK
      <3>2. req[c].spins + 1 \in 0..MaxWheelSpins
        BY <2>3 DEF WheelWrite, TypeOK, Request, MaxWheelSpins
      <3>3. room' \in Room
        BY <2>3, <3>2 DEF WheelWrite, TypeOK, Room
      <3> QED BY <2>3, <3>1, <3>2, <3>3 DEF WheelWrite, TypeOK, WorkerLocks
    <2>4. CASE SelectWrite(c)
      <3>1. req' \in [Clients -> Request]
        BY <2>4, GotoType DEF SelectWrite, PC
      <3>2. WorkerLocks'
        BY <2>4, IdleMove DEF SelectWrite, Goto, AtWork, TypeOK
      <3>3. room' \in Room
        BY <2>4 DEF SelectWrite, TypeOK, Room, Status
      <3> QED BY <2>4, <3>1, <3>2, <3>3 DEF SelectWrite, TypeOK, WorkerLocks
    <2>5. CASE TakeLock(c)
      <3>1. req' \in [Clients -> Request]
        BY <2>5, GotoType DEF TakeLock, PC
      <3>2. WorkerLocks'
        BY <2>5, ClientsAssumption
           DEF TakeLock, LockFree, Goto, WorkerLocks, AtWork, TypeOK
      <3> QED BY <2>5, <3>1, <3>2 DEF TakeLock, TypeOK, WorkerLocks
    <2>6. CASE RoomBusy(c)
      <3>1. req' \in [Clients -> Request] /\ WorkerLocks'
        BY <2>6, LeaveType, IdleMove DEF RoomBusy, Leave, AtWork, NoRequest, TypeOK
      <3> QED BY <2>6, <3>1 DEF RoomBusy, TypeOK, WorkerLocks
    <2>7. CASE GraphStart(c)
      <3>1. req' \in [Clients -> Request]
        BY <2>7, GotoType DEF GraphStart, PC
      <3>2. WorkerLocks'
        BY <2>7, BusyMove DEF GraphStart, Goto, AtWork, TypeOK
      <3>3. graph' \in Graph
        BY <2>7 DEF GraphStart, TypeOK, Graph, Request
      <3> QED BY <2>7, <3>1, <3>2, <3>3 DEF GraphStart, TypeOK, WorkerLocks
    <2>8. CASE GraphResume(c)
      <3>1. req' \in [Clients -> Request]
        BY <2>8, GotoType DEF GraphResume, PC
      <3>2. WorkerLocks'
        BY <2>8, BusyMove DEF GraphResume, Goto, AtWork, TypeOK
      <3>3. graph' \in Graph
        BY <2>8 DEF GraphResume, TypeOK, Graph
      <3> QED BY <2>8, <3>1, <3>2, <3>3 DEF GraphResume, TypeOK, WorkerLocks
    <2>9. ASSUME Release(c), AtWork(c)
          PROVE  req' \in [Clients -> Request] /\ WorkerLocks' /\ lock' = "free"
      <3>1. req' \in [Clients -> Request]
        BY <2>9, LeaveType DEF Release
      <3>2. \A d \in Clients : lock' # d
        BY <2>9, ClientsAssumption DEF Release
      <3>3. \A d \in Clients : ~ AtWork(d)'
        BY <2>9 DEF Release, Leave, NoRequest, AtWork, TypeOK
      <3> QED BY <2>9, <3>1, <3>2, <3>3 DEF WorkerLocks, Release
    <2>10. CASE GraphPause(c) \/ PausesAgain(c) \/ PublishFails(c)
      <3>1. Release(c) /\ AtWork(c)
        BY <2>10 DEF GraphPause, PausesAgain, PublishFails, AtWork
      <3>2. graph' \in Graph
        BY <2>10 DEF GraphPause, PausesAgain, PublishFails, TypeOK, Graph
      <3>3. UNCHANGED <<room, plans, asked>>
        BY <2>10 DEF GraphPause, PausesAgain, PublishFails
      <3> QED BY <2>9, <3>1, <3>2, <3>3 DEF TypeOK, WorkerLocks
    <2>11. CASE RecommendStops(c) \/ NothingToResume(c) \/ PlanRaises(c)
      <3>1. Release(c) /\ AtWork(c)
        BY <2>11 DEF RecommendStops, NothingToResume, PlanRaises, AtWork
      <3>2. UNCHANGED <<room, graph, plans, asked>>
        BY <2>11 DEF RecommendStops, NothingToResume, PlanRaises
      <3> QED BY <2>9, <3>1, <3>2 DEF TypeOK, WorkerLocks
    <2>12. CASE Publish(c)
      <3>1. Release(c) /\ AtWork(c)
        BY <2>12 DEF Publish, AtWork
      <3>2. graph' \in Graph /\ room' \in Room
        BY <2>12 DEF Publish, TypeOK, Graph, Room, Status
      <3>3. Cardinality(plans) + 1 \in Nat
        BY FS_CardinalityType
      <3>4. plans' \subseteq Plan /\ IsFiniteSet(plans')
        <4> DEFINE p == [version |-> Cardinality(plans) + 1,
                         start |-> graph.start, theme |-> graph.theme]
        <4>1. p \in Plan
          BY <3>3 DEF TypeOK, Plan, Graph
        <4>2. plans' = plans \cup {p}
          BY <2>12 DEF Publish, Saves
        <4> HIDE DEF p
        <4>3. IsFiniteSet(plans \cup {p})
          BY FS_AddElement
        <4> QED BY <4>1, <4>2, <4>3 DEF TypeOK
      <3>5. UNCHANGED asked
        BY <2>12 DEF Publish
      <3> QED BY <2>9, <3>1, <3>2, <3>4, <3>5 DEF TypeOK, WorkerLocks
    <2> QED BY <1>4, <2>1, <2>2, <2>3, <2>4, <2>5, <2>6, <2>7, <2>8, <2>10,
               <2>11, <2>12 DEF Serve
  <1> QED BY <1>0, <1>1, <1>2, <1>3, <1>4 DEF Next

\* The variables keep their shapes, and exactly the request that drives the
\* graph holds the room's lock.
THEOREM TypeCorrect == Spec => []TypeOK
  <1>1. TInv => TypeOK
    BY DEF TInv
  <1> QED BY InitTyped, StepTyped, <1>1, PTL DEF Spec
------------------------------------------------------------------------
(* One publication per recommendation.                                      *)

\* Itineraries come from recommendations that have started.
FromStarted == \A p \in plans : p.start <= graph.start

\* Once the current recommendation is published, its thread has ended.
PublishedEnds == \A p \in plans : p.start = graph.start => graph.at = "ended"

\* Where the graph stands while a request drives it.
DrivesFrom ==
    \A c \in Clients :
        /\ req[c].pc = "planning" => graph.at = "chosen"
        /\ req[c].pc = "researching" => graph.at = "started"

OnceInv == TInv /\ PublishedOnce /\ FromStarted /\ PublishedEnds /\ DrivesFrom

LEMMA InitOnce == Init => OnceInv
  <1> SUFFICES ASSUME Init PROVE OnceInv
    OBVIOUS
  <1>1. DrivesFrom
    BY DEF Init, DrivesFrom, NoRequest
  <1>2. plans = {}
    BY DEF Init
  <1> QED BY InitTyped, <1>1, <1>2
          DEF OnceInv, PublishedOnce, FromStarted, PublishedEnds

\* While graph and plans stay, no request may move into the graph.
LEMMA GraphStays ==
  ASSUME OnceInv, UNCHANGED <<graph, plans>>,
         \A c \in Clients : req'[c].pc \in {"planning", "researching"}
                              => req'[c].pc = req[c].pc
  PROVE  (PublishedOnce /\ FromStarted /\ PublishedEnds /\ DrivesFrom)'
  BY DEF OnceInv, PublishedOnce, FromStarted, PublishedEnds, DrivesFrom

LEMMA StepOnce == OnceInv /\ [Next]_vars => OnceInv'
  <1> SUFFICES ASSUME OnceInv, [Next]_vars
               PROVE  (PublishedOnce /\ FromStarted /\ PublishedEnds /\ DrivesFrom)'
    BY StepTyped DEF OnceInv
  <1> USE DEF OnceInv, TInv
  <1>0. CASE UNCHANGED vars
    BY <1>0, GraphStays DEF vars
  <1>1. CASE Crash \/ LockExpires
    BY <1>1, GraphStays DEF Crash, LockExpires, NoRequest
  <1>2. ASSUME NEW c \in Clients, Ask(c)
        PROVE  (PublishedOnce /\ FromStarted /\ PublishedEnds /\ DrivesFrom)'
    <2>1. \A d \in Clients : req'[d].pc \in {"planning", "researching"}
                              => req'[d].pc = req[d].pc
      BY <1>2 DEF Ask, ConfirmRead, BackRead, WheelRead, RecommendRead, SelectRead,
                  Goto, TypeOK, Request
    <2>2. UNCHANGED <<graph, plans>>
      BY <1>2 DEF Ask, ConfirmRead, BackRead, WheelRead, RecommendRead, SelectRead
    <2> QED BY <2>1, <2>2, GraphStays
  <1>3. ASSUME NEW c \in Clients, Serve(c)
        PROVE  (PublishedOnce /\ FromStarted /\ PublishedEnds /\ DrivesFrom)'
    <2>1. CASE ConfirmWrite(c) \/ BackWrite(c) \/ WheelWrite(c) \/ SelectWrite(c)
                 \/ TakeLock(c) \/ RoomBusy(c)
      <3>1. \A d \in Clients : req'[d].pc \in {"planning", "researching"}
                                => req'[d].pc = req[d].pc
        <4>1. CASE Leave(c)
          BY <4>1 DEF Leave, NoRequest, TypeOK
        <4>2. CASE \E pc \in {"waiting", "starting", "resuming"} : Goto(c, pc)
          BY <4>2 DEF Goto, TypeOK
        <4> QED
          BY <2>1, <4>1, <4>2 DEF ConfirmWrite, BackWrite, WheelWrite, SelectWrite,
                                  TakeLock, RoomBusy
      <3>2. UNCHANGED <<graph, plans>>
        BY <2>1 DEF ConfirmWrite, BackWrite, WheelWrite, SelectWrite, TakeLock,
                    RoomBusy
      <3> QED BY <3>1, <3>2, GraphStays
    <2>2. CASE RecommendStops(c) \/ NothingToResume(c) \/ PlanRaises(c)
      <3>1. \A d \in Clients : req'[d].pc \in {"planning", "researching"}
                                => req'[d].pc = req[d].pc
        BY <2>2 DEF RecommendStops, NothingToResume, PlanRaises, Release, Leave,
                    NoRequest, TypeOK
      <3>2. UNCHANGED <<graph, plans>>
        BY <2>2 DEF RecommendStops, NothingToResume, PlanRaises
      <3> QED BY <3>1, <3>2, GraphStays
    <2>3. AtWork(c) => \A d \in Clients \ {c} : ~ AtWork(d)
      BY DEF TypeOK
    <2>4. ASSUME AtWork(c), \A d \in Clients \ {c} : req'[d] = req[d]
          PROVE  \A d \in Clients \ {c} : req'[d].pc \notin {"planning", "researching"}
      BY <2>3, <2>4 DEF AtWork
    <2>5. CASE GraphStart(c)
      <3>1. graph'.start = graph.start + 1 /\ graph'.at = "started" /\ plans' = plans
        BY <2>5 DEF GraphStart
      <3>2. \A p \in plans : p.start \in Nat /\ graph.start \in Nat
        BY DEF TypeOK, Plan, Graph
      <3>3. \A p \in plans : p.start < graph'.start
        BY <3>1, <3>2 DEF FromStarted
      <3>4. \A d \in Clients : req'[d].pc # "planning"
        BY <2>5, <2>4 DEF GraphStart, Goto, AtWork, TypeOK
      <3> QED BY <3>1, <3>2, <3>3, <3>4
              DEF PublishedOnce, FromStarted, PublishedEnds, DrivesFrom
    <2>6. CASE GraphPause(c) \/ PausesAgain(c)
      <3>1. graph'.start = graph.start /\ plans' = plans /\ graph.at = "started"
        BY <2>6 DEF GraphPause, PausesAgain, DrivesFrom, TypeOK, Graph
      <3>2. \A p \in plans : p.start # graph.start
        BY <3>1 DEF PublishedEnds
      <3>3. \A d \in Clients : req'[d].pc \notin {"planning", "researching"}
        BY <2>6, <2>4
           DEF GraphPause, PausesAgain, Release, Leave, NoRequest, AtWork, TypeOK
      <3> QED BY <3>1, <3>2, <3>3
              DEF PublishedOnce, FromStarted, PublishedEnds, DrivesFrom
    <2>7. CASE GraphResume(c)
      <3>1. graph'.start = graph.start /\ plans' = plans /\ graph.at # "ended"
              /\ graph'.at = "chosen"
        BY <2>7 DEF GraphResume, Resumable, TypeOK, Graph
      <3>2. \A p \in plans : p.start # graph.start
        BY <3>1 DEF PublishedEnds
      <3>3. \A d \in Clients : req'[d].pc # "researching"
        BY <2>7, <2>4 DEF GraphResume, Goto, AtWork, TypeOK
      <3> QED BY <3>1, <3>2, <3>3
              DEF PublishedOnce, FromStarted, PublishedEnds, DrivesFrom
    <2>8. ASSUME req[c].pc = "planning"
          PROVE  graph.at = "chosen" /\ \A p \in plans : p.start # graph.start
      BY <2>8 DEF DrivesFrom, PublishedEnds
    <2>9. ASSUME req[c].pc = "planning", Release(c)
          PROVE  \A d \in Clients : req'[d].pc \notin {"planning", "researching"}
      BY <2>4, <2>9 DEF Release, Leave, NoRequest, AtWork, TypeOK
    <2>10. CASE PublishFails(c)
      <3>1. graph'.start = graph.start /\ plans' = plans /\ req[c].pc = "planning"
              /\ Release(c)
        BY <2>10 DEF PublishFails, TypeOK, Graph
      <3> QED BY <3>1, <2>8, <2>9
              DEF PublishedOnce, FromStarted, PublishedEnds, DrivesFrom
    <2>11. CASE Publish(c)
      <3> DEFINE n == [version |-> Cardinality(plans) + 1,
                       start |-> graph.start, theme |-> graph.theme]
      <3>1. graph'.start = graph.start /\ graph'.at = "ended"
              /\ req[c].pc = "planning" /\ Release(c)
        BY <2>11 DEF Publish, TypeOK, Graph
      <3>2. plans' = plans \cup {n}
        BY <2>11 DEF Publish, Saves
      <3>3. n.start = graph.start /\ graph.start \in Nat
        BY DEF TypeOK, Graph
      <3> HIDE DEF n
      <3>4. PublishedOnce'
        BY <3>1, <3>2, <3>3, <2>8 DEF PublishedOnce
      <3>5. FromStarted' /\ PublishedEnds'
        BY <3>1, <3>2, <3>3 DEF FromStarted, PublishedEnds
      <3>6. DrivesFrom'
        BY <3>1, <2>9 DEF DrivesFrom
      <3> QED BY <3>4, <3>5, <3>6
    <2> QED BY <1>3, <2>1, <2>2, <2>5, <2>6, <2>7, <2>10, <2>11 DEF Serve
  <1> QED BY <1>0, <1>1, <1>2, <1>3 DEF Next

\* However many members select an activity at once, and whatever stops in
\* between, a recommendation is published at most once.
THEOREM OnePublication == Spec => []PublishedOnce
  <1>1. OnceInv => PublishedOnce
    BY DEF OnceInv
  <1> QED BY InitOnce, StepOnce, <1>1, PTL DEF Spec

-----------------------------------------------------------------------------
(* Only the publish node publishes a room, and never without an itinerary.  *)

\* A thread that has a checkpoint was started by a recommendation.
CheckpointWasStarted == graph.at # "none" => graph.start >= 1

PublishedInv == OnceInv /\ PublishedHasPlan /\ CheckpointWasStarted

LEMMA InitPublished == Init => PublishedInv
  BY InitOnce DEF Init, PublishedInv, PublishedHasPlan, CheckpointWasStarted

\* A step that saves no itinerary and does not publish keeps the invariant.
LEMMA NothingPublished ==
  ASSUME PublishedInv, plans' = plans, room'.status \in {room.status} \cup
             {"RECOMMENDING", "THEME_SELECTING", "PLANNING"},
         \/ graph' = graph
         \/ graph'.start = graph.start /\ graph.at # "none"
         \/ graph'.start = graph.start + 1
  PROVE  PublishedHasPlan' /\ CheckpointWasStarted'
  <1>1. graph.start \in Nat /\ \A p \in plans : p.start \in Nat
    BY DEF PublishedInv, OnceInv, TInv, TypeOK, Graph, Plan
  <1>2. graph'.start \in Nat /\ graph.start <= graph'.start
    BY <1>1
  <1>3. CheckpointWasStarted'
    BY <1>1 DEF PublishedInv, CheckpointWasStarted
  <1>4. \A p \in plans : p.start \in 1..graph'.start
    BY <1>1, <1>2 DEF PublishedInv, PublishedHasPlan
  <1> QED BY <1>3, <1>4 DEF PublishedInv, PublishedHasPlan

LEMMA StepPublished == PublishedInv /\ [Next]_vars => PublishedInv'
  <1> SUFFICES ASSUME PublishedInv, [Next]_vars
               PROVE  PublishedHasPlan' /\ CheckpointWasStarted'
    BY StepOnce DEF PublishedInv
  <1>0. room \in Room /\ graph \in Graph
    BY DEF PublishedInv, OnceInv, TInv, TypeOK
  <1>1. CASE UNCHANGED vars
    BY <1>1, NothingPublished DEF vars
  <1>2. CASE Crash \/ LockExpires
    BY <1>2, NothingPublished DEF Crash, LockExpires
  <1>3. ASSUME NEW c \in Clients, Ask(c)
        PROVE  PublishedHasPlan' /\ CheckpointWasStarted'
    BY <1>3, NothingPublished
       DEF Ask, ConfirmRead, BackRead, WheelRead, RecommendRead, SelectRead
  <1>4. ASSUME NEW c \in Clients, Serve(c)
        PROVE  PublishedHasPlan' /\ CheckpointWasStarted'
    <2>1. CASE ConfirmWrite(c) \/ BackWrite(c) \/ WheelWrite(c) \/ SelectWrite(c)
      <3>1. graph' = graph /\ plans' = plans
        BY <2>1 DEF ConfirmWrite, BackWrite, WheelWrite, SelectWrite
      <3>2. room'.status \in {room.status} \cup
                {"RECOMMENDING", "THEME_SELECTING", "PLANNING"}
        BY <2>1, <1>0 DEF ConfirmWrite, BackWrite, WheelWrite, SelectWrite, Room
      <3> QED BY <3>1, <3>2, NothingPublished
    <2>2. CASE TakeLock(c) \/ RoomBusy(c) \/ RecommendStops(c)
                 \/ NothingToResume(c) \/ PlanRaises(c)
      BY <2>2, NothingPublished
         DEF TakeLock, RoomBusy, RecommendStops, NothingToResume, PlanRaises
    <2>3. CASE GraphStart(c)
      <3>1. graph'.start = graph.start + 1 /\ plans' = plans /\ room' = room
        BY <2>3 DEF GraphStart
      <3> QED BY <3>1, NothingPublished
    <2>4. CASE GraphPause(c) \/ GraphResume(c) \/ PausesAgain(c) \/ PublishFails(c)
      <3>1. graph'.start = graph.start /\ plans' = plans /\ room' = room
        BY <2>4, <1>0 DEF GraphPause, GraphResume, PausesAgain, PublishFails, Graph
      <3>2. graph.at # "none"
        BY <2>4 DEF GraphPause, GraphResume, PausesAgain, PublishFails, Resumable,
                    PublishedInv, OnceInv, DrivesFrom
      <3> QED BY <3>1, <3>2, NothingPublished
    <2>5. CASE Publish(c)
      <3> DEFINE n == [version |-> Cardinality(plans) + 1,
                       start |-> graph.start, theme |-> graph.theme]
      <3>1. graph.at = "chosen" /\ graph.start >= 1 /\ graph.start \in Nat
        BY <2>5, <1>0 DEF Publish, PublishedInv, OnceInv, DrivesFrom,
                          CheckpointWasStarted, Graph
      <3>2. plans' = plans \cup {n} /\ n.start = graph.start
        BY <2>5 DEF Publish, Saves
      <3>3. graph'.start = graph.start
        BY <2>5, <1>0 DEF Publish, Graph
      <3> HIDE DEF n
      <3> QED BY <3>1, <3>2, <3>3
              DEF PublishedInv, PublishedHasPlan, CheckpointWasStarted
    <2> QED BY <1>4, <2>1, <2>2, <2>3, <2>4, <2>5 DEF Serve
  <1> QED BY <1>1, <1>2, <1>3, <1>4 DEF Next

\* A published room has an itinerary, and every itinerary comes from a
\* recommendation the room's graph has run.
THEOREM PublicationsHavePlans == Spec => []PublishedHasPlan
  <1>1. PublishedInv => PublishedHasPlan
    BY DEF PublishedInv
  <1> QED BY InitPublished, StepPublished, <1>1, PTL DEF Spec

-----------------------------------------------------------------------------
(* The outing: numbers and positions.                                       *)

\* A finite set of numbers has a greatest and a least element.
LEMMA HasMax ==
  ASSUME NEW S \in SUBSET Int, IsFiniteSet(S), S # {}
  PROVE  Max(S) \in S /\ \A y \in S : y <= Max(S)
<1> DEFINE Above(x) == {y \in S : y > x}
           T == {Above(x) : x \in S}
           R == StrictSubsetOrdering(S)
<1>1. IsWellFoundedOn(R, FiniteSubsetsOf(S))
  BY FS_StrictSubsetOrderingWellFounded
<1>2. T \subseteq FiniteSubsetsOf(S) /\ T # {}
  <2>1. \A x \in S : Above(x) \in SUBSET S /\ IsFiniteSet(Above(x))
    BY FS_Subset
  <2> QED BY <2>1 DEF FiniteSubsetsOf
<1>3. PICK U \in T : \A V \in T : ~ (<<V, U>> \in R)
  <2> HIDE DEF T, R
  <2> QED BY <1>1, <1>2, WFMin
<1>4. PICK x \in S : U = Above(x)
  OBVIOUS
<1>5. \A y \in S : y <= x
  <2> SUFFICES ASSUME NEW y \in S, y > x PROVE FALSE
    OBVIOUS
  <2>1. Above(y) \subseteq U /\ y \in U /\ y \notin Above(y) /\ Above(y) \in T
    <3>1. x \in Int /\ y \in Int /\ U = {z \in S : z > x}
      BY <1>4
    <3>2. \A z \in Above(y) : z \in S /\ z \in Int /\ z > y
      OBVIOUS
    <3>3. Above(y) \in T
      OBVIOUS
    <3>4. Above(y) \subseteq U
      <4> SUFFICES ASSUME NEW z \in Above(y) PROVE z \in S /\ z > x
        BY <3>1
      <4>1. z \in S /\ z \in Int /\ z > y /\ y > x
        BY <3>2
      <4> QED BY <3>1, <4>1
    <3>5. y \in U /\ y \notin Above(y)
      BY <3>1
    <3> QED BY <3>3, <3>4, <3>5
  <2>2. Above(y) \in SUBSET S /\ U \in SUBSET S /\ Above(y) # U
    BY <1>4, <2>1
  <2>3. <<Above(y), U>> \in R
    BY <2>1, <2>2 DEF StrictSubsetOrdering
  <2> QED BY <1>3, <2>1, <2>3
<1>6. \E m \in S : \A y \in S : m >= y
  BY <1>5
<1>7. Max(S) \in S /\ \A y \in S : Max(S) >= y
  BY <1>6 DEF Max
<1> QED BY <1>7

\* (The least of the numbers is minus the greatest of their opposites.)
LEMMA HasMin ==
  ASSUME NEW S \in SUBSET Int, IsFiniteSet(S), S # {}
  PROVE  Min(S) \in S /\ \A y \in S : Min(S) <= y
<1> DEFINE M == {-x : x \in S}
           f == [x \in S |-> -x]
<1>1. M \in SUBSET Int /\ M # {} /\ f \in Surjection(S, M)
  <2>1. M \in SUBSET Int /\ M # {}
    <3>1. \A x \in S : x \in Int /\ -x \in Int /\ -x \in M
      OBVIOUS
    <3>2. \E x \in S : -x \in M
      BY <3>1
    <3> QED BY <3>1, <3>2
  <2>2. f \in [S -> M] /\ \A m \in M : \E x \in S : f[x] = m
    OBVIOUS
  <2> HIDE DEF M, f
  <2> QED BY <2>1, <2>2 DEF Surjection
<1>2. IsFiniteSet(M)
  BY <1>1, FS_Surjection
<1>3. PICK m \in M : \A y \in M : y <= m
  BY <1>1, <1>2, HasMax
<1>4. PICK x \in S : m = -x
  BY <1>3
<1>5. \A y \in S : x <= y
  BY <1>3, <1>4
<1> QED BY <1>5 DEF Min

\* A set of positions of a sequence has a least one.
LEMMA LeastIndex ==
  ASSUME NEW n \in Nat, NEW I \in SUBSET (1 .. n), I # {}
  PROVE  Min(I) \in I /\ \A j \in I : Min(I) <= j
<1>1. IsFiniteSet(1 .. n)
  BY FS_Interval
<1>2. IsFiniteSet(I)
  BY <1>1, FS_Subset
<1>3. I \in SUBSET Int
  OBVIOUS
<1> QED BY <1>2, <1>3, HasMin

\* _find_node returns the first node of the kind, and 0 only if there is none.
LEMMA FoundNode ==
  ASSUME NEW nodes, NEW kind, Len(nodes) \in Nat
  PROVE  LET i == FindNode(nodes, kind)
             I == {j \in 1 .. Len(nodes) : nodes[j].kind = kind}
         IN  IF I = {} THEN i = 0 ELSE i \in I /\ \A j \in I : i <= j
<1> DEFINE I == {j \in 1 .. Len(nodes) : nodes[j].kind = kind}
<1>1. FindNode(nodes, kind) = IF I # {} THEN Min(I) ELSE 0
  BY DEF FindNode, SelectInSeq
<1>2. I # {} => Min(I) \in I /\ \A j \in I : Min(I) <= j
  BY LeastIndex
<1> QED BY <1>1, <1>2

-----------------------------------------------------------------------------
(* The wheel.                                                               *)

\* The wheel respects what the members exclude, and lands on a theme all of them
\* dislike only if none is left that nobody dislikes: such a theme's weight is
\* at most 0, that one's is positive.
LEMMA WheelSuits ==
  ASSUME NEW members \in Groups
  PROVE  ThemeSuits(members)
<1> DEFINE N == Len(members)
           Like(x) == {i \in DOMAIN members : x \in members[i].likes}
           Dislike(x) == {i \in DOMAIN members : x \in members[i].dislikes} \ Like(x)
           Rest(x) == DOMAIN members \ (Like(x) \cup Dislike(x))
<1>1. DOMAIN members = 1 .. N /\ N \in Nat \ {0}
  BY GroupsAssumption, EmptySeq
<1>2. IsFiniteSet(DOMAIN members) /\ Cardinality(DOMAIN members) = N
  BY <1>1, FS_Interval
<1>3. ASSUME NEW x
      PROVE  /\ Cardinality(Like(x)) \in Nat /\ Cardinality(Dislike(x)) \in Nat
             /\ Cardinality(Rest(x)) \in Nat
  BY <1>2, FS_Subset, FS_CardinalityType
<1>0. ASSUME NEW x
      PROVE  Weight(x, members)
               = 1 + 3 * Cardinality(Like(x)) - 2 * Cardinality(Dislike(x)) + Cardinality(Rest(x))
  BY DEF Weight
<1>4. ASSUME NEW x, \A i \in DOMAIN members : x \notin members[i].dislikes
      PROVE  Weight(x, members) > 0
  <2>1. Dislike(x) = {}
    BY <1>4
  <2>2. Cardinality(Dislike(x)) = 0
    BY <2>1, FS_EmptySet
  <2>3. /\ Weight(x, members)
             = 1 + 3 * Cardinality(Like(x)) - 2 * Cardinality(Dislike(x)) + Cardinality(Rest(x))
        /\ Cardinality(Like(x)) \in Nat /\ Cardinality(Rest(x)) \in Nat
    BY <1>0, <1>3
  <2> HIDE DEF Like, Dislike, Rest
  <2> QED BY <2>2, <2>3
<1>5. ASSUME NEW x, \A i \in DOMAIN members : x \in members[i].dislikes \ members[i].likes
      PROVE  ~ (Weight(x, members) > 0)
  <2>1. Like(x) = {} /\ Dislike(x) = DOMAIN members /\ Rest(x) = {}
    BY <1>5
  <2>2. Cardinality(Like(x)) = 0 /\ Cardinality(Dislike(x)) = N /\ Cardinality(Rest(x)) = 0
    BY <1>2, <2>1, FS_EmptySet
  <2>3. Weight(x, members)
          = 1 + 3 * Cardinality(Like(x)) - 2 * Cardinality(Dislike(x)) + Cardinality(Rest(x))
    BY <1>0
  <2> HIDE DEF Like, Dislike, Rest
  <2> QED BY <1>1, <2>2, <2>3
<1>6. ASSUME NEW t \in WheelThemes(members), t \in HardExcluded(members)
      PROVE  \A x \in CandidateThemes(members) : x \in HardExcluded(members)
  BY <1>6 DEF WheelThemes, Allowed
<1>7. ASSUME NEW t \in WheelThemes(members), NEW x \in Allowed(members),
             \A i \in DOMAIN members : t \in members[i].dislikes \ members[i].likes,
             \A i \in DOMAIN members : x \notin members[i].dislikes
      PROVE  FALSE
  <2>1. Weight(x, members) > 0 /\ ~ (Weight(t, members) > 0)
    BY <1>4, <1>5, <1>7
  <2> QED BY <2>1 DEF WheelThemes
<1> QED BY <1>6, <1>7 DEF ThemeSuits

-----------------------------------------------------------------------------
(* The window and the slot.                                                 *)

\* The members' departures and ends are finitely many numbers.
LEMMA Limits ==
  ASSUME NEW members \in Groups
  PROVE  LET starts == UNION {members[i].leave : i \in DOMAIN members}
             ends == UNION {members[i].back : i \in DOMAIN members}
         IN  /\ starts \in SUBSET Int /\ IsFiniteSet(starts)
             /\ ends \in SUBSET Int /\ IsFiniteSet(ends)
<1> DEFINE leaves == {members[i].leave : i \in DOMAIN members}
           backs == {members[i].back : i \in DOMAIN members}
<1>1. DOMAIN members = 1 .. Len(members) /\ Len(members) \in Nat
  BY GroupsAssumption
<1>2. IsFiniteSet(DOMAIN members)
  BY <1>1, FS_Interval
<1>3. \A i \in DOMAIN members : members[i].leave \in Time /\ members[i].back \in Time
  <2>1. \A i \in DOMAIN members : members[i] \in Profile
    BY GroupsAssumption
  <2> QED BY <2>1 DEF Profile
<1>4. ASSUME NEW x \in Time
      PROVE  x \in SUBSET Int /\ IsFiniteSet(x)
  <2>1. ASSUME NEW a \in x
        PROVE  x = {a}
    BY <2>1 DEF Time, Optional
  <2>2. IsFiniteSet(x)
    BY <2>1, FS_EmptySet, FS_Singleton, ZenonT(40)
  <2> QED BY <2>2 DEF Time, Optional
<1>5. IsFiniteSet(leaves)
  <2> DEFINE f == [i \in DOMAIN members |-> members[i].leave]
  <2>1. f \in Surjection(DOMAIN members, leaves)
    BY DEF Surjection
  <2> QED BY <1>2, <2>1, FS_Surjection
<1>6. IsFiniteSet(backs)
  <2> DEFINE f == [i \in DOMAIN members |-> members[i].back]
  <2>1. f \in Surjection(DOMAIN members, backs)
    BY DEF Surjection
  <2> QED BY <1>2, <2>1, FS_Surjection
<1>7. \A x \in leaves \cup backs : x \in SUBSET Int /\ IsFiniteSet(x)
  BY <1>3, <1>4
<1>8. IsFiniteSet(UNION leaves) /\ IsFiniteSet(UNION backs)
  BY <1>5, <1>6, <1>7, FS_UNION
<1> QED BY <1>7, <1>8

\* A window is bounded at both ends or at none; everyone can leave before it
\* opens and is back after it closes.
LEMMA WindowIs ==
  ASSUME NEW members \in Groups, CommonWindow(members).start # {}
  PROVE  LET window == CommonWindow(members)
         IN  \E a, b \in Int :
               /\ window.start = {a} /\ window.end = {b}
               /\ window.feasible => b - a >= 120
               /\ \A i \in DOMAIN members :
                    /\ \A t \in members[i].leave : t <= a
                    /\ \A t \in members[i].back : t \in Int /\ b <= t
<1> DEFINE starts == UNION {members[i].leave : i \in DOMAIN members}
           ends == UNION {members[i].back : i \in DOMAIN members}
<1>1. starts # {} /\ ends # {}
  BY DEF CommonWindow
<1>2. /\ Max(starts) \in starts /\ \A y \in starts : y <= Max(starts)
      /\ Min(ends) \in ends /\ \A y \in ends : Min(ends) <= y
      /\ Max(starts) \in Int /\ Min(ends) \in Int
  <2> HIDE DEF starts, ends
  <2>1. starts \in SUBSET Int /\ IsFiniteSet(starts) /\ ends \in SUBSET Int /\ IsFiniteSet(ends)
    BY Limits DEF starts, ends
  <2> QED BY <1>1, <2>1, HasMax, HasMin
<1>3. CommonWindow(members) = [start |-> {Max(starts)}, end |-> {Min(ends)},
                               feasible |-> Min(ends) - Max(starts) >= 120]
  BY <1>1 DEF CommonWindow
<1>4. \A i \in DOMAIN members : members[i].leave \subseteq starts /\ members[i].back \subseteq ends
  OBVIOUS
<1>5. \A t \in ends : t \in Int
  BY Limits
<1> DEFINE a == Max(starts)
           b == Min(ends)
<1> HIDE DEF starts, ends
<1>6. a \in Int /\ b \in Int
  BY <1>2
<1>7. \A i \in DOMAIN members :
        /\ \A t \in members[i].leave : t <= a
        /\ \A t \in members[i].back : t \in Int /\ b <= t
  BY <1>2, <1>4, <1>5
<1> HIDE DEF a, b
<1>8. CommonWindow(members) = [start |-> {a}, end |-> {b}, feasible |-> b - a >= 120]
  BY <1>3 DEF a, b
<1>9. CommonWindow(members).start = {a} /\ CommonWindow(members).end = {b}
        /\ (CommonWindow(members).feasible => b - a >= 120)
  <2> DEFINE B == b - a >= 120
  <2>1. CommonWindow(members) = [start |-> {a}, end |-> {b}, feasible |-> B]
    BY <1>8
  <2> HIDE DEF B
  <2>0. CommonWindow(members).feasible = B
    BY <2>1
  <2>2. CommonWindow(members).feasible => B
    BY <2>0, Zenon
  <2> QED BY <2>1, <2>2 DEF B
<1> QED BY <1>6, <1>7, <1>9

\* An estimated slot lies in the window.
LEMMA SlotFits ==
  ASSUME NEW members \in Groups, NEW activity \in Activity
  PROVE  SlotSuits(activity, members)
<1> DEFINE window == CommonWindow(members)
           slot == Scheduled(activity, window)
<1> SUFFICES ASSUME window.feasible, window.start # {},
                    ~ OnTheDay(activity.start), ~ OnTheDay(activity.end),
                    NEW s \in slot.start, NEW e \in slot.end
             PROVE  /\ e - s >= 120
                    /\ \A i \in DOMAIN members :
                         /\ \A t \in members[i].leave : t <= s
                         /\ \A t \in members[i].back : e <= t
  BY DEF SlotSuits
<1>1. PICK a \in Int, b \in Int :
        /\ window.start = {a} /\ window.end = {b}
        /\ b - a >= 120
        /\ \A i \in DOMAIN members :
             /\ \A t \in members[i].leave : t <= a
             /\ \A t \in members[i].back : t \in Int /\ b <= t
  BY WindowIs
<1> HIDE DEF window
<1>2. The(window.start) = a
  BY <1>1 DEF The
<1>3. slot = [activity EXCEPT !.start = {a}, !.end = EstimatedEnd(a, window)]
  BY <1>1, <1>2 DEF Scheduled
<1>4. slot.start = {a} /\ slot.end = EstimatedEnd(a, window)
  BY <1>3 DEF Activity
<1>5. EstimatedEnd(a, window) = {Min({a + 180, b})}
  <2>1. {a + 180} \cup {b} = {a + 180, b}
    OBVIOUS
  <2> QED BY <1>1, <2>1 DEF EstimatedEnd
<1>6. Min({a + 180, b}) \in {a + 180, b} /\ Min({a + 180, b}) <= b
  <2>1. \E x \in {a + 180, b} : \A y \in {a + 180, b} : x <= y
    OBVIOUS
  <2> QED BY <2>1 DEF Min
<1>7. s = a /\ e \in Int /\ e >= a + 120 /\ e <= b
  BY <1>1, <1>4, <1>5, <1>6
<1> QED BY <1>1, <1>7

-----------------------------------------------------------------------------
(* The plan.                                                                *)

Kinds == {"gathering", "activity", "dining", "transport"}
Titles == STRING \cup {"meet", "meal", "pending"}
PlanNode == [kind : Kinds, title : Titles, start : Time, end : Time, booked : BOOLEAN]

Before(start) == {s - 15 : s \in start}

\* The first activity among the nodes; every gathering, unless the activity was
\* replaced, is a quarter of an hour before it.
Core(nodes, i) ==
  /\ i \in DOMAIN nodes /\ nodes[i].kind = "activity"
  /\ \A j \in DOMAIN nodes : nodes[j].kind = "activity" => i <= j
Met(nodes, i) ==
  \A j \in DOMAIN nodes : nodes[j].kind = "gathering" => nodes[j].start = Before(nodes[i].start)
NodesFit(nodes, replaced) ==
  /\ nodes \in Seq(PlanNode)
  /\ \E i \in DOMAIN nodes : Core(nodes, i) /\ (~ replaced => Met(nodes, i))

IsPlan(plan) == DOMAIN plan = {"nodes", "gathering", "window", "notes"}

\* Times stay times.
LEMMA ShiftedTime ==
  ASSUME NEW x \in Time, NEW m \in Int
  PROVE  {t + m : t \in x} \in Time
BY DEF Time, Optional

\* So does the time a quarter of an hour earlier.
LEMMA BeforeTime ==
  ASSUME NEW x \in Time
  PROVE  Before(x) \in Time
BY DEF Time, Optional, Before

\* What Node builds is a node of a plan.
LEMMA NodeIs ==
  ASSUME NEW kind \in Kinds, NEW title \in Titles, NEW start \in Time, NEW end \in Time,
         NEW booked \in BOOLEAN
  PROVE  Node(kind, title, start, end, booked) \in PlanNode
BY DEF Node, PlanNode

\* Sequences of one and two elements, joined.
LEMMA Two ==
  ASSUME NEW x, NEW y
  PROVE  <<x>> \o <<y>> = <<x, y>>
<1> DEFINE S == {x, y}
<1>1. <<x>> \in Seq(S) /\ <<y>> \in Seq(S) /\ <<x, y>> \in Seq(S)
  OBVIOUS
<1> HIDE DEF S
<1>2. /\ <<x>> \o <<y>> \in Seq(S) /\ Len(<<x>> \o <<y>>) = 2
      /\ (<<x>> \o <<y>>)[1] = x /\ (<<x>> \o <<y>>)[2] = y
  BY <1>1, ConcatProperties
<1>3. Len(<<x, y>>) = 2 /\ \A i \in 1 .. 2 : i = 1 \/ i = 2
  OBVIOUS
<1>4. \A i \in 1 .. 2 : (<<x>> \o <<y>>)[i] = <<x, y>>[i]
  BY <1>2, <1>3
<1> QED BY <1>1, <1>2, <1>3, <1>4, SeqEqual

\* And of three.
LEMMA Three ==
  ASSUME NEW x, NEW y, NEW z
  PROVE  <<x, y>> \o <<z>> = <<x, y, z>>
<1> DEFINE S == {x, y, z}
           t == <<x, y>> \o <<z>>
<1>1. <<x, y>> \in Seq(S) /\ <<z>> \in Seq(S) /\ <<x, y, z>> \in Seq(S)
  OBVIOUS
<1> HIDE DEF S
<1>2. t \in Seq(S) /\ Len(t) = 3 /\ t[1] = x /\ t[2] = y /\ t[3] = z
  BY <1>1, ConcatProperties
<1>3. Len(<<x, y, z>>) = 3 /\ \A i \in 1 .. 3 : i = 1 \/ i = 2 \/ i = 3
  OBVIOUS
<1> HIDE DEF t
<1>4. \A i \in 1 .. 3 : t[i] = <<x, y, z>>[i]
  BY <1>2, <1>3
<1>5. t = <<x, y, z>>
  BY <1>1, <1>2, <1>3, <1>4, SeqEqual
<1> QED BY <1>5 DEF t

\* Shifting commutes with meeting a quarter of an hour earlier.
LEMMA MetAlike ==
  ASSUME NEW x \in Time, NEW m \in Int
  PROVE  {t + m : t \in Before(x)} = Before({t + m : t \in x})
<1>1. x \subseteq Int
  BY DEF Time, Optional
<1>2. \A t \in x : (t - 15) + m = (t + m) - 15
  BY <1>1
<1>3. {t + m : t \in Before(x)} = {(t - 15) + m : t \in x}
  BY DEF Before
<1>4. Before({t + m : t \in x}) = {(t + m) - 15 : t \in x}
  BY DEF Before
<1> QED BY <1>2, <1>3, <1>4

\* All nodes by the same minutes.
LEMMA ShiftFits ==
  ASSUME NEW nodes, NEW replaced \in BOOLEAN, NodesFit(nodes, replaced), NEW m \in Int
  PROVE  NodesFit([i \in DOMAIN nodes |-> Shift(nodes[i], m)], replaced)
<1> DEFINE new == [i \in DOMAIN nodes |-> Shift(nodes[i], m)]
<1>1. nodes \in Seq(PlanNode) /\ DOMAIN new = DOMAIN nodes
  BY DEF NodesFit
<1>2. ASSUME NEW i \in DOMAIN nodes
      PROVE  /\ new[i] \in PlanNode /\ new[i].kind = nodes[i].kind
             /\ new[i].start = {t + m : t \in nodes[i].start}
             /\ nodes[i].start \in Time
  <2>1. nodes[i] \in PlanNode
    BY <1>1
  <2>2. {t + m : t \in nodes[i].start} \in Time /\ {t + m : t \in nodes[i].end} \in Time
    BY <2>1, ShiftedTime DEF PlanNode
  <2>3. new[i] = [nodes[i] EXCEPT !.start = {t + m : t \in nodes[i].start},
                                  !.end = {t + m : t \in nodes[i].end}]
    BY <2>1 DEF Shift
  <2> QED BY <2>1, <2>2, <2>3 DEF PlanNode
<1>3. new \in Seq(PlanNode)
  BY <1>1, <1>2
<1>4. PICK i \in DOMAIN nodes : Core(nodes, i) /\ (~ replaced => Met(nodes, i))
  BY DEF NodesFit
<1> HIDE DEF new
<1>5. Core(new, i)
  BY <1>1, <1>2, <1>4 DEF Core
<1>6. ASSUME ~ replaced
      PROVE  Met(new, i)
  <2> SUFFICES ASSUME NEW j \in DOMAIN nodes, nodes[j].kind = "gathering"
               PROVE  new[j].start = Before(new[i].start)
    BY <1>1, <1>2 DEF Met
  <2>1. nodes[j].start = Before(nodes[i].start)
    BY <1>4, <1>6 DEF Met
  <2>2. nodes[i].start \in Time
    BY <1>2
  <2>3. new[j].start = {t + m : t \in Before(nodes[i].start)}
    BY <1>2, <2>1
  <2>4. new[i].start = {t + m : t \in nodes[i].start}
    BY <1>2
  <2> QED BY <2>2, <2>3, <2>4, MetAlike
<1> QED BY <1>1, <1>3, <1>5, <1>6 DEF NodesFit, new

\* A node that is no gathering is put behind the others.
LEMMA AddFits ==
  ASSUME NEW nodes, NEW replaced \in BOOLEAN, NodesFit(nodes, replaced),
         NEW n \in PlanNode, n.kind # "gathering"
  PROVE  NodesFit(Append(nodes, n), replaced)
<1> DEFINE new == Append(nodes, n)
<1>1. nodes \in Seq(PlanNode)
  BY DEF NodesFit
<1>2. /\ new \in Seq(PlanNode) /\ DOMAIN nodes = 1 .. Len(nodes) /\ Len(nodes) \in Nat
      /\ DOMAIN new = 1 .. (Len(nodes) + 1)
      /\ new[Len(nodes) + 1] = n /\ \A j \in DOMAIN nodes : new[j] = nodes[j]
  BY <1>1
<1>3. PICK i \in DOMAIN nodes : Core(nodes, i) /\ (~ replaced => Met(nodes, i))
  BY DEF NodesFit
<1> HIDE DEF new
<1>4. \A j \in DOMAIN new : j \in DOMAIN nodes \/ j = Len(nodes) + 1
  BY <1>2
<1>5. i \in DOMAIN new /\ Core(new, i)
  BY <1>2, <1>3, <1>4 DEF Core
<1>6. ~ replaced => Met(new, i)
  BY <1>2, <1>3, <1>4 DEF Met
<1> QED BY <1>2, <1>5, <1>6 DEF NodesFit, new

\* A node that is no activity is removed.
LEMMA RemoveFits ==
  ASSUME NEW nodes, NEW replaced \in BOOLEAN, NodesFit(nodes, replaced),
         NEW k \in DOMAIN nodes, nodes[k].kind # "activity"
  PROVE  NodesFit(RemoveAt(nodes, k), replaced)
<1> DEFINE new == RemoveAt(nodes, k)
<1>1. nodes \in Seq(PlanNode) /\ DOMAIN nodes = 1 .. Len(nodes) /\ Len(nodes) \in Nat
  BY DEF NodesFit
<1>2. /\ new \in Seq(PlanNode) /\ Len(new) = Len(nodes) - 1
      /\ \A j \in 1 .. Len(new) : new[j] = IF j < k THEN nodes[j] ELSE nodes[j + 1]
  <2> DEFINE s == SubSeq(nodes, 1, k - 1)
             t == SubSeq(nodes, k + 1, Len(nodes))
  <2>1. s \in Seq(PlanNode) /\ Len(s) = k - 1 /\ \A j \in 1 .. (k - 1) : s[j] = nodes[j]
    BY <1>1
  <2>2. t \in Seq(PlanNode) /\ Len(t) = Len(nodes) - k
          /\ \A j \in 1 .. (Len(nodes) - k) : t[j] = nodes[k + j]
    BY <1>1
  <2>3. new = s \o t
    BY DEF RemoveAt
  <2> HIDE DEF s, t, new
  <2>4. /\ new \in Seq(PlanNode) /\ Len(new) = Len(s) + Len(t)
        /\ \A j \in 1 .. Len(s) + Len(t) : new[j] = IF j <= Len(s) THEN s[j] ELSE t[j - Len(s)]
    BY <2>1, <2>2, <2>3, ConcatProperties
  <2>5. k \in 1 .. Len(nodes) /\ Len(new) = Len(nodes) - 1
    BY <1>1, <2>1, <2>2, <2>4
  <2>6. ASSUME NEW j \in 1 .. Len(new)
        PROVE  new[j] = IF j < k THEN nodes[j] ELSE nodes[j + 1]
    <3>1. CASE j < k
      BY <1>1, <2>1, <2>2, <2>4, <2>5, <3>1
    <3>2. CASE ~ (j < k)
      <4>1. j - (k - 1) \in 1 .. (Len(nodes) - k) /\ k + (j - (k - 1)) = j + 1
        BY <1>1, <2>5, <3>2
      <4>2. new[j] = t[j - (k - 1)]
        BY <1>1, <2>1, <2>2, <2>4, <2>5, <3>2
      <4> QED BY <2>2, <3>2, <4>1, <4>2
    <3> QED BY <3>1, <3>2
  <2> QED BY <2>4, <2>5, <2>6
<1> HIDE DEF new
<1>3. PICK i \in DOMAIN nodes : Core(nodes, i) /\ (~ replaced => Met(nodes, i))
  BY DEF NodesFit
<1> DEFINE h == IF i < k THEN i ELSE i - 1
<1>4. i # k
  BY <1>3 DEF Core
<1>5. h \in 1 .. Len(new) /\ new[h] = nodes[i]
  BY <1>1, <1>2, <1>4
<1>6. \A j \in 1 .. Len(new) : \E g \in DOMAIN nodes :
         new[j] = nodes[g] /\ g = IF j < k THEN j ELSE j + 1
  BY <1>1, <1>2
<1>7. Core(new, h)
  BY <1>1, <1>2, <1>3, <1>4, <1>5, <1>6 DEF Core
<1>8. ~ replaced => Met(new, h)
  BY <1>1, <1>2, <1>3, <1>5, <1>6 DEF Met
<1> QED BY <1>2, <1>5, <1>7, <1>8 DEF NodesFit, new

\* A node becomes another of its kind, at the same time if it is no activity.
LEMMA ReplaceFits ==
  ASSUME NEW nodes, NEW replaced \in BOOLEAN, NEW after \in BOOLEAN, NodesFit(nodes, replaced),
         NEW k \in DOMAIN nodes, NEW n \in PlanNode, n.kind = nodes[k].kind,
         replaced => after,
         ~ after => n.kind # "activity" /\ n.kind # "gathering"
  PROVE  NodesFit([nodes EXCEPT ![k] = n], after)
<1> DEFINE new == [nodes EXCEPT ![k] = n]
<1>1. nodes \in Seq(PlanNode)
  BY DEF NodesFit
<1>2. /\ new \in Seq(PlanNode) /\ DOMAIN new = DOMAIN nodes
      /\ new[k] = n /\ \A j \in DOMAIN nodes \ {k} : new[j] = nodes[j]
  BY <1>1
<1>3. PICK i \in DOMAIN nodes : Core(nodes, i) /\ (~ replaced => Met(nodes, i))
  BY DEF NodesFit
<1> HIDE DEF new
<1>4. Core(new, i)
  BY <1>2, <1>3 DEF Core
<1>5. ~ after => Met(new, i)
  BY <1>2, <1>3 DEF Met, Core
<1> QED BY <1>2, <1>4, <1>5 DEF NodesFit, new

\* The slot is an activity whose times are known.
LEMMA SlotIsActivity ==
  ASSUME NEW members \in Groups, NEW activity \in Activity
  PROVE  Scheduled(activity, CommonWindow(members)) \in Activity
<1> DEFINE window == CommonWindow(members)
           s == IF window.start = {} THEN 14 * 60 ELSE The(window.start)
<1>1. s \in Int /\ EstimatedEnd(s, window) \in Time
  <2>1. CASE window.start = {}
    <3>1. s = 840 /\ window.end = {}
      <4>1. window = [start |-> {}, end |-> {}, feasible |-> TRUE]
        BY <2>1 DEF CommonWindow
      <4> QED BY <2>1, <4>1
    <3>2. EstimatedEnd(s, window) = {Min({1020})}
      <4>1. {s + 180} \cup window.end = {1020}
        BY <3>1
      <4> QED BY <4>1 DEF EstimatedEnd
    <3>3. Min({1020}) \in Int
      <4>1. \E x \in {1020} : \A y \in {1020} : x <= y
        OBVIOUS
      <4> QED BY <4>1 DEF Min
    <3> QED BY <3>1, <3>2, <3>3 DEF Time, Optional
  <2>2. CASE window.start # {}
    <3>1. PICK a \in Int, b \in Int : window.start = {a} /\ window.end = {b}
      BY <2>2, WindowIs
    <3> HIDE DEF window
    <3>2. s = a
      BY <3>1 DEF The
    <3>3. EstimatedEnd(s, window) = {Min({a + 180, b})}
      <4>1. {s + 180} \cup window.end = {a + 180, b}
        BY <3>1, <3>2
      <4> QED BY <4>1 DEF EstimatedEnd
    <3>4. Min({a + 180, b}) \in Int
      <4>1. \E x \in {a + 180, b} : \A y \in {a + 180, b} : x <= y
        OBVIOUS
      <4>2. Min({a + 180, b}) \in {a + 180, b}
        BY <4>1 DEF Min
      <4> QED BY <4>2
    <3> QED BY <3>2, <3>3, <3>4 DEF Time, Optional
  <2> QED BY <2>1, <2>2
<1> HIDE DEF window, s
<1>2. {s} \in Time /\ activity.end \in Time
  BY <1>1 DEF Time, Optional, Activity
<1>3. Scheduled(activity, window) =
        IF OnTheDay(activity.start) THEN activity
        ELSE [activity EXCEPT !.start = {s},
                              !.end = IF OnTheDay(activity.end) THEN activity.end
                                      ELSE EstimatedEnd(s, window)]
  BY DEF Scheduled, s
<1> QED BY <1>1, <1>2, <1>3 DEF Activity, window

\* The published nodes.
LEMMA PublishedFits ==
  ASSUME NEW members \in Groups, NEW activity \in Activity, NEW meal \in BOOLEAN
  PROVE  /\ IsPlan(Itinerary(activity, members, meal))
         /\ NodesFit(Itinerary(activity, members, meal).nodes, FALSE)
<1> DEFINE slot == Scheduled(activity, CommonWindow(members))
           target == Before(slot.start)
           g == Node("gathering", "meet", target, {}, FALSE)
           a == Node("activity", slot.title, slot.start, slot.end, slot.booked)
           m == Node("dining", "meal", {}, {}, FALSE)
           front == IF target = {} THEN <<>> ELSE <<g>>
           back == IF meal THEN <<m>> ELSE <<>>
           nodes == front \o <<a>> \o back
<1>1. IsPlan(Itinerary(activity, members, meal)) /\ Itinerary(activity, members, meal).nodes = nodes
  BY DEF Itinerary, Gathering, IsPlan, Before
<1>2. slot \in Activity
  BY SlotIsActivity
<1> HIDE DEF slot
<1>3. {} \in Time /\ target \in Time
  <2>1. slot.start \in Time
    BY <1>2 DEF Activity
  <2>2. {} \in Time
    BY DEF Time, Optional
  <2> QED BY <2>1, <2>2, BeforeTime
<1> HIDE DEF target
<1>4. g \in PlanNode /\ g.kind = "gathering" /\ g.start = target
  <2>1. "gathering" \in Kinds /\ "meet" \in Titles /\ FALSE \in BOOLEAN
    BY DEF Kinds, Titles
  <2>2. Node("gathering", "meet", target, {}, FALSE) \in PlanNode
    BY <1>3, <2>1, NodeIs, Zenon
  <2>3. g \in PlanNode
    BY <2>2
  <2>4. g.kind = "gathering"
    BY DEF Node
  <2>5. g.start = target
    BY DEF Node
  <2> QED BY <2>3, <2>4, <2>5
<1>5. a \in PlanNode /\ a.kind = "activity" /\ a.start = slot.start
  <2>1. slot.title \in STRING /\ slot.start \in Time /\ slot.end \in Time /\ slot.booked \in BOOLEAN
    BY <1>2 DEF Activity
  <2>2. "activity" \in Kinds /\ slot.title \in Titles
    BY <2>1 DEF Kinds, Titles
  <2>3. Node("activity", slot.title, slot.start, slot.end, slot.booked) \in PlanNode
    BY <2>1, <2>2, NodeIs, Zenon
  <2>4. a \in PlanNode
    BY <2>3
  <2>5. a.kind = "activity"
    BY DEF Node
  <2>6. a.start = slot.start
    BY DEF Node
  <2> QED BY <2>4, <2>5, <2>6
<1>6. m \in PlanNode /\ m.kind = "dining"
  <2>1. "dining" \in Kinds /\ "meal" \in Titles /\ FALSE \in BOOLEAN
    BY DEF Kinds, Titles
  <2>2. Node("dining", "meal", {}, {}, FALSE) \in PlanNode
    BY <1>3, <2>1, NodeIs, Zenon
  <2>3. m \in PlanNode
    BY <2>2
  <2>4. m.kind = "dining"
    BY DEF Node
  <2> QED BY <2>3, <2>4
<1> HIDE DEF g, a, m
<1>7. g.start = Before(a.start)
  BY <1>4, <1>5 DEF target
<1>8. ASSUME NEW seq, NEW i \in {1, 2},
             \/ seq \in {<<a>>, <<a, m>>} /\ i = 1
             \/ seq \in {<<g, a>>, <<g, a, m>>} /\ i = 2
      PROVE  NodesFit(seq, FALSE)
  <2>1. seq \in Seq(PlanNode)
    <3>1. <<a>> \in Seq(PlanNode) /\ <<a, m>> \in Seq(PlanNode)
      BY <1>5, <1>6
    <3>2. <<g, a>> \in Seq(PlanNode) /\ <<g, a, m>> \in Seq(PlanNode)
      BY <1>4, <1>5, <1>6
    <3> QED BY <1>8, <3>1, <3>2
  <2>2. Core(seq, i) /\ Met(seq, i)
    BY <1>4, <1>5, <1>6, <1>7, <1>8 DEF Core, Met
  <2> QED BY <2>1, <2>2 DEF NodesFit, Core
<1>9. nodes \in {<<a>>, <<a, m>>, <<g, a>>, <<g, a, m>>}
  <2>1. front \in {<<>>, <<g>>} /\ back \in {<<>>, <<m>>}
    OBVIOUS
  <2> HIDE DEF front, back
  <2>2. front \o <<a>> \in {<<a>>, <<g, a>>}
    <3>1. <<>> \o <<a>> = <<a>> /\ <<g>> \o <<a>> = <<g, a>>
      BY Two
    <3> QED BY <2>1, <3>1
  <2>3. <<a>> \o back \in {<<a>>, <<a, m>>} /\ <<g, a>> \o back \in {<<g, a>>, <<g, a, m>>}
    <3>1. <<a>> \o <<>> = <<a>> /\ <<g, a>> \o <<>> = <<g, a>>
      OBVIOUS
    <3>2. <<a>> \o <<m>> = <<a, m>> /\ <<g, a>> \o <<m>> = <<g, a, m>>
      BY Two, Three
    <3> QED BY <2>1, <3>1, <3>2
  <2> QED BY <2>2, <2>3
<1> HIDE DEF nodes
<1>10. NodesFit(nodes, FALSE)
  <2>1. CASE nodes \in {<<a>>, <<a, m>>}
    BY <1>8, <2>1
  <2>2. CASE nodes \in {<<g, a>>, <<g, a, m>>}
    BY <1>8, <2>2
  <2> QED BY <1>9, <2>1, <2>2
<1> QED BY <1>1, <1>10

\* The minutes to shift by.
LEMMA ShiftIsTime ==
  ASSUME NEW nodes \in Seq(PlanNode), NEW d \in Decision, ShiftOf(nodes, d) # {}
  PROVE  The(ShiftOf(nodes, d)) \in Int
<1> DEFINE I(core) == {i \in 1 .. Len(nodes) : (nodes[i].kind = "activity") = core /\ nodes[i].start # {}}
           First(core) == IF I(core) # {} THEN Min(I(core)) ELSE 0
<1>1. TimeAnchor(nodes) = IF First(TRUE) # 0 THEN First(TRUE) ELSE First(FALSE)
  BY DEF TimeAnchor, SelectInSeq
<1>2. ASSUME NEW core \in BOOLEAN, I(core) # {}
      PROVE  Min(I(core)) \in I(core)
  <2>1. I(core) \in SUBSET (1 .. Len(nodes)) /\ Len(nodes) \in Nat
    OBVIOUS
  <2> HIDE DEF I
  <2> QED BY <1>2, <2>1, LeastIndex
<1>3. ASSUME TimeAnchor(nodes) # 0
      PROVE  The(nodes[TimeAnchor(nodes)].start) \in Int
  <2>1. \E core \in BOOLEAN : I(core) # {} /\ TimeAnchor(nodes) = Min(I(core))
    BY <1>1, <1>3
  <2>2. PICK i \in 1 .. Len(nodes) : TimeAnchor(nodes) = i /\ nodes[i].start # {}
    BY <1>2, <2>1
  <2>3. nodes[i].start \in SUBSET Int
    <3>1. nodes[i] \in PlanNode
      OBVIOUS
    <3> QED BY <3>1 DEF PlanNode, Time, Optional
  <2> QED BY <2>2, <2>3 DEF The
<1>4. d.minutes \subseteq Int /\ d.clock \subseteq Int
  BY DEF Decision, Time, Optional
<1>5. ShiftOf(nodes, d) \subseteq Int
  <2>1. CASE d.minutes # {} \/ TimeAnchor(nodes) = 0
    BY <1>4, <2>1 DEF ShiftOf
  <2>2. CASE d.minutes = {} /\ TimeAnchor(nodes) # 0
    <3> DEFINE t == The(nodes[TimeAnchor(nodes)].start)
    <3>1. ShiftOf(nodes, d) = {c - (t % Day) : c \in d.clock}
      BY <2>2 DEF ShiftOf
    <3>2. t \in Int
      BY <1>3, <2>2
    <3> HIDE DEF t
    <3>3. t % Day \in Int
      BY <3>2 DEF Day
    <3> QED BY <1>4, <3>1, <3>3
  <2> QED BY <2>1, <2>2
<1> QED BY <1>5 DEF The

\* A plan that fits still fits once the activity counts as replaced.
LEMMA Weaker ==
  ASSUME NEW nodes, NEW r \in BOOLEAN, NEW q \in BOOLEAN, NodesFit(nodes, r), r => q
  PROVE  NodesFit(nodes, q)
BY DEF NodesFit

\* A note changes no node.
LEMMA NotedFits ==
  ASSUME NEW plan, IsPlan(plan), NEW note
  PROVE  IsPlan(Noted(plan, note)) /\ Noted(plan, note).nodes = plan.nodes
BY DEF IsPlan, Noted

\* A plan with other nodes is a plan.
LEMMA WithNodes ==
  ASSUME NEW plan, IsPlan(plan), NEW nodes
  PROVE  /\ IsPlan([plan EXCEPT !.nodes = nodes])
         /\ [plan EXCEPT !.nodes = nodes].nodes = nodes
BY DEF IsPlan

\* _find_node's node is replaced in place; only a replaced activity may move.
LEMMA ReplaceNodeFits ==
  ASSUME NEW plan, IsPlan(plan), NEW r \in BOOLEAN, NodesFit(plan.nodes, r), NEW d \in Decision
  PROVE  /\ IsPlan(ReplaceNode(plan, d).plan)
         /\ NodesFit(ReplaceNode(plan, d).plan.nodes, r \/ d.target = "activity")
<1> DEFINE nodes == plan.nodes
           i == FindNode(nodes, d.target)
           old == nodes[i]
           new == IF d.by = {} THEN [old EXCEPT !.title = "pending"] ELSE Replaced(old, The(d.by))
           q == r \/ d.target = "activity"
<1>1. nodes \in Seq(PlanNode)
  BY DEF NodesFit
<1>2. CASE i = 0
  <2>1. ReplaceNode(plan, d).plan = plan
    BY <1>2 DEF ReplaceNode, Answer
  <2> QED BY <2>1, Weaker
<1>3. CASE i # 0
  <2>1. i \in DOMAIN nodes /\ old.kind = d.target /\ old \in PlanNode
    BY <1>1, <1>3, FoundNode
  <2>2. new \in PlanNode /\ new.kind = old.kind
    <3>1. CASE d.by = {}
      <4>1. new = [old EXCEPT !.title = "pending"] /\ "pending" \in Titles
        BY <3>1 DEF Titles
      <4> HIDE DEF old, new
      <4>2. DOMAIN old = {"kind", "title", "start", "end", "booked"}
        BY <2>1 DEF PlanNode
      <4>3. new.kind = old.kind
        BY <4>1, <4>2
      <4>4. new \in PlanNode
        BY <2>1, <4>1 DEF PlanNode
      <4> QED BY <4>3, <4>4
    <3>2. CASE d.by # {}
      <4>1. The(d.by) \in Activity
        BY <3>2 DEF The, Decision, Optional
      <4> DEFINE by == The(d.by)
      <4> HIDE DEF old, by
      <4>2. /\ (IF by.start = {} THEN old.start ELSE by.start) \in Time
            /\ (IF by.end = {} THEN old.end ELSE by.end) \in Time
            /\ by.title \in Titles /\ (by.booked \/ old.booked) \in BOOLEAN
        BY <2>1, <4>1 DEF Activity, PlanNode, Titles, by
      <4>3. Replaced(old, by) = [old EXCEPT !.title = by.title,
                                            !.start = IF by.start = {} THEN old.start ELSE by.start,
                                            !.end = IF by.end = {} THEN old.end ELSE by.end,
                                            !.booked = by.booked \/ old.booked]
        BY <2>1 DEF Replaced, PlanNode
      <4>4. Replaced(old, by) \in PlanNode /\ Replaced(old, by).kind = old.kind
        BY <2>1, <4>2, <4>3 DEF PlanNode
      <4> QED BY <3>2, <4>4 DEF by, old
    <3> QED BY <3>1, <3>2
  <2>3. d.target \in {"activity", "dining", "transport"}
    BY DEF Decision
  <2> HIDE DEF new
  <2>4. NodesFit([nodes EXCEPT ![i] = new], q)
    BY <2>1, <2>2, <2>3, ReplaceFits
  <2>5. ReplaceNode(plan, d).plan = [plan EXCEPT !.nodes[i] = new]
    BY <1>3 DEF ReplaceNode, Answer, new
  <2>6. [plan EXCEPT !.nodes[i] = new] = [plan EXCEPT !.nodes = [nodes EXCEPT ![i] = new]]
    OBVIOUS
  <2> QED BY <2>4, <2>5, <2>6, WithNodes
<1> QED BY <1>2, <1>3

\* Whatever is applied, the plan fits again.
LEMMA AppliedFits ==
  ASSUME NEW plan, IsPlan(plan), NEW r \in BOOLEAN, NodesFit(plan.nodes, r), NEW d \in Decision
  PROVE  /\ IsPlan(Applied(plan, d).plan)
         /\ NodesFit(Applied(plan, d).plan.nodes, r \/ ReplacesActivity(d))
<1> DEFINE q == r \/ ReplacesActivity(d)
           i == FindNode(plan.nodes, d.target)
<1>0. q \in BOOLEAN /\ (r => q) /\ plan.nodes \in Seq(PlanNode) /\ NodesFit(plan.nodes, q)
  <2>1. q \in BOOLEAN /\ (r => q) /\ plan.nodes \in Seq(PlanNode)
    BY DEF NodesFit, ReplacesActivity
  <2> QED BY <2>1, Weaker
<1>1. ASSUME NEW note
      PROVE  /\ IsPlan(Answer(Noted(plan, note), TRUE, TRUE).plan)
             /\ IsPlan(Noted(plan, note)) /\ NodesFit(Noted(plan, note).nodes, q)
  BY <1>0, NotedFits DEF Answer
<1>2. CASE d.type = "replace_node"
  BY <1>2, ReplaceNodeFits DEF Applied, ReplacesActivity
<1>3. CASE d.type = "remove_node"
  <2>1. Applied(plan, d) = RemoveNode(plan, d)
    BY <1>3 DEF Applied
  <2>2. CASE i = 0
    BY <1>0, <2>1, <2>2 DEF RemoveNode, Answer
  <2>3. CASE i # 0 /\ plan.nodes[i].kind = "activity"
    BY <1>1, <2>1, <2>3 DEF RemoveNode, Answer
  <2>4. CASE i # 0 /\ plan.nodes[i].kind # "activity"
    <3>1. i \in DOMAIN plan.nodes
      BY <1>0, <2>4, FoundNode
    <3> DEFINE new == RemoveAt(plan.nodes, i)
    <3>2. NodesFit(new, q)
      BY <1>0, <2>4, <3>1, RemoveFits
    <3>3. Applied(plan, d).plan = [plan EXCEPT !.nodes = new]
      BY <2>1, <2>4 DEF RemoveNode, Answer
    <3> HIDE DEF new
    <3>4. IsPlan([plan EXCEPT !.nodes = new]) /\ [plan EXCEPT !.nodes = new].nodes = new
      BY WithNodes
    <3> QED BY <3>2, <3>3, <3>4
  <2> QED BY <2>2, <2>3, <2>4
<1>4. CASE d.type = "add_node"
  <2> DEFINE title == IF d.by = {} THEN "pending" ELSE The(d.by).title
             n == Node(d.target, title, {}, {}, FALSE)
  <2>1. title \in Titles
    <3>1. d.by # {} => The(d.by) \in Activity
      <4>1. d.by \subseteq Activity
        BY DEF Decision, Optional
      <4> QED BY <4>1 DEF The
    <3>2. d.by # {} => The(d.by).title \in Titles
      BY <3>1 DEF Activity, Titles
    <3>3. CASE d.by = {}
      BY <3>3 DEF Titles
    <3>4. CASE d.by # {}
      BY <3>2, <3>4
    <3> QED BY <3>3, <3>4
  <2>2. n \in PlanNode /\ n.kind # "gathering"
    <3> HIDE DEF title
    <3>1. {} \in Time /\ d.target \in {"activity", "dining", "transport"}
      BY DEF Time, Optional, Decision
    <3>2. d.target \in Kinds /\ d.target # "gathering" /\ FALSE \in BOOLEAN
      BY <3>1 DEF Kinds
    <3>3. Node(d.target, title, {}, {}, FALSE) \in PlanNode
      <4> HIDE DEF title
      <4> QED BY <2>1, <3>1, <3>2, NodeIs, Zenon
    <3>4. n \in PlanNode
      BY <3>3
    <3>5. n.kind = d.target
      BY DEF Node
    <3> QED BY <3>2, <3>4, <3>5
  <2>3. Applied(plan, d).plan = [plan EXCEPT !.nodes = Append(plan.nodes, n)]
    BY <1>4 DEF Applied, AddNode, Answer
  <2> HIDE DEF n
  <2> DEFINE new == Append(plan.nodes, n)
  <2>4. NodesFit(new, q)
    BY <1>0, <2>2, AddFits
  <2> HIDE DEF new
  <2>5. IsPlan([plan EXCEPT !.nodes = new]) /\ [plan EXCEPT !.nodes = new].nodes = new
    BY WithNodes
  <2>6. Applied(plan, d).plan = [plan EXCEPT !.nodes = new]
    BY <2>3 DEF new
  <2> QED BY <2>4, <2>5, <2>6
<1>5. CASE d.type = "adjust_time"
  <2> DEFINE shift == ShiftOf(plan.nodes, d)
             nodes == [j \in DOMAIN plan.nodes |-> Shift(plan.nodes[j], The(shift))]
  <2>1. Applied(plan, d) = AdjustTime(plan, d)
    BY <1>5 DEF Applied
  <2>2. CASE shift = {}
    BY <1>1, <2>1, <2>2 DEF AdjustTime, Answer
  <2>3. CASE shift # {}
    <3>1. The(shift) \in Int
      BY <1>0, <2>3, ShiftIsTime
    <3>2. NodesFit(nodes, q)
      BY <1>0, <3>1, ShiftFits
    <3>3. Applied(plan, d).plan = [plan EXCEPT !.nodes = nodes]
      BY <2>1, <2>3 DEF AdjustTime, Answer
    <3> HIDE DEF nodes
    <3>4. IsPlan([plan EXCEPT !.nodes = nodes]) /\ [plan EXCEPT !.nodes = nodes].nodes = nodes
      BY WithNodes
    <3> QED BY <3>2, <3>3, <3>4
  <2> QED BY <2>2, <2>3
<1>6. CASE d.type = "adjust_budget"
  BY <1>1, <1>6 DEF Applied, Answer
<1>7. CASE d.type = "change_transport"
  BY <1>1, <1>7 DEF Applied, Answer
<1>8. CASE d.type = "change_theme"
  BY <1>1, <1>8 DEF Applied, Answer
<1>9. CASE d.type = "full_replan"
  BY <1>1, <1>9 DEF Applied, Answer
<1> QED BY <1>2, <1>3, <1>4, <1>5, <1>6, <1>7, <1>8, <1>9 DEF Decision

-----------------------------------------------------------------------------
(* The outing.                                                              *)

OutingInv ==
  /\ DOMAIN outing = {"members", "activity", "revisions", "replaced", "plan"}
  /\ outing.members \in Groups /\ outing.activity \in Activities /\ outing.replaced \in BOOLEAN
  /\ IsPlan(outing.plan) /\ NodesFit(outing.plan.nodes, outing.replaced)

\* OutingInv is inductive.
LEMMA OutingInvHolds == OutingSpec => []OutingInv
<1>1. OutingInit => OutingInv
  <2> SUFFICES ASSUME NEW a \in Activities, NEW g \in Groups, NEW meal \in BOOLEAN,
                      outing = Published(a, g, meal)
               PROVE  OutingInv
    BY DEF OutingInit
  <2>1. a \in Activity
    BY SelectionAssumption
  <2>2. IsPlan(Itinerary(a, g, meal)) /\ NodesFit(Itinerary(a, g, meal).nodes, FALSE)
    BY <2>1, PublishedFits
  <2> QED BY <2>2 DEF OutingInv, Published
<1>2. OutingInv /\ [Revise]_outing => OutingInv'
  <2> SUFFICES ASSUME OutingInv, Revise PROVE OutingInv'
    BY DEF OutingInv
  <2>1. PICK d \in Decisions :
          outing' = [outing EXCEPT !.plan = Modified(outing.plan, d),
                                   !.revisions = outing.revisions + 1,
                                   !.replaced = outing.replaced \/ ReplacesActivity(d)]
    BY DEF Revise
  <2> DEFINE q == outing.replaced \/ ReplacesActivity(d)
             new == Modified(outing.plan, d)
  <2>2. d \in Decision
    BY DecisionsAssumption
  <2>3. IsPlan(Applied(outing.plan, d).plan) /\ NodesFit(Applied(outing.plan, d).plan.nodes, q)
    BY <2>2, AppliedFits DEF OutingInv
  <2>4. q \in BOOLEAN /\ (outing.replaced => q)
    BY DEF OutingInv, ReplacesActivity
  <2>5. IsPlan(outing.plan) /\ NodesFit(outing.plan.nodes, q)
    BY <2>4, Weaker DEF OutingInv
  <2>6. IsPlan(new) /\ NodesFit(new.nodes, q)
    BY <2>3, <2>5 DEF Modified
  <2> HIDE DEF q, new
  <2>7. outing' = [outing EXCEPT !.plan = new, !.revisions = outing.revisions + 1, !.replaced = q]
    BY <2>1 DEF q, new
  <2> QED BY <2>4, <2>6, <2>7 DEF OutingInv
<1> QED BY <1>1, <1>2, PTL DEF OutingSpec

\* The wheel's theme and an estimated slot suit every member, for any members and
\* activity: every number is an arbitrary integer (rooms/algorithms.py,
\* plan_gathering).
THEOREM OutingsSuitAll == OutingSpec => []OutingsSuit
<1>1. OutingInv => OutingsSuit
  BY WheelSuits, SlotFits, SelectionAssumption DEF OutingInv, OutingsSuit
<1> QED BY <1>1, OutingInvHolds, PTL

\* After any number of revisions of any type the plan has its activity, and the
\* members still meet a quarter of an hour before it unless it was replaced
\* (apply_revision, modify_plan_ep).
THEOREM MembersStillMeet == OutingSpec => []OutingsGather
<1>1. OutingInv => OutingsGather
  <2> SUFFICES ASSUME OutingInv PROVE OutingsGather
    OBVIOUS
  <2> DEFINE nodes == outing.plan.nodes
             a == FindNode(nodes, "activity")
             g == FindNode(nodes, "gathering")
  <2>1. nodes \in Seq(PlanNode)
    BY DEF OutingInv, NodesFit
  <2>2. PICK i \in DOMAIN nodes : Core(nodes, i) /\ (~ outing.replaced => Met(nodes, i))
    BY DEF OutingInv, NodesFit
  <2>3. a = i
    <3>1. i \in {j \in 1 .. Len(nodes) : nodes[j].kind = "activity"}
      BY <2>1, <2>2 DEF Core
    <3>2. a \in 1 .. Len(nodes) /\ nodes[a].kind = "activity" /\ a <= i
      BY <2>1, <3>1, FoundNode
    <3>3. i <= a
      BY <2>1, <2>2, <3>2 DEF Core
    <3> QED BY <2>1, <3>1, <3>2, <3>3
  <2>4. g # 0 => g \in DOMAIN nodes /\ nodes[g].kind = "gathering"
    BY <2>1, FoundNode
  <2>5. ~ outing.replaced /\ g # 0 => nodes[g].start = Before(nodes[a].start)
    BY <2>2, <2>3, <2>4 DEF Met
  <2>6. a # 0
    BY <2>1, <2>3
  <2> QED BY <2>5, <2>6 DEF OutingsGather, Before
<1> QED BY <1>1, OutingInvHolds, PTL
=============================================================================
