------------------------ MODULE RoomItinerariesProofs -----------------------
(* Theorems about RoomItineraries, for any requests and any Keep.           *)
EXTENDS RoomItineraries, FiniteSetTheorems, SequenceTheorems, TLAPS

\* The requests that save hold the lock, so there is one at a time.
SaversHoldLock ==
    \A q \in Requests : req[q].pc \in AtWork => lock = q

\* What a saving request read as the highest version still bounds the table:
\* only undos may have changed it since, and they only remove rows.
SaverSawTop ==
    \A q \in Requests :
        req[q].pc = "saving" => \A x \in rows : x.version <= req[q].top

\* A row is inserted by a request that is done when the row becomes visible,
\* and no request inserts two.
RowsOfDone == \A x \in rows : req[x.id].pc = "done"
IdsDistinct == \A x, y \in rows : x.id = y.id => x = y

\* While no undo commits between the reads of another, the row an undo returns
\* to does not become current before the second read...
TargetStaysOld ==
    ~ crossed => \A q \in Requests : req[q].pc = "returning" =>
        /\ req[req[q].prev].pc = "done"
        /\ req[q].prev \in Requests
        /\ \A x \in rows : x.id = req[q].prev => ~ x.current

\* ...and so is not the row it deletes.
UndoKeepsTarget ==
    ~ crossed => \A q \in Requests : req[q].pc = "undoing" => req[q].prev # req[q].cur

Inv ==
    /\ TypeOK
    /\ SaversHoldLock
    /\ SaverSawTop
    /\ RowsOfDone
    /\ IdsDistinct
    /\ TargetStaysOld
    /\ UndoKeepsTarget
    /\ VersionsDistinct
    /\ SomeCurrent

LEMMA InitInv == Init => Inv
  <1> SUFFICES ASSUME Init PROVE Inv
    OBVIOUS
  <1>1. req \in [Requests -> Request] /\ \A q \in Requests : req[q].pc = "new"
    BY DEF Init, NewRequest, Request, PC, Payloads, NoRow
  <1>2. rows = {} /\ lock = "free" /\ crossed = FALSE
    BY DEF Init
  <1> QED BY <1>1, <1>2, RequestsAssumption
          DEF Inv, TypeOK, SaversHoldLock, SaverSawTop, RowsOfDone, IdsDistinct, AtWork,
              TargetStaysOld, UndoKeepsTarget, VersionsDistinct, SomeCurrent,
              AlwaysOneToShow, Current

\* Steps that leave the table alone, and after which no request saves or
\* undoes that did not before with the same reads.
LEMMA TableStays ==
  ASSUME Inv, TypeOK', SaversHoldLock', UNCHANGED <<rows, crossed>>,
         \A q \in Requests :
            /\ req'[q].pc = "saving" => req'[q].pc = req[q].pc /\ req'[q].top = req[q].top
            /\ req'[q].pc \in {"returning", "undoing"} =>
                 req'[q].pc = req[q].pc /\ req'[q].prev = req[q].prev /\ req'[q].cur = req[q].cur
            /\ req[q].pc = "done" => req'[q].pc = "done"
  PROVE  Inv'
  <1>1. SaverSawTop' /\ RowsOfDone' /\ IdsDistinct' /\ VersionsDistinct' /\ SomeCurrent'
    BY DEF Inv, TypeOK, SaverSawTop, RowsOfDone, IdsDistinct, VersionsDistinct, SomeCurrent,
           AlwaysOneToShow, Current, RoomItinerary
  <1>2. TargetStaysOld'
    BY DEF Inv, TargetStaysOld
  <1>3. UndoKeepsTarget'
    BY DEF Inv, UndoKeepsTarget
  <1> QED BY <1>1, <1>2, <1>3 DEF Inv

\* Marking or unmarking rows changes neither names nor numbers.
Mark(x, id, b) == IF x.id = id THEN [x EXCEPT !.current = b] ELSE x
Marked(rs, id, b) == {Mark(x, id, b) : x \in rs}

LEMMA MarkFacts ==
  ASSUME NEW x \in RoomItinerary, NEW id, NEW b \in BOOLEAN
  PROVE  /\ Mark(x, id, b) \in RoomItinerary
         /\ Mark(x, id, b).id = x.id
         /\ Mark(x, id, b).version = x.version
         /\ x.id = id => Mark(x, id, b).current = b
  BY DEF Mark, RoomItinerary

LEMMA Remarked ==
  ASSUME NEW rs \in SUBSET RoomItinerary, NEW id, NEW b \in BOOLEAN
  PROVE  /\ Marked(rs, id, b) \subseteq RoomItinerary
         /\ \A y \in Marked(rs, id, b) : \E x \in rs :
              x.id = y.id /\ x.version = y.version /\ y = Mark(x, id, b)
         /\ \A x \in rs : x.id = id =>
              \E y \in Marked(rs, id, b) : y.current = b
  <1>1. \A x \in rs : /\ Mark(x, id, b) \in RoomItinerary
                      /\ Mark(x, id, b).id = x.id
                      /\ Mark(x, id, b).version = x.version
                      /\ x.id = id => Mark(x, id, b).current = b
    BY MarkFacts
  <1> QED BY <1>1, Zenon DEF Marked

\* The requests of a step of q.
OthersStay(q) == \A p \in Requests \ {q} : req'[p] = req[p]

LEMMA LeaveFacts ==
  ASSUME TypeOK, NEW q \in Requests, Leave(q)
  PROVE  /\ req' \in [Requests -> Request]
         /\ req'[q].pc = "done"
         /\ OthersStay(q)
  BY DEF TypeOK, Leave, Request, PC, OthersStay

\* A save's new table.
LEMMA SaveInv ==
  ASSUME Inv, NEW q \in Requests, SaveWrite(q)
  PROVE  Inv'
  <1> USE DEF Inv
  <1>1. req[q].pc = "saving" /\ Leave(q) /\ Unlock(q) /\ crossed' = crossed
    BY DEF SaveWrite
  <1>2. lock = q /\ lock' \in {"free", "orphan"}
    BY <1>1 DEF SaversHoldLock, AtWork, Unlock
  <1>3. /\ req' \in [Requests -> Request]
        /\ req'[q].pc = "done"
        /\ OthersStay(q)
    BY <1>1, LeaveFacts
  <1>4. SaversHoldLock'
    BY <1>2, <1>3 DEF SaversHoldLock, OthersStay, AtWork
  <1>5. \A p \in Requests : req'[p].pc # "saving"
    BY <1>2, <1>3, <1>4, RequestsAssumption DEF SaversHoldLock, AtWork
  <1>6. UndoKeepsTarget'
    BY <1>1, <1>3 DEF UndoKeepsTarget, OthersStay
  <1>7. \A p \in Requests : req[p].pc = "done" => req'[p].pc = "done"
    BY <1>3 DEF OthersStay
  <1>8. /\ TypeOK' /\ RowsOfDone' /\ IdsDistinct' /\ VersionsDistinct' /\ SomeCurrent'
        /\ TargetStaysOld'
    <2>1. CASE rows' = rows
      <3>1. TargetStaysOld'
        BY <1>1, <1>3, <1>7, <2>1 DEF TargetStaysOld, OthersStay
      <3> QED BY <2>1, <3>1, <1>1, <1>2, <1>3, <1>7, RequestsAssumption
              DEF TypeOK, RowsOfDone, IdsDistinct, VersionsDistinct, SomeCurrent,
                  AlwaysOneToShow, Current, RoomItinerary
    <2>2. CASE rows' = Cleanup(Superseded(rows, req[q].cur) \cup {NewVersion(q)})
      <3> DEFINE old == Superseded(rows, req[q].cur)
                 new == NewVersion(q)
      <3>0. old = Marked(rows, req[q].cur, FALSE) /\ rows \in SUBSET RoomItinerary
        BY DEF Superseded, Marked, Mark, TypeOK
      <3>1. /\ old \subseteq RoomItinerary
            /\ \A y \in old : \E x \in rows :
                 /\ x.id = y.id /\ x.version = y.version
                 /\ y = Mark(x, req[q].cur, FALSE)
        <4> HIDE DEF old
        <4>1. /\ Marked(rows, req[q].cur, FALSE) \subseteq RoomItinerary
              /\ \A y \in Marked(rows, req[q].cur, FALSE) : \E x \in rows :
                   /\ x.id = y.id /\ x.version = y.version
                   /\ y = Mark(x, req[q].cur, FALSE)
              /\ \A x \in rows : x.id = req[q].cur =>
                   \E y \in Marked(rows, req[q].cur, FALSE) : y.current = FALSE
          BY <3>0, Remarked, Zenon
        <4> QED BY <3>0, <4>1, Zenon
      <3>2. \A y, z \in old : y.version = z.version \/ y.id = z.id => y = z
        <4> SUFFICES ASSUME NEW y \in old, NEW z \in old,
                            y.version = z.version \/ y.id = z.id
                     PROVE  y = z
          OBVIOUS
        <4>1. PICK x \in rows :
                /\ x.id = y.id /\ x.version = y.version
                /\ y = Mark(x, req[q].cur, FALSE)
          <5> HIDE DEF old
          <5> QED BY <3>1
        <4>2. PICK w \in rows :
                /\ w.id = z.id /\ w.version = z.version
                /\ z = Mark(w, req[q].cur, FALSE)
          <5> HIDE DEF old
          <5> QED BY <3>1
        <4>3. x = w
          BY <4>1, <4>2 DEF VersionsDistinct, IdsDistinct
        <4> QED BY <4>1, <4>2, <4>3
      <3>3. /\ new \in RoomItinerary /\ new.id = q /\ new.current = TRUE
            /\ new.version = req[q].top + 1 /\ req[q].top \in Nat
        BY DEF NewVersion, RoomItinerary, TypeOK, Request, Payloads
      <3> HIDE DEF old, new
      <3>4. \A y \in old : y.version \in Nat /\ y.version < new.version
        <4>1. \A x \in rows : x.version \in Nat /\ x.version <= req[q].top
          BY <1>1 DEF SaverSawTop, RoomItinerary, TypeOK
        <4>2. \A y \in old : y.version \in Nat /\ y.version <= req[q].top
          BY <3>1, <4>1
        <4> QED BY <3>3, <4>2
      <3>5. \A y \in old : y.id # q /\ req[y.id].pc = "done" /\ y.id \in Requests
        BY <1>1, <3>1 DEF RowsOfDone, RoomItinerary
      <3>6. rows' \subseteq old \cup {new}
        BY <2>2 DEF Cleanup, old, new
      <3>7. new \in rows'
        <4>1. {y \in old \cup {new} : y.version > new.version} = {}
          BY <3>3, <3>4
        <4>2. Cardinality({}) = 0
          BY FS_EmptySet
        <4>3. Cardinality({y \in old \cup {new} : y.version > new.version}) < Keep
          BY <4>1, <4>2, KeepAssumption
        <4> QED BY <2>2, <4>3 DEF Cleanup, old, new
      <3>8. TypeOK'
        BY <1>1, <1>2, <1>3, <3>1, <3>3, <3>6, RequestsAssumption DEF TypeOK
      <3>9. RowsOfDone'
        BY <1>3, <1>7, <3>3, <3>5, <3>6 DEF RowsOfDone
      <3>10. IdsDistinct' /\ VersionsDistinct'
        BY <3>2, <3>3, <3>4, <3>5, <3>6 DEF IdsDistinct, VersionsDistinct
      <3>11. SomeCurrent'
        BY <3>3, <3>7 DEF SomeCurrent, AlwaysOneToShow, Current
      <3>12. TargetStaysOld'
        <4> SUFFICES ASSUME ~ crossed, NEW p \in Requests, req'[p].pc = "returning"
                     PROVE  /\ req'[req[p].prev].pc = "done" /\ req[p].prev \in Requests
                            /\ \A y \in rows' : y.id = req[p].prev => ~ y.current
          BY <1>1, <1>3 DEF TargetStaysOld, OthersStay
        <4>1. /\ req[req[p].prev].pc = "done" /\ req[p].prev \in Requests
              /\ \A x \in rows : x.id = req[p].prev => ~ x.current
          BY <1>3 DEF TargetStaysOld, OthersStay
        <4>2. req[p].prev # new.id
          BY <1>1, <3>3, <4>1
        <4>3. \A x \in rows : ~ x.current => ~ Mark(x, req[q].cur, FALSE).current
          BY DEF Mark, TypeOK, RoomItinerary
        <4>4. \A y \in old : y.id = req[p].prev => ~ y.current
          BY <3>1, <4>1, <4>3
        <4> QED BY <1>7, <3>6, <4>1, <4>2, <4>4
      <3> QED BY <3>8, <3>9, <3>10, <3>11, <3>12
    <2> QED BY <2>1, <2>2 DEF SaveWrite
  <1> QED BY <1>4, <1>5, <1>6, <1>8 DEF SaverSawTop

\* An undo's new table.
LEMMA UndoInv ==
  ASSUME Inv, NEW q \in Requests, UndoWrite(q)
  PROVE  Inv'
  <1> USE DEF Inv
  <1>1. req[q].pc = "undoing" /\ Leave(q) /\ lock' = lock
    BY DEF UndoWrite
  <1>9. crossed' \in BOOLEAN /\ (crossed => crossed')
    <2>1. crossed \in BOOLEAN
      BY DEF TypeOK
    <2>2. CASE crossed' = (crossed \/ \E p \in Requests : req[p].pc = "returning")
      BY <2>1, <2>2, Zenon
    <2>3. CASE crossed' = crossed
      BY <2>1, <2>3, Zenon
    <2> QED BY <2>2, <2>3 DEF UndoWrite
  <1>2. /\ req' \in [Requests -> Request]
        /\ req'[q].pc = "done"
        /\ OthersStay(q)
    BY <1>1, LeaveFacts
  <1>3. SaversHoldLock' /\ UndoKeepsTarget'
    BY <1>1, <1>2, <1>9 DEF SaversHoldLock, UndoKeepsTarget, OthersStay, AtWork
  <1>4. \A p \in Requests : req[p].pc = "done" => req'[p].pc = "done"
    BY <1>2 DEF OthersStay
  <1>5. lock' \in Requests => req'[lock'].pc \in AtWork
    BY <1>1, <1>2 DEF TypeOK, OthersStay, AtWork
  <1>6. CASE UNCHANGED <<rows, crossed>>
    <2>1. TypeOK'
      BY <1>1, <1>2, <1>5, <1>6, <1>9 DEF TypeOK
    <2>2. TargetStaysOld'
      BY <1>2, <1>4, <1>6 DEF TargetStaysOld, OthersStay
    <2> QED BY <1>2, <1>3, <1>4, <1>6, <2>1, <2>2
            DEF SaverSawTop, RowsOfDone, IdsDistinct, VersionsDistinct, SomeCurrent,
                AlwaysOneToShow, Current, OthersStay, TypeOK, RoomItinerary
  <1>7. CASE /\ Exists(req[q].prev)
             /\ rows' = {IF x.id = req[q].prev THEN [x EXCEPT !.current = TRUE] ELSE x :
                           x \in {y \in rows : y.id # req[q].cur}}
             /\ crossed' = (crossed \/ \E p \in Requests : req[p].pc = "returning")
    <2> DEFINE left == {y \in rows : y.id # req[q].cur}
    <2>1. left \subseteq RoomItinerary
      BY DEF TypeOK
    <2>2. /\ rows' \subseteq RoomItinerary
          /\ \A y \in rows' : \E x \in left :
               /\ x.id = y.id /\ x.version = y.version
               /\ y = Mark(x, req[q].prev, TRUE)
          /\ \A x \in left : x.id = req[q].prev =>
               \E y \in rows' : y.current = TRUE
      <3>1. rows' = Marked(left, req[q].prev, TRUE) /\ left \in SUBSET RoomItinerary
        BY <1>7, <2>1 DEF Marked, Mark
      <3> HIDE DEF left
      <3>2. /\ Marked(left, req[q].prev, TRUE) \subseteq RoomItinerary
            /\ \A y \in Marked(left, req[q].prev, TRUE) : \E x \in left :
                 /\ x.id = y.id /\ x.version = y.version
                 /\ y = Mark(x, req[q].prev, TRUE)
            /\ \A x \in left : x.id = req[q].prev =>
                 \E y \in Marked(left, req[q].prev, TRUE) : y.current = TRUE
        BY <3>1, Remarked, Zenon
      <3> QED BY <3>1, <3>2, Zenon
    <2>3. TypeOK'
      BY <1>1, <1>2, <1>5, <1>9, <2>2 DEF TypeOK
    <2>4. RowsOfDone'
      BY <1>4, <2>2 DEF RowsOfDone, TypeOK, RoomItinerary
    <2>5. IdsDistinct' /\ VersionsDistinct'
      <3> SUFFICES ASSUME NEW y \in rows', NEW z \in rows',
                          y.version = z.version \/ y.id = z.id
                   PROVE  y = z
        BY DEF IdsDistinct, VersionsDistinct
      <3>1. PICK x \in left :
              /\ x.id = y.id /\ x.version = y.version
              /\ y = Mark(x, req[q].prev, TRUE)
        BY <2>2
      <3>2. PICK w \in left :
              /\ w.id = z.id /\ w.version = z.version
              /\ z = Mark(w, req[q].prev, TRUE)
        BY <2>2
      <3>3. x = w
        BY <3>1, <3>2 DEF VersionsDistinct, IdsDistinct
      <3> QED BY <3>1, <3>2, <3>3
    <2>6. SomeCurrent'
      <3> SUFFICES ASSUME ~ crossed' PROVE AlwaysOneToShow'
        BY DEF SomeCurrent
      <3>1. PICK x \in rows : x.id = req[q].prev
        BY <1>7 DEF Exists
      <3>2. x \in left
        BY <1>1, <1>9, <3>1 DEF UndoKeepsTarget
      <3>3. \E y \in rows' : y.current = TRUE
        BY <2>2, <3>1, <3>2
      <3> QED BY <3>3 DEF AlwaysOneToShow, Current
    <2>7. SaverSawTop'
      BY <1>2, <2>2 DEF SaverSawTop, OthersStay
    <2>8. TargetStaysOld'
      BY <1>2, <1>7 DEF TargetStaysOld, OthersStay
    <2> QED BY <1>3, <2>3, <2>4, <2>5, <2>6, <2>7, <2>8
  <1> QED BY <1>6, <1>7 DEF UndoWrite, Returned

LEMMA StepInv == Inv /\ [Next]_vars => Inv'
  <1> SUFFICES ASSUME Inv, [Next]_vars PROVE Inv'
    OBVIOUS
  <1> USE DEF Inv
  <1>0. CASE UNCHANGED vars
    <2>1. TypeOK' /\ SaversHoldLock'
      BY <1>0 DEF vars, TypeOK, SaversHoldLock
    <2> QED BY <1>0, <2>1, TableStays DEF vars
  <1>1. CASE Crash
    <2>1. req' \in [Requests -> Request] /\ \A q \in Requests : req'[q].pc \in {"new", "done"}
      BY <1>1 DEF Crash, InFlight, TypeOK, Request, PC
    <2>2. lock' \in {"free", "orphan"} /\ UNCHANGED <<rows, crossed>>
      BY <1>1 DEF Crash, TypeOK
    <2>3. \A q \in Requests : req[q].pc = "done" => req'[q].pc = "done"
      BY <1>1 DEF Crash, InFlight, TypeOK
    <2>4. TypeOK' /\ SaversHoldLock'
      BY <2>1, <2>2, RequestsAssumption DEF TypeOK, SaversHoldLock, AtWork
    <2> QED BY <2>1, <2>2, <2>3, <2>4, TableStays
  <1>2. CASE LockExpires
    <2>1. TypeOK' /\ SaversHoldLock'
      BY <1>2, RequestsAssumption DEF LockExpires, TypeOK, SaversHoldLock
    <2> QED BY <1>2, <2>1, TableStays DEF LockExpires
  <1>3. ASSUME NEW q \in Requests, Step(q) PROVE Inv'
    <2>1. CASE SaveWrite(q)
      BY <2>1, SaveInv
    <2>2. CASE UndoWrite(q)
      BY <2>2, UndoInv
    <2>3. CASE ModifyRead(q)
      <3>1. PICK x \in Current(rows) :
              req' = [req EXCEPT ![q] = [req[q] EXCEPT !.pc = "waiting", !.base = x.payload]]
        BY <2>3 DEF ModifyRead, TypeOK
      <3>2. x.payload \in Payloads
        BY DEF Current, TypeOK, RoomItinerary
      <3>3. [req[q] EXCEPT !.pc = "waiting", !.base = x.payload] \in Request
              /\ [req[q] EXCEPT !.pc = "waiting", !.base = x.payload].pc = "waiting"
        BY <3>2 DEF TypeOK, Request, PC
      <3>4. req' \in [Requests -> Request] /\ req'[q].pc = "waiting" /\ OthersStay(q)
        BY <3>1, <3>3 DEF TypeOK, OthersStay
      <3>5. req[q].pc = "new" /\ UNCHANGED <<lock, rows, crossed>>
        BY <2>3 DEF ModifyRead, MayStart
      <3>6. TypeOK' /\ SaversHoldLock'
        BY <3>4, <3>5 DEF TypeOK, SaversHoldLock, OthersStay, AtWork
      <3> QED BY <3>4, <3>5, <3>6, TableStays DEF OthersStay
    <2>4. CASE PublishBegin(q) \/ RoomBusy(q) \/ UndoFails(q)
      <3>1. req' \in [Requests -> Request] /\ req'[q].pc \in {"waiting", "done"}
              /\ OthersStay(q)
        BY <2>4 DEF PublishBegin, RoomBusy, UndoFails, Leave, TypeOK, Request, PC, OthersStay
      <3>2. req[q].pc \in {"new", "waiting", "returning", "undoing"} /\ UNCHANGED <<lock, rows, crossed>>
        BY <2>4 DEF PublishBegin, RoomBusy, UndoFails, Undoing, MayStart
      <3>3. TypeOK' /\ SaversHoldLock'
        BY <3>1, <3>2 DEF TypeOK, SaversHoldLock, OthersStay, AtWork
      <3> QED BY <3>1, <3>2, <3>3, TableStays DEF OthersStay
    <2>5. CASE TakeLock(q)
      <3>1. req' \in [Requests -> Request] /\ req'[q].pc = "working" /\ OthersStay(q)
        BY <2>5 DEF TakeLock, TypeOK, Request, PC, OthersStay
      <3>2. req[q].pc = "waiting" /\ lock \notin Requests /\ lock' = q /\ UNCHANGED <<rows, crossed>>
        BY <2>5 DEF TakeLock, LockFree
      <3>3. TypeOK' /\ SaversHoldLock'
        BY <3>1, <3>2, RequestsAssumption DEF TypeOK, SaversHoldLock, OthersStay, AtWork
      <3> QED BY <3>1, <3>2, <3>3, TableStays DEF OthersStay
    <2>6. CASE Withdraw(q)
      <3>1. req' \in [Requests -> Request] /\ req'[q].pc = "done" /\ OthersStay(q)
        BY <2>6, LeaveFacts DEF Withdraw
      <3>2. /\ req[q].pc \in AtWork /\ lock = q /\ lock' \in {"free", "orphan"}
            /\ UNCHANGED <<rows, crossed>>
        BY <2>6 DEF Withdraw, Unlock, SaversHoldLock
      <3>3. TypeOK' /\ SaversHoldLock'
        BY <3>1, <3>2, RequestsAssumption DEF TypeOK, SaversHoldLock, OthersStay, AtWork
      <3> QED BY <3>1, <3>2, <3>3, TableStays DEF OthersStay
    <2>7. CASE SaveRead(q)
      <3>1. PICK id \in Requests \cup {NoRow} :
              req' = [req EXCEPT ![q] = [req[q] EXCEPT !.pc = "numbering", !.cur = id]]
        BY <2>7 DEF SaveRead, TypeOK
      <3>2. [req[q] EXCEPT !.pc = "numbering", !.cur = id] \in Request
              /\ [req[q] EXCEPT !.pc = "numbering", !.cur = id].pc = "numbering"
        BY DEF TypeOK, Request, PC
      <3>3. req' \in [Requests -> Request] /\ req'[q].pc = "numbering" /\ OthersStay(q)
        BY <3>1, <3>2 DEF TypeOK, OthersStay
      <3>4. req[q].pc = "working" /\ lock = q /\ UNCHANGED <<lock, rows, crossed>>
        BY <2>7 DEF SaveRead, SaversHoldLock, AtWork
      <3>5. TypeOK' /\ SaversHoldLock'
        BY <3>3, <3>4 DEF TypeOK, SaversHoldLock, OthersStay, AtWork
      <3> QED BY <3>3, <3>4, <3>5, TableStays DEF OthersStay
    <2>8. CASE SaveReadTop(q)
      <3>1. PICK v \in {0} \cup {x.version : x \in rows} :
              /\ ReadsTop(v)
              /\ req' = [req EXCEPT ![q].pc = "saving", ![q].top = v]
        BY <2>8 DEF SaveReadTop
      <3>9. req' = [req EXCEPT ![q] = [req[q] EXCEPT !.pc = "saving", !.top = v]]
        BY <3>1 DEF TypeOK
      <3>2. v \in Nat
        BY DEF TypeOK, RoomItinerary
      <3>3. [req[q] EXCEPT !.pc = "saving", !.top = v] \in Request
              /\ [req[q] EXCEPT !.pc = "saving", !.top = v].pc = "saving"
              /\ [req[q] EXCEPT !.pc = "saving", !.top = v].top = v
        BY <3>2 DEF TypeOK, Request, PC
      <3>4. req' \in [Requests -> Request] /\ req'[q].pc = "saving" /\ req'[q].top = v
              /\ OthersStay(q)
        BY <3>9, <3>3 DEF TypeOK, OthersStay
      <3>5. \A x \in rows : x.version <= v
        BY <3>1 DEF ReadsTop
      <3>6. req[q].pc = "numbering" /\ lock = q /\ UNCHANGED <<lock, rows, crossed>>
        BY <2>8 DEF SaveReadTop, SaversHoldLock, AtWork
      <3>7. TypeOK' /\ SaversHoldLock' /\ SaverSawTop'
        BY <3>4, <3>5, <3>6 DEF TypeOK, SaversHoldLock, SaverSawTop, OthersStay, AtWork
      <3>8. RowsOfDone' /\ UndoKeepsTarget' /\ TargetStaysOld'
        BY <3>4, <3>6
           DEF RowsOfDone, UndoKeepsTarget, TargetStaysOld, OthersStay, TypeOK, RoomItinerary
      <3>10. IdsDistinct' /\ VersionsDistinct' /\ SomeCurrent'
        BY <3>6 DEF IdsDistinct, VersionsDistinct, SomeCurrent, AlwaysOneToShow, Current
      <3> QED BY <3>7, <3>8, <3>10
    <2>9. CASE UndoReadPrevious(q)
      <3>1. PICK p \in Requests :
              /\ ReadsPrevious(p)
              /\ req' = [req EXCEPT ![q] = [req[q] EXCEPT !.pc = "returning", !.prev = p]]
        BY <2>9 DEF UndoReadPrevious, TypeOK
      <3>2. req[p].pc = "done" /\ \A x \in rows : x.id = p => ~ x.current
        BY <3>1 DEF ReadsPrevious, RowsOfDone, IdsDistinct
      <3>3. [req[q] EXCEPT !.pc = "returning", !.prev = p] \in Request
              /\ [req[q] EXCEPT !.pc = "returning", !.prev = p].pc = "returning"
              /\ [req[q] EXCEPT !.pc = "returning", !.prev = p].prev = p
        BY DEF TypeOK, Request, PC
      <3>4. req' \in [Requests -> Request] /\ req'[q].pc = "returning"
              /\ req'[q].prev = p /\ OthersStay(q)
        BY <3>1, <3>3 DEF TypeOK, OthersStay
      <3>5. req[q].pc = "new" /\ UNCHANGED <<lock, rows, crossed>>
        BY <2>9 DEF UndoReadPrevious, MayUndo, MayStart
      <3>6. TypeOK' /\ SaversHoldLock' /\ SaverSawTop' /\ UndoKeepsTarget'
        BY <3>4, <3>5
           DEF TypeOK, SaversHoldLock, SaverSawTop, UndoKeepsTarget, OthersStay, AtWork
      <3>7. RowsOfDone' /\ TargetStaysOld'
        BY <3>2, <3>4, <3>5
           DEF RowsOfDone, TargetStaysOld, OthersStay, TypeOK, RoomItinerary
      <3>8. IdsDistinct' /\ VersionsDistinct' /\ SomeCurrent'
        BY <3>5 DEF IdsDistinct, VersionsDistinct, SomeCurrent, AlwaysOneToShow, Current
      <3> QED BY <3>6, <3>7, <3>8
    <2>10. CASE UndoReadCurrent(q)
      <3>1. PICK c \in Requests \cup {NoRow} :
              /\ ReadsCurrent(c)
              /\ req' = [req EXCEPT ![q] = [req[q] EXCEPT !.pc = "undoing", !.cur = c]]
        BY <2>10 DEF UndoReadCurrent, TypeOK
      <3>2. req[q].pc = "returning" /\ UNCHANGED <<lock, rows, crossed>>
        BY <2>10 DEF UndoReadCurrent
      <3>3. ~ crossed => req[q].prev # c
        BY <3>1, <3>2, RequestsAssumption
           DEF TargetStaysOld, ReadsCurrent, Current, NoRow
      <3>4. [req[q] EXCEPT !.pc = "undoing", !.cur = c] \in Request
              /\ [req[q] EXCEPT !.pc = "undoing", !.cur = c].pc = "undoing"
              /\ [req[q] EXCEPT !.pc = "undoing", !.cur = c].cur = c
              /\ [req[q] EXCEPT !.pc = "undoing", !.cur = c].prev = req[q].prev
        BY DEF TypeOK, Request, PC
      <3>5. req' \in [Requests -> Request] /\ req'[q].pc = "undoing" /\ req'[q].cur = c
              /\ req'[q].prev = req[q].prev /\ OthersStay(q)
        BY <3>1, <3>4 DEF TypeOK, OthersStay
      <3>6. TypeOK' /\ SaversHoldLock' /\ SaverSawTop' /\ UndoKeepsTarget'
        BY <3>2, <3>3, <3>5
           DEF TypeOK, SaversHoldLock, SaverSawTop, UndoKeepsTarget, OthersStay, AtWork
      <3>7. RowsOfDone' /\ TargetStaysOld'
        BY <3>2, <3>5 DEF RowsOfDone, TargetStaysOld, OthersStay, TypeOK, RoomItinerary
      <3>8. IdsDistinct' /\ VersionsDistinct' /\ SomeCurrent'
        BY <3>2 DEF IdsDistinct, VersionsDistinct, SomeCurrent, AlwaysOneToShow, Current
      <3> QED BY <3>6, <3>7, <3>8
    <2> QED BY <1>3, <2>1, <2>2, <2>3, <2>4, <2>5, <2>6, <2>7, <2>8, <2>9, <2>10 DEF Step
  <1> QED BY <1>0, <1>1, <1>2, <1>3 DEF Next

\* Only a request that is changing the itinerary holds the room's lock, and
\* rows and requests keep their form (rooms/service.py, bff/rooms.py).
THEOREM TypeCorrect == Spec => []TypeOK
  <1>1. Inv => TypeOK
    BY DEF Inv
  <1> QED BY InitInv, StepInv, <1>1, PTL DEF Spec

\* However saves and undos interleave, version numbers never collide.
THEOREM NumbersDistinct == Spec => []VersionsDistinct
  <1>1. Inv => VersionsDistinct
    BY DEF Inv
  <1> QED BY InitInv, StepInv, <1>1, PTL DEF Spec

\* However saves, undos and restarts interleave, a room that has versions has
\* a current one, unless an undo commits between the two reads of another.
THEOREM AlwaysShown == Spec => []SomeCurrent
  <1>1. Inv => SomeCurrent
    BY DEF Inv
  <1> QED BY InitInv, StepInv, <1>1, PTL DEF Spec

-----------------------------------------------------------------------------
(* Tables and histories.  HistoryOf reads the rows in the order of their   *)
(* version numbers: the lemmas below say what it returns and how it changes *)
(* with the table.                                                          *)

\* A table with one row per version number.
Table(rs) ==
    /\ rs \in SUBSET RoomItinerary
    /\ IsFiniteSet(rs)
    /\ \A x, y \in rs : x.version = y.version => x = y

\* How many versions are older than x.
Below(rs, x) == {y \in rs : y.version < x.version}
Rank(rs, x) == Cardinality(Below(rs, x))

LEMMA RanksDiffer ==
  ASSUME NEW rs, Table(rs), NEW x \in rs, NEW y \in rs, x.version < y.version
  PROVE  Rank(rs, x) < Rank(rs, y)
  <1> DEFINE A == Below(rs, x)
             B == Below(rs, y)
  <1>1. IsFiniteSet(A) /\ IsFiniteSet(B)
    BY FS_Subset DEF Table, Below
  <1>2. Cardinality(A) \in Nat /\ Cardinality(B) \in Nat
    BY <1>1, FS_CardinalityType
  <1>3. \A z \in rs : z.version \in Nat
    BY DEF Table, RoomItinerary
  <1>4. x \notin A /\ A \cup {x} \subseteq B
    BY <1>3 DEF Below
  <1> HIDE DEF A, B
  <1>5. IsFiniteSet(A \cup {x}) /\ Cardinality(A \cup {x}) = Cardinality(A) + 1
    BY <1>1, <1>4, FS_AddElement
  <1>6. Cardinality(A \cup {x}) <= Cardinality(B)
    BY <1>1, <1>4, FS_Subset
  <1>7. Cardinality(A) < Cardinality(B)
    BY <1>2, <1>5, <1>6
  <1> QED BY <1>7 DEF Rank, A, B

\* The rows of a table have the ranks from 0 on, one each.
LEMMA Ranks ==
  ASSUME NEW rs, Table(rs)
  PROVE  /\ Cardinality(rs) \in Nat
         /\ \A x \in rs : Rank(rs, x) \in Nat /\ Rank(rs, x) + 1 \in 1..Cardinality(rs)
         /\ \A x, y \in rs : Rank(rs, x) = Rank(rs, y) => x = y
         /\ \A i \in 1..Cardinality(rs) : \E x \in rs : Rank(rs, x) = i - 1
  <1>1. IsFiniteSet(rs) /\ Cardinality(rs) \in Nat
    BY FS_CardinalityType DEF Table
  <1>2. ASSUME NEW x \in rs
        PROVE  Rank(rs, x) \in Nat /\ Rank(rs, x) + 1 \in 1..Cardinality(rs)
    <2>1. Below(rs, x) \subseteq rs \ {x}
      BY DEF Below, Table, RoomItinerary
    <2>2. IsFiniteSet(rs \ {x}) /\ Cardinality(rs \ {x}) = Cardinality(rs) - 1
      BY <1>1, FS_RemoveElement
    <2>3. IsFiniteSet(Below(rs, x)) /\ Cardinality(Below(rs, x)) <= Cardinality(rs \ {x})
      BY <2>1, <2>2, FS_Subset
    <2>4. Cardinality(Below(rs, x)) \in Nat
      BY <2>3, FS_CardinalityType
    <2> QED BY <1>1, <2>2, <2>3, <2>4 DEF Rank
  <1>3. ASSUME NEW x \in rs, NEW y \in rs, Rank(rs, x) = Rank(rs, y)
        PROVE  x = y
    <2>1. x.version \in Nat /\ y.version \in Nat
      BY DEF Table, RoomItinerary
    <2>2. ~ (x.version < y.version) /\ ~ (y.version < x.version)
      BY <1>2, <1>3, RanksDiffer
    <2>3. x.version = y.version
      BY <2>1, <2>2
    <2> QED BY <2>3 DEF Table
  <1>4. \A i \in 1..Cardinality(rs) : \E x \in rs : Rank(rs, x) = i - 1
    <2> DEFINE T == 1..Cardinality(rs)
               f == [x \in rs |-> Rank(rs, x) + 1]
    <2>1. f \in [rs -> T]
      BY <1>2
    <2>2. \A x, y \in rs : f[x] = f[y] => x = y
      BY <1>2, <1>3
    <2>3. f \in Injection(rs, T)
      BY <2>1, <2>2 DEF Injection, IsInjective
    <2>4. IsFiniteSet(T) /\ Cardinality(T) = Cardinality(rs)
      BY <1>1, FS_Interval
    <2>5. f \in Surjection(rs, T)
      <3> HIDE DEF T, f
      <3> QED BY <2>3, <2>4, FS_Injection
    <2>6. \A i \in T : \E x \in rs : f[x] = i
      BY <2>5 DEF Surjection
    <2> QED BY <2>6, <1>2
  <1> QED BY <1>1, <1>2, <1>3, <1>4

\* What HistoryOf returns.
LEMMA HistoryIs ==
  ASSUME NEW rs, Table(rs)
  PROVE  /\ HistoryOf(rs) \in Seq(Payloads)
         /\ Len(HistoryOf(rs)) = Cardinality(rs)
         /\ \A x \in rs : HistoryOf(rs)[Rank(rs, x) + 1] = x.payload
  <1> DEFINE N == Cardinality(rs)
             at(i) == CHOOSE x \in rs : Rank(rs, x) = i - 1
             h == [i \in 1..N |-> at(i).payload]
  <1>1. HistoryOf(rs) = h
    BY DEF HistoryOf, Rank, Below
  <1>2. \A i \in 1..N : at(i) \in rs /\ Rank(rs, at(i)) = i - 1
    BY Ranks
  <1>3. \A x \in rs : Rank(rs, x) \in Nat /\ Rank(rs, x) + 1 \in 1..N
    BY Ranks
  <1>4. \A x \in rs : at(Rank(rs, x) + 1) = x
    <2> HIDE DEF at, N
    <2> TAKE x \in rs
    <2>1. at(Rank(rs, x) + 1) \in rs /\ Rank(rs, at(Rank(rs, x) + 1)) = Rank(rs, x) + 1 - 1
      BY <1>2, <1>3
    <2>2. Rank(rs, at(Rank(rs, x) + 1)) = Rank(rs, x)
      BY <1>3, <2>1
    <2> QED BY <2>1, <2>2, Ranks
  <1>5. N \in Nat
    BY Ranks
  <1>6. \A x \in rs : x.payload \in Payloads
    BY DEF Table, RoomItinerary
  <1> HIDE DEF at, N
  <1>7. h \in [1..N -> Payloads]
    BY <1>2, <1>6
  <1>8. h \in Seq(Payloads) /\ Len(h) = N
    BY <1>5, <1>7, SeqDef
  <1>9. \A x \in rs : h[Rank(rs, x) + 1] = x.payload
    BY <1>3, <1>4
  <1> QED BY <1>1, <1>8, <1>9 DEF N

\* It is the one sequence that has each row's itinerary at the row's rank.
LEMMA HistoryUnique ==
  ASSUME NEW rs, Table(rs), NEW h \in Seq(Payloads), Len(h) = Cardinality(rs),
         \A x \in rs : h[Rank(rs, x) + 1] = x.payload
  PROVE  h = HistoryOf(rs)
  <1> DEFINE g == HistoryOf(rs)
  <1>1. g \in Seq(Payloads) /\ Len(g) = Len(h)
    BY HistoryIs
  <1>2. ASSUME NEW i \in 1..Len(h)
        PROVE  h[i] = g[i]
    <2>1. Cardinality(rs) \in Nat
      BY Ranks
    <2>2. PICK x \in rs : Rank(rs, x) = i - 1
      BY Ranks
    <2>3. Rank(rs, x) + 1 = i
      BY <2>1, <2>2
    <2>4. g[Rank(rs, x) + 1] = x.payload
      BY HistoryIs
    <2> QED BY <2>3, <2>4
  <1> HIDE DEF g
  <1>3. h = g
    BY <1>1, <1>2, SeqEqual
  <1> QED BY <1>3 DEF g

\* Marking rows changes neither how many there are nor their ranks.
LEMMA MarkedCount ==
  ASSUME NEW rs, Table(rs), NEW id, NEW b \in BOOLEAN
  PROVE  IsFiniteSet(Marked(rs, id, b)) /\ Cardinality(Marked(rs, id, b)) = Cardinality(rs)
  <1> DEFINE ss == Marked(rs, id, b)
             f == [x \in rs |-> Mark(x, id, b)]
  <1>1. \A x \in rs : Mark(x, id, b).version = x.version
    BY MarkFacts DEF Table
  <1>2. f \in [rs -> ss]
    BY DEF Marked
  <1>3. \A y \in ss : \E x \in rs : f[x] = y
    BY DEF Marked
  <1>4. f \in Surjection(rs, ss)
    BY <1>2, <1>3 DEF Surjection
  <1>5. \A x, y \in rs : f[x] = f[y] => x = y
    <2> SUFFICES ASSUME NEW x \in rs, NEW y \in rs, Mark(x, id, b) = Mark(y, id, b)
                 PROVE  x = y
      OBVIOUS
    <2>1. x.version = y.version
      BY <1>1
    <2> QED BY <2>1 DEF Table
  <1>6. f \in Injection(rs, ss)
    BY <1>2, <1>5 DEF Injection, IsInjective
  <1>7. IsFiniteSet(rs)
    BY DEF Table
  <1> HIDE DEF ss, f
  <1>8. IsFiniteSet(ss) /\ Cardinality(ss) = Cardinality(rs)
    BY <1>4, <1>6, <1>7, FS_Surjection
  <1> QED BY <1>8 DEF ss

LEMMA MarkedTable ==
  ASSUME NEW rs, Table(rs), NEW id, NEW b \in BOOLEAN
  PROVE  /\ Table(Marked(rs, id, b))
         /\ Cardinality(Marked(rs, id, b)) = Cardinality(rs)
         /\ HistoryOf(Marked(rs, id, b)) = HistoryOf(rs)
  <1> DEFINE ss == Marked(rs, id, b)
  <1>1. \A x \in rs : /\ Mark(x, id, b) \in RoomItinerary
                      /\ Mark(x, id, b).version = x.version
                      /\ Mark(x, id, b).payload = x.payload
    BY DEF Mark, RoomItinerary, Table
  <1>2. IsFiniteSet(ss) /\ Cardinality(ss) = Cardinality(rs)
    BY MarkedCount
  <1>3. ss \in SUBSET RoomItinerary
    BY <1>1 DEF Marked
  <1>4. ASSUME NEW y \in ss, NEW z \in ss, y.version = z.version
        PROVE  y = z
    <2>1. PICK x \in rs : y = Mark(x, id, b)
      BY DEF Marked
    <2>2. PICK w \in rs : z = Mark(w, id, b)
      BY DEF Marked
    <2>3. x = w
      BY <1>1, <1>4, <2>1, <2>2 DEF Table
    <2> QED BY <2>1, <2>2, <2>3
  <1>5. Table(ss)
    BY <1>2, <1>3, <1>4 DEF Table
  <1>6. ASSUME NEW x \in rs
        PROVE  Rank(ss, Mark(x, id, b)) = Rank(rs, x)
    <2>1. Below(ss, Mark(x, id, b)) = Marked(Below(rs, x), id, b)
      <3>1. \A y \in Below(rs, x) : y \in rs /\ y.version < x.version
        BY DEF Below
      <3>2. \A y \in rs : y.version < x.version => y \in Below(rs, x)
        BY DEF Below
      <3>3. \A z : z \in Below(ss, Mark(x, id, b))
                     <=> z \in ss /\ z.version < x.version
        BY <1>1 DEF Below
      <3>4. \A z : z \in Marked(Below(rs, x), id, b)
                     <=> \E y \in Below(rs, x) : z = Mark(y, id, b)
        BY DEF Marked
      <3>5. \A z : z \in ss <=> \E y \in rs : z = Mark(y, id, b)
        BY DEF Marked
      <3> HIDE DEF ss
      <3>6. \A z : z \in Below(ss, Mark(x, id, b)) <=> z \in Marked(Below(rs, x), id, b)
        BY <1>1, <3>1, <3>2, <3>3, <3>4, <3>5
      <3> QED BY <3>6
    <2>2. Table(Below(rs, x))
      BY FS_Subset DEF Table, Below
    <2>3. Cardinality(Marked(Below(rs, x), id, b)) = Cardinality(Below(rs, x))
      BY <2>2, MarkedCount
    <2> HIDE DEF ss
    <2> QED BY <2>1, <2>3 DEF Rank
  <1>7. ASSUME NEW y \in ss
        PROVE  HistoryOf(rs)[Rank(ss, y) + 1] = y.payload
    <2>1. PICK x \in rs : y = Mark(x, id, b)
      BY DEF Marked
    <2>2. HistoryOf(rs)[Rank(rs, x) + 1] = x.payload
      BY HistoryIs
    <2> QED BY <1>1, <1>6, <2>1, <2>2
  <1> HIDE DEF ss
  <1>8. HistoryOf(rs) \in Seq(Payloads) /\ Len(HistoryOf(rs)) = Cardinality(ss)
    BY <1>2, HistoryIs
  <1>9. HistoryOf(ss) = HistoryOf(rs)
    BY <1>5, <1>7, <1>8, HistoryUnique
  <1> QED BY <1>2, <1>5, <1>9 DEF ss

\* A row newer than all others is appended.
LEMMA NewestAppended ==
  ASSUME NEW rs, Table(rs), NEW n \in RoomItinerary,
         \A x \in rs : x.version < n.version
  PROVE  /\ Table(rs \cup {n})
         /\ Cardinality(rs \cup {n}) = Cardinality(rs) + 1
         /\ HistoryOf(rs \cup {n}) = Append(HistoryOf(rs), n.payload)
  <1> DEFINE ss == rs \cup {n}
             h == Append(HistoryOf(rs), n.payload)
  <1>1. n.version \in Nat /\ n.payload \in Payloads /\ \A x \in rs : x.version \in Nat
    BY DEF Table, RoomItinerary
  <1>2. n \notin rs
    BY <1>1
  <1>3. IsFiniteSet(ss) /\ Cardinality(ss) = Cardinality(rs) + 1
    BY <1>2, FS_AddElement DEF Table
  <1>4. Table(ss)
    BY <1>1, <1>3 DEF Table
  <1>5. Rank(ss, n) = Cardinality(rs)
    <2>1. Below(ss, n) = rs
      BY <1>1 DEF Below
    <2> QED BY <2>1 DEF Rank
  <1>6. ASSUME NEW x \in rs
        PROVE  Rank(ss, x) = Rank(rs, x)
    <2>1. Below(ss, x) = Below(rs, x)
      BY <1>1 DEF Below
    <2> QED BY <2>1 DEF Rank
  <1>7. /\ HistoryOf(rs) \in Seq(Payloads) /\ Len(HistoryOf(rs)) = Cardinality(rs)
        /\ \A x \in rs : HistoryOf(rs)[Rank(rs, x) + 1] = x.payload
    BY HistoryIs
  <1>8. /\ h \in Seq(Payloads)
        /\ Len(h) = Cardinality(rs) + 1
        /\ \A i \in 1..Cardinality(rs) : h[i] = HistoryOf(rs)[i]
        /\ h[Cardinality(rs) + 1] = n.payload
    BY <1>1, <1>7, AppendProperties
  <1>9. \A x \in rs : Rank(rs, x) + 1 \in 1..Cardinality(rs)
    BY Ranks
  <1>10. ASSUME NEW x \in ss
         PROVE  h[Rank(ss, x) + 1] = x.payload
    <2>1. CASE x \in rs
      BY <2>1, <1>6, <1>7, <1>8, <1>9
    <2>2. CASE x = n
      BY <2>2, <1>5, <1>8
    <2> QED BY <2>1, <2>2
  <1> HIDE DEF ss, h
  <1>11. h = HistoryOf(ss)
    BY <1>3, <1>4, <1>8, <1>10, HistoryUnique
  <1> QED BY <1>3, <1>4, <1>11 DEF ss, h

\* Without its newest row, a table is the history without its end.
LEMMA NewestRemoved ==
  ASSUME NEW rs, Table(rs), NEW n \in rs, \A x \in rs : x.version <= n.version
  PROVE  /\ Table(rs \ {n})
         /\ Cardinality(rs) \in Nat /\ Cardinality(rs \ {n}) = Cardinality(rs) - 1
         /\ HistoryOf(rs \ {n})
              = SubSeq(HistoryOf(rs), 1, Len(HistoryOf(rs)) - 1)
         /\ HistoryOf(rs)[Len(HistoryOf(rs))] = n.payload
  <1> DEFINE ss == rs \ {n}
             h == HistoryOf(ss)
  <1>1. IsFiniteSet(ss) /\ Cardinality(rs) \in Nat /\ Cardinality(ss) = Cardinality(rs) - 1
    BY FS_RemoveElement, FS_CardinalityType DEF Table
  <1>2. Table(ss)
    BY <1>1 DEF Table
  <1>3. n \in RoomItinerary /\ n.payload \in Payloads
    BY DEF Table, RoomItinerary
  <1>4. \A x \in ss : x.version < n.version
    BY DEF Table, RoomItinerary
  <1>5. ss \cup {n} = rs
    OBVIOUS
  <1> HIDE DEF ss
  <1>6. HistoryOf(rs) = Append(h, n.payload)
    BY <1>2, <1>3, <1>4, <1>5, NewestAppended
  <1>7. h \in Seq(Payloads) /\ Len(h) \in Nat
    BY <1>2, HistoryIs, LenProperties
  <1> HIDE DEF h
  <1>8. /\ HistoryOf(rs) \in Seq(Payloads)
        /\ Len(HistoryOf(rs)) = Len(h) + 1
        /\ \A i \in 1..Len(h) : HistoryOf(rs)[i] = h[i]
        /\ HistoryOf(rs)[Len(h) + 1] = n.payload
    BY <1>3, <1>6, <1>7, AppendProperties
  <1> DEFINE g == SubSeq(HistoryOf(rs), 1, Len(h))
  <1>9. \A i \in 1..Len(h) : HistoryOf(rs)[i] \in Payloads
    BY <1>7, <1>8, ElementOfSeq
  <1>10. /\ g \in Seq(Payloads) /\ Len(g) = Len(h)
         /\ \A i \in 1..Len(h) : g[i] = h[i]
    <2> DEFINE k == Len(h)
               hh == HistoryOf(rs)
    <2>1. k \in Nat /\ (\A i \in 1..k : hh[i] \in Payloads)
            /\ 1 \in Int /\ k \in Int
      BY <1>7, <1>9
    <2> HIDE DEF k, hh
    <2>2. /\ SubSeq(hh, 1, k) \in Seq(Payloads)
          /\ Len(SubSeq(hh, 1, k)) = IF 1 <= k THEN k - 1 + 1 ELSE 0
          /\ \A i \in 1..(k - 1 + 1) : SubSeq(hh, 1, k)[i] = hh[1 + i - 1]
      BY <2>1, SubSeqProperties
    <2>3. Len(SubSeq(hh, 1, k)) = k /\ \A i \in 1..k : SubSeq(hh, 1, k)[i] = hh[i]
      BY <2>1, <2>2
    <2> QED BY <2>2, <2>3, <1>8 DEF k, hh
  <1> HIDE DEF g
  <1>11. g = h
    BY <1>7, <1>10, SeqEqual
  <1>12. Len(HistoryOf(rs)) - 1 = Len(h)
    BY <1>7, <1>8
  <1> QED BY <1>1, <1>2, <1>8, <1>11, <1>12 DEF ss, g, h

-----------------------------------------------------------------------------
(* The cleanup.                                                             *)

\* What the cleanup of a table that is one row too long removes.
LEMMA CleanupIs ==
  ASSUME NEW rs, Table(rs), Cardinality(rs) <= Keep + 1
  PROVE  \/ Cardinality(rs) <= Keep /\ Cleanup(rs) = rs
         \/ /\ Cardinality(rs) = Keep + 1
            /\ \E x \in rs : Rank(rs, x) = 0 /\ Cleanup(rs) = rs \ {x}
  <1> DEFINE Above(x) == {y \in rs : y.version > x.version}
             N == Cardinality(rs)
  <1>1. N \in Nat /\ Keep \in Nat \ {0}
    BY Ranks, KeepAssumption
  <1>2. ASSUME NEW x \in rs
        PROVE  /\ Cardinality(Above(x)) \in Nat
               /\ Cardinality(Above(x)) + Rank(rs, x) + 1 = N
    <2>1. \A y \in rs : y.version \in Nat
      BY DEF Table, RoomItinerary
    <2>2. Above(x) \cup Below(rs, x) = rs \ {x} /\ Above(x) \cap Below(rs, x) = {}
      BY <2>1 DEF Below, Table
    <2>3. IsFiniteSet(rs) /\ IsFiniteSet(Above(x)) /\ IsFiniteSet(Below(rs, x))
      BY FS_Subset DEF Table, Below
    <2>4. Cardinality(rs \ {x}) = N - 1
      BY <2>3, FS_RemoveElement
    <2> DEFINE A == Above(x)
               B == Below(rs, x)
    <2>5. Cardinality(A) \in Nat /\ Cardinality(B) \in Nat
      BY <2>3, FS_CardinalityType
    <2> HIDE DEF A, B
    <2>6. Cardinality(A \cup B)
            = Cardinality(A) + Cardinality(B) - Cardinality(A \cap B)
      BY <2>3, FS_Union DEF A, B
    <2>7. Cardinality(A \cap B) = 0 /\ Cardinality(A \cup B) = N - 1
      BY <2>2, <2>4, FS_EmptySet DEF A, B
    <2>8. Cardinality(A) + Cardinality(B) + 1 = N
      BY <1>1, <2>5, <2>6, <2>7
    <2> QED BY <2>5, <2>8 DEF A, B, Rank
  <1>3. \A x \in rs : x \in Cleanup(rs) <=> Cardinality(Above(x)) < Keep
    BY DEF Cleanup
  <1>4. Cleanup(rs) \subseteq rs
    BY DEF Cleanup
  <1>5. \A x \in rs : Rank(rs, x) \in Nat
    BY Ranks
  <1> HIDE DEF Above, N
  <1>6. CASE N <= Keep
    <2>1. \A x \in rs : x \in Cleanup(rs)
      BY <1>1, <1>2, <1>3, <1>5, <1>6
    <2> QED BY <1>4, <1>6, <2>1 DEF N
  <1>7. CASE N = Keep + 1
    <2>1. 1 \in 1..N
      BY <1>1, <1>7
    <2>2. PICK x \in rs : Rank(rs, x) = 1 - 1
      BY <2>1, Ranks DEF N
    <2>3. \A y \in rs : Rank(rs, y) = 0 => y = x
      BY <2>2, Ranks
    <2>4. x \notin Cleanup(rs)
      BY <1>1, <1>2, <1>3, <1>7, <2>2
    <2>5. \A y \in rs \ {x} : y \in Cleanup(rs)
      BY <1>1, <1>2, <1>3, <1>5, <1>7, <2>3
    <2>6. Cleanup(rs) = rs \ {x}
      BY <1>4, <2>4, <2>5
    <2>7. Rank(rs, x) = 0
      BY <2>2
    <2> QED BY <1>7, <2>6, <2>7 DEF N
  <1> QED BY <1>1, <1>6, <1>7 DEF N

LEMMA OldestRemoved ==
  ASSUME NEW rs, Table(rs), NEW o \in rs, Rank(rs, o) = 0
  PROVE  /\ Table(rs \ {o})
         /\ Cardinality(rs) \in Nat /\ Cardinality(rs \ {o}) = Cardinality(rs) - 1
         /\ HistoryOf(rs \ {o})
              = SubSeq(HistoryOf(rs), 2, Len(HistoryOf(rs)))
  <1> DEFINE ss == rs \ {o}
             h == HistoryOf(rs)
             N == Cardinality(rs)
             g == SubSeq(h, 2, N)
  <1>1. IsFiniteSet(ss) /\ N \in Nat /\ Cardinality(ss) = N - 1
    BY FS_RemoveElement, FS_CardinalityType DEF Table
  <1>2. Table(ss)
    BY <1>1 DEF Table
  <1>3. /\ h \in Seq(Payloads) /\ Len(h) = N
        /\ \A x \in rs : h[Rank(rs, x) + 1] = x.payload
    BY HistoryIs
  <1>4. ASSUME NEW x \in ss
        PROVE  Rank(ss, x) = Rank(rs, x) - 1 /\ Rank(rs, x) \in Nat
                 /\ Rank(rs, x) + 1 \in 2..N
    <2>1. \A y \in rs : y.version \in Nat /\ Rank(rs, y) \in Nat
                          /\ Rank(rs, y) + 1 \in 1..N
      BY Ranks DEF Table, RoomItinerary
    <2>2. Rank(rs, x) # 0
      BY Ranks
    <2>3. ~ (x.version < o.version)
      BY <2>1, RanksDiffer
    <2>4. x.version # o.version
      BY DEF Table
    <2>5. o \in Below(rs, x)
      BY <2>1, <2>3, <2>4 DEF Below
    <2>6. Below(ss, x) = Below(rs, x) \ {o}
      BY DEF Below
    <2>7. IsFiniteSet(Below(rs, x))
      BY FS_Subset DEF Table, Below
    <2>8. Cardinality(Below(rs, x) \ {o}) = Cardinality(Below(rs, x)) - 1
      BY <2>5, <2>7, FS_RemoveElement
    <2>9. Rank(ss, x) = Rank(rs, x) - 1
      BY <2>6, <2>8 DEF Rank
    <2>10. x \in rs
      OBVIOUS
    <2> HIDE DEF ss, N
    <2> QED BY <1>1, <2>1, <2>2, <2>9, <2>10
  <1>5. /\ g \in Seq(Payloads) /\ Len(g) = N - 1
        /\ \A i \in 1..(N - 1) : g[i] = h[i + 1]
    <2>1. \A i \in 2..N : h[i] \in Payloads
      BY <1>1, <1>3, ElementOfSeq
    <2>2. N \in Nat \ {0}
      BY <1>1, FS_EmptySet DEF Table
    <2> HIDE DEF N, h
    <2>3. /\ SubSeq(h, 2, N) \in Seq(Payloads)
          /\ Len(SubSeq(h, 2, N)) = IF 2 <= N THEN N - 2 + 1 ELSE 0
          /\ \A i \in 1..(N - 2 + 1) : SubSeq(h, 2, N)[i] = h[2 + i - 1]
      BY <2>1, <2>2, SubSeqProperties
    <2>4. Len(SubSeq(h, 2, N)) = N - 1
      BY <2>2, <2>3
    <2>5. \A i \in 1..(N - 1) : SubSeq(h, 2, N)[i] = h[i + 1]
      BY <2>2, <2>3
    <2> QED BY <2>3, <2>4, <2>5
  <1>6. ASSUME NEW x \in ss
        PROVE  g[Rank(ss, x) + 1] = x.payload
    <2>1. Rank(ss, x) + 1 = Rank(rs, x) /\ Rank(rs, x) \in 1..(N - 1)
      BY <1>1, <1>4
    <2>2. g[Rank(rs, x)] = h[Rank(rs, x) + 1]
      BY <1>5, <2>1
    <2> QED BY <1>3, <2>1, <2>2
  <1> HIDE DEF g, ss
  <1>7. g = HistoryOf(ss)
    BY <1>1, <1>2, <1>5, <1>6, HistoryUnique
  <1> QED BY <1>1, <1>2, <1>3, <1>7 DEF ss, g

\* The cleanup of a table that is at most one row too long.
LEMMA CleanupKeeps ==
  ASSUME NEW rs, Table(rs), Cardinality(rs) <= Keep + 1
  PROVE  /\ Table(Cleanup(rs))
         /\ Cardinality(Cleanup(rs)) <= Keep
         /\ HistoryOf(Cleanup(rs)) = History!Kept(HistoryOf(rs))
  <1>1. Len(HistoryOf(rs)) = Cardinality(rs) /\ Cardinality(rs) \in Nat
          /\ Keep \in Nat \ {0}
    BY HistoryIs, Ranks, KeepAssumption
  <1>2. CASE Cardinality(rs) <= Keep /\ Cleanup(rs) = rs
    BY <1>1, <1>2 DEF History!Kept
  <1>3. ASSUME Cardinality(rs) = Keep + 1,
               NEW x \in rs, Rank(rs, x) = 0, Cleanup(rs) = rs \ {x}
        PROVE  /\ Table(Cleanup(rs))
               /\ Cardinality(Cleanup(rs)) <= Keep
               /\ HistoryOf(Cleanup(rs)) = History!Kept(HistoryOf(rs))
    <2>1. Table(rs \ {x}) /\ Cardinality(rs \ {x}) = Cardinality(rs) - 1
            /\ HistoryOf(rs \ {x}) = SubSeq(HistoryOf(rs), 2, Len(HistoryOf(rs)))
      BY <1>3, OldestRemoved
    <2>2. Len(HistoryOf(rs)) > Keep /\ Len(HistoryOf(rs)) - Keep + 1 = 2
      BY <1>1, <1>3
    <2>3. History!Kept(HistoryOf(rs)) = SubSeq(HistoryOf(rs), 2, Len(HistoryOf(rs)))
      BY <2>2 DEF History!Kept
    <2>4. Cardinality(rs \ {x}) <= Keep
      BY <1>1, <1>3, <2>1
    <2> QED BY <1>3, <2>1, <2>3, <2>4
  <1> QED BY <1>2, <1>3, CleanupIs

-----------------------------------------------------------------------------
(* What is shown.                                                           *)

Newest(rs, x) == \A y \in rs : y.version <= x.version

\* The newest row, and no other, is current.
NewestIsCurrent(rs) == \A x \in rs : x.current <=> Newest(rs, x)

\* Every table but the empty one has a newest row.
LEMMA HasNewest ==
  ASSUME NEW rs, Table(rs), rs # {}
  PROVE  \E x \in rs : Newest(rs, x)
  <1> DEFINE N == Cardinality(rs)
  <1>1. N \in Nat \ {0}
    BY FS_EmptySet, FS_CardinalityType DEF Table
  <1>2. PICK x \in rs : Rank(rs, x) = N - 1
    BY <1>1, Ranks
  <1>3. ASSUME NEW y \in rs
        PROVE  y.version <= x.version
    <2>1. Rank(rs, y) \in Nat /\ Rank(rs, y) + 1 \in 1..N
      BY Ranks
    <2>2. ~ (Rank(rs, x) < Rank(rs, y))
      BY <1>1, <1>2, <2>1
    <2>3. ~ (x.version < y.version)
      BY <2>2, RanksDiffer
    <2> QED BY <2>3 DEF Table, RoomItinerary
  <1> QED BY <1>3 DEF Newest

\* When the newest row is the current one, the end of the history is shown.
LEMMA ShownIsLatest ==
  ASSUME NEW rs, Table(rs), NewestIsCurrent(rs)
  PROVE  ShownOf(rs) = History!Latest(HistoryOf(rs))
  <1>1. CASE rs = {}
    <2>1. Len(HistoryOf(rs)) = 0
      BY <1>1, HistoryIs, FS_EmptySet
    <2>2. Current(rs) = {}
      BY <1>1 DEF Current
    <2> QED BY <2>1, <2>2 DEF ShownOf, History!Latest, History!Nothing
  <1>2. CASE rs # {}
    <2>1. PICK x \in rs : Newest(rs, x)
      BY <1>2, HasNewest
    <2>2. x.current /\ \A y \in rs : y.current => y = x
      <3>1. x.current
        BY <2>1 DEF NewestIsCurrent
      <3>2. \A y \in rs : y.version \in Nat
        BY DEF Table, RoomItinerary
      <3>3. ASSUME NEW y \in rs, y.current
            PROVE  y.version = x.version
        BY <2>1, <3>2, <3>3 DEF NewestIsCurrent, Newest
      <3> QED BY <3>1, <3>3 DEF Table
    <2>3. (CHOOSE y \in rs : y.current) = x
      BY <2>2
    <2>4. Current(rs) # {}
      BY <2>2 DEF Current
    <2>5. HistoryOf(rs)[Len(HistoryOf(rs))] = x.payload
      BY <2>1, NewestRemoved DEF Newest
    <2>6. Len(HistoryOf(rs)) # 0
      BY <1>2, HistoryIs, FS_EmptySet DEF Table
    <2> QED BY <2>3, <2>4, <2>5, <2>6 DEF ShownOf, History!Latest
  <1> QED BY <1>1, <1>2

-----------------------------------------------------------------------------
(* With undos that are alone, the table is a history.                       *)

\* A saving request read the row that is still the current one.
SaverSawCurrent ==
    \A q \in Requests : req[q].pc \in {"numbering", "saving"} =>
        IF req[q].cur = NoRow THEN rows = {}
        ELSE \E x \in rows : x.id = req[q].cur /\ x.current

\* Nothing is in flight beside an undo, and what it read still holds.
UndoerIsAlone ==
    \A q \in Requests : Undoing(q) =>
        /\ \A p \in Requests \ {q} : ~ InFlight(p)
        /\ \E y \in rows :
             /\ y.id = req[q].prev /\ ~ y.current
             /\ \A z \in rows : ~ z.current => z.version <= y.version
        /\ req[q].pc = "undoing" => \E x \in rows : x.id = req[q].cur /\ x.current

BoundedTable == IsFiniteSet(rows) /\ Cardinality(rows) <= Keep

HistoryInv ==
    /\ Inv
    /\ BoundedTable
    /\ NewestIsCurrent(rows)
    /\ SaverSawCurrent
    /\ UndoerIsAlone

LEMMA RowsAreTable == HistoryInv => Table(rows)
  BY DEF HistoryInv, Inv, TypeOK, BoundedTable, VersionsDistinct, Table

LEMMA InitHistoryInv == Init => HistoryInv
  <1> SUFFICES ASSUME Init PROVE HistoryInv
    OBVIOUS
  <1>1. rows = {} /\ \A q \in Requests : req[q].pc = "new"
    BY DEF Init, NewRequest
  <1>2. BoundedTable
    BY <1>1, FS_EmptySet, KeepAssumption DEF BoundedTable
  <1> QED BY InitInv, <1>1, <1>2
          DEF HistoryInv, NewestIsCurrent, SaverSawCurrent, UndoerIsAlone, Undoing

\* A room that has versions has a current one.
LEMMA SomeIsCurrent ==
  ASSUME HistoryInv, rows # {}
  PROVE  Current(rows) # {}
  <1>1. PICK x \in rows : Newest(rows, x)
    BY RowsAreTable, HasNewest
  <1>2. x.current
    BY <1>1 DEF HistoryInv, NewestIsCurrent
  <1> QED BY <1>2 DEF Current

\* Steps that leave the table alone, and after which nobody saves or undoes
\* who did not before.
LEMMA ReadsStay ==
  ASSUME HistoryInv, Inv', UNCHANGED rows,
         \A q \in Requests :
            /\ req'[q].pc \in {"numbering", "saving"} =>
                 req[q].pc \in {"numbering", "saving"} /\ req'[q].cur = req[q].cur
            /\ req'[q].pc \in {"returning", "undoing"} =>
                 /\ req'[q].pc = req[q].pc
                 /\ req'[q].prev = req[q].prev /\ req'[q].cur = req[q].cur
            /\ req'[q].pc \notin {"new", "done"} =>
                 InFlight(q) \/ ~ \E p \in Requests : Undoing(p)
  PROVE  HistoryInv'
  <1> USE DEF HistoryInv
  <1>1. BoundedTable' /\ NewestIsCurrent(rows)' /\ SaverSawCurrent'
    BY DEF BoundedTable, NewestIsCurrent, Newest, SaverSawCurrent
  <1>2. UndoerIsAlone'
    <2> SUFFICES ASSUME NEW q \in Requests, req'[q].pc \in {"returning", "undoing"}
                 PROVE  /\ \A p \in Requests \ {q} : ~ InFlight(p)'
                        /\ \E y \in rows :
                             /\ y.id = req'[q].prev /\ ~ y.current
                             /\ \A z \in rows : ~ z.current => z.version <= y.version
                        /\ req'[q].pc = "undoing" =>
                             \E x \in rows : x.id = req'[q].cur /\ x.current
      BY DEF UndoerIsAlone, Undoing
    <2>1. /\ Undoing(q) /\ req'[q].pc = req[q].pc
          /\ req'[q].prev = req[q].prev /\ req'[q].cur = req[q].cur
      BY DEF Undoing
    <2>2. \A p \in Requests \ {q} : ~ InFlight(p)
      BY <2>1 DEF UndoerIsAlone
    <2>3. \A p \in Requests \ {q} : ~ InFlight(p)'
      BY <2>1, <2>2 DEF InFlight
    <2> QED BY <2>1, <2>3 DEF UndoerIsAlone
  <1> QED BY <1>1, <1>2

\* A save appends the itinerary it made and drops the oldest one too many.
LEMMA SaveHistory ==
  ASSUME HistoryInv, NEW q \in Requests, SaveWrite(q)
  PROVE  /\ BoundedTable' /\ NewestIsCurrent(rows)'
         /\ \E p \in Payloads :
              HistoryOf(rows') = History!Kept(Append(HistoryOf(rows), p))
  <1> DEFINE old == Superseded(rows, req[q].cur)
             new == NewVersion(q)
             all == old \cup {new}
  <1>1. Inv /\ req[q].pc = "saving"
    BY DEF HistoryInv, SaveWrite
  <1>2. Table(rows) /\ Cardinality(rows) \in Nat /\ Cardinality(rows) <= Keep
          /\ Keep \in Nat \ {0}
    BY RowsAreTable, Ranks, KeepAssumption DEF HistoryInv, BoundedTable
  <1>3. rows' = Cleanup(all)
    BY <1>1 DEF SaveWrite, HistoryInv, SaverSawCurrent, Exists
  <1>4. old = Marked(rows, req[q].cur, FALSE)
    BY DEF Superseded, Marked, Mark
  <1>5. /\ Table(old) /\ Cardinality(old) = Cardinality(rows)
        /\ HistoryOf(old) = HistoryOf(rows)
    BY <1>2, <1>4, MarkedTable
  <1>6. /\ new \in RoomItinerary /\ new.current = TRUE
        /\ new.version = req[q].top + 1 /\ req[q].top \in Nat
    BY <1>1 DEF NewVersion, RoomItinerary, Inv, TypeOK, Request, Payloads
  <1>7. \A y \in old : \E x \in rows : y = Mark(x, req[q].cur, FALSE)
    BY <1>4 DEF Marked
  <1>8. \A x \in rows : x \in RoomItinerary /\ x.version \in Nat
                          /\ x.version <= req[q].top
    BY <1>1 DEF Inv, TypeOK, SaverSawTop, RoomItinerary
  <1>9. \A y \in old : y.version < new.version
    <2> HIDE DEF old, new
    <2> SUFFICES ASSUME NEW y \in old PROVE y.version < new.version
      OBVIOUS
    <2>1. PICK x \in rows : y = Mark(x, req[q].cur, FALSE)
      BY <1>7
    <2>2. y.version = x.version
      BY <1>8, <2>1, MarkFacts
    <2> QED BY <1>6, <1>8, <2>2
  <1>10. \A y \in old : ~ y.current
    <2> HIDE DEF old, new
    <2> SUFFICES ASSUME NEW y \in old PROVE ~ y.current
      OBVIOUS
    <2>1. PICK x \in rows : y = Mark(x, req[q].cur, FALSE)
      BY <1>7
    <2>2. CASE x.id = req[q].cur
      BY <1>8, <2>1, <2>2, MarkFacts
    <2>3. CASE x.id # req[q].cur
      <3>1. PICK w \in rows : w.id = req[q].cur /\ w.current
        BY <1>1, <2>1 DEF HistoryInv, SaverSawCurrent
      <3>2. Newest(rows, w)
        BY <3>1 DEF HistoryInv, NewestIsCurrent
      <3>3. ASSUME x.current PROVE FALSE
        <4>1. Newest(rows, x)
          BY <3>3 DEF HistoryInv, NewestIsCurrent
        <4>2. x.version = w.version
          BY <1>8, <3>2, <4>1 DEF Newest
        <4> QED BY <1>2, <2>3, <3>1, <4>2 DEF Table
      <3> QED BY <2>1, <2>3, <3>3 DEF Mark
    <2> QED BY <2>2, <2>3
  <1> HIDE DEF old, new
  <1>11. /\ Table(all) /\ Cardinality(all) = Cardinality(rows) + 1
         /\ HistoryOf(all) = Append(HistoryOf(rows), new.payload)
    BY <1>5, <1>6, <1>9, NewestAppended
  <1>12. /\ Table(Cleanup(all)) /\ Cardinality(Cleanup(all)) <= Keep
         /\ HistoryOf(Cleanup(all)) = History!Kept(HistoryOf(all))
    <2> HIDE DEF all
    <2>1. Cardinality(all) <= Keep + 1
      BY <1>2, <1>11
    <2> QED BY <1>11, <2>1, CleanupKeeps
  <1>13. BoundedTable'
    BY <1>3, <1>12 DEF BoundedTable, Table
  <1>14. new \in rows'
    <2>1. {y \in all : y.version > new.version} = {}
      BY <1>5, <1>6, <1>9 DEF Table, RoomItinerary
    <2>2. Cardinality({y \in all : y.version > new.version}) < Keep
      BY <1>2, <2>1, FS_EmptySet
    <2> QED BY <1>3, <2>2 DEF Cleanup
  <1>15. NewestIsCurrent(rows')
    <2> SUFFICES ASSUME NEW x \in rows'
                 PROVE  x.current <=> Newest(rows', x)
      BY DEF NewestIsCurrent
    <2>1. \A y \in rows' : y \in old \/ y = new
      BY <1>3 DEF Cleanup
    <2>2. \A y \in old : y.version \in Nat
      BY <1>5 DEF Table, RoomItinerary
    <2>3. CASE x \in old
      BY <1>6, <1>9, <1>10, <1>14, <2>2, <2>3 DEF Newest
    <2>4. CASE x = new
      BY <1>6, <1>9, <2>1, <2>2, <2>4 DEF Newest
    <2> QED BY <2>1, <2>3, <2>4
  <1>16. new.payload \in Payloads
    BY <1>6 DEF RoomItinerary
  <1> QED BY <1>3, <1>11, <1>12, <1>13, <1>15, <1>16

\* An undo that is alone drops the newest itinerary.
LEMMA UndoHistory ==
  ASSUME HistoryInv, NEW q \in Requests, UndoWrite(q)
  PROVE  /\ BoundedTable' /\ NewestIsCurrent(rows)'
         /\ Len(HistoryOf(rows)) > 1
         /\ HistoryOf(rows') = SubSeq(HistoryOf(rows), 1, Len(HistoryOf(rows)) - 1)
  <1>1. Inv /\ Undoing(q)
    BY DEF HistoryInv, UndoWrite, Undoing
  <1>2. Table(rows) /\ Cardinality(rows) \in Nat /\ Cardinality(rows) <= Keep
          /\ Keep \in Nat
    BY RowsAreTable, Ranks, KeepAssumption DEF HistoryInv, BoundedTable
  <1>3. PICK x \in rows, y \in rows :
          /\ x.id = req[q].cur /\ x.current
          /\ y.id = req[q].prev /\ ~ y.current
          /\ \A z \in rows : ~ z.current => z.version <= y.version
    BY <1>1 DEF HistoryInv, UndoerIsAlone, UndoWrite
  <1> DEFINE left == rows \ {x}
             id == req[q].prev
  <1>4. {z \in rows : z.id # req[q].cur} = left
    BY <1>1, <1>3 DEF Inv, IdsDistinct
  <1>5. rows' = Marked(left, id, TRUE)
    BY <1>3, <1>4 DEF UndoWrite, Returned, Exists, Marked, Mark
  <1>6. \A z \in rows : z \in RoomItinerary /\ z.version \in Nat
    BY <1>2 DEF Table, RoomItinerary
  <1>7. \A z \in rows : z.version <= x.version
    BY <1>3 DEF HistoryInv, NewestIsCurrent, Newest
  <1>8. /\ Table(left) /\ Cardinality(left) = Cardinality(rows) - 1
        /\ HistoryOf(left) = SubSeq(HistoryOf(rows), 1, Len(HistoryOf(rows)) - 1)
    BY <1>2, <1>7, NewestRemoved
  <1>9. y \in left /\ y.id = id /\ \A z \in left : ~ z.current /\ z.version <= y.version
    <2>1. ASSUME NEW z \in left PROVE ~ z.current
      <3>1. ASSUME z.current PROVE FALSE
        <4>1. Newest(rows, z)
          BY <3>1 DEF HistoryInv, NewestIsCurrent
        <4>2. z.version = x.version
          BY <1>6, <1>7, <4>1 DEF Newest
        <4> QED BY <1>2, <4>2 DEF Table
      <3> QED BY <3>1
    <2> QED BY <1>3, <2>1
  <1>10. \A z \in left : z.id = id => z = y
    BY <1>1, <1>9 DEF Inv, IdsDistinct
  <1>11. left \subseteq rows
    OBVIOUS
  <1> HIDE DEF left, id
  <1>12. /\ Table(rows') /\ Cardinality(rows') = Cardinality(left)
         /\ HistoryOf(rows') = HistoryOf(left)
    BY <1>5, <1>8, MarkedTable
  <1>13. BoundedTable'
    BY <1>2, <1>8, <1>12 DEF BoundedTable, Table
  <1>14. Len(HistoryOf(rows)) > 1
    <2>1. Cardinality(left) # 0 /\ Cardinality(left) \in Nat
      BY <1>8, <1>9, Ranks, FS_EmptySet DEF Table
    <2>2. Len(HistoryOf(rows)) = Cardinality(rows)
      BY <1>2, HistoryIs
    <2> QED BY <1>2, <1>8, <2>1, <2>2
  <1>15. NewestIsCurrent(rows')
    <2> SUFFICES ASSUME NEW r \in rows'
                 PROVE  r.current <=> Newest(rows', r)
      BY DEF NewestIsCurrent
    <2>1. \A z \in left : Mark(z, id, TRUE).version = z.version
                            /\ (z.id = id => Mark(z, id, TRUE).current = TRUE)
                            /\ Mark(z, id, TRUE) \in rows'
      BY <1>5, <1>6, <1>11, MarkFacts DEF Marked
    <2>2. \A s \in rows' : \E z \in left : s = Mark(z, id, TRUE)
      BY <1>5 DEF Marked
    <2>3. PICK z \in left : r = Mark(z, id, TRUE)
      BY <2>2
    <2>4. CASE z = y
      <3>1. r.current = TRUE /\ r.version = y.version
        BY <1>9, <2>1, <2>3, <2>4
      <3>2. ASSUME NEW s \in rows' PROVE s.version <= r.version
        <4>1. PICK w \in left : s = Mark(w, id, TRUE)
          BY <2>2
        <4>2. s.version = w.version
          BY <2>1, <4>1
        <4> QED BY <1>9, <3>1, <4>2
      <3> QED BY <3>1, <3>2 DEF Newest
    <2>5. CASE z # y
      <3>1. r = z
        BY <1>10, <2>3, <2>5 DEF Mark
      <3>2. ~ r.current
        BY <1>9, <3>1
      <3>3. z.version # y.version
        BY <1>8, <1>9, <2>5 DEF Table
      <3>4. Mark(y, id, TRUE) \in rows' /\ Mark(y, id, TRUE).version = y.version
        BY <1>9, <2>1
      <3>5. z.version \in Nat /\ y.version \in Nat /\ z.version <= y.version
        BY <1>6, <1>9, <1>11
      <3>6. ASSUME Newest(rows', r) PROVE FALSE
        <4> DEFINE m == Mark(y, id, TRUE)
        <4>1. m \in rows' /\ m.version = y.version
          BY <3>4
        <4> HIDE DEF m
        <4>2. m.version <= r.version
          BY <3>6, <4>1 DEF Newest
        <4> QED BY <3>1, <3>3, <3>5, <4>1, <4>2
      <3> QED BY <3>2, <3>6
    <2> QED BY <2>4, <2>5
  <1> QED BY <1>8, <1>12, <1>13, <1>14, <1>15

LEMMA StepHistoryInv ==
  ASSUME undosAlone, HistoryInv, [Next]_vars
  PROVE  HistoryInv'
  <1>1. Inv' /\ Inv
    BY StepInv DEF HistoryInv
  <1>2. req \in [Requests -> Request]
    BY <1>1 DEF Inv, TypeOK
  <1>3. CASE UNCHANGED vars
    BY <1>1, <1>3, ReadsStay DEF vars, InFlight
  <1>4. CASE Crash \/ LockExpires
    <2>1. \A q \in Requests : req'[q] = req[q] \/ req'[q].pc = "done"
      BY <1>2, <1>4 DEF Crash, LockExpires, Request
    <2>2. rows' = rows
      BY <1>4 DEF Crash, LockExpires
    <2> QED BY <1>1, <2>1, <2>2, ReadsStay DEF InFlight
  <1>5. ASSUME NEW q \in Requests, Step(q)
        PROVE  HistoryInv'
    <2>1. CASE ModifyRead(q) \/ PublishBegin(q)
      <3>1. MayStart(q) /\ rows' = rows
        BY <2>1 DEF ModifyRead, PublishBegin
      <3>2. req'[q].pc = "waiting" /\ \A p \in Requests \ {q} : req'[p] = req[p]
        BY <1>2, <2>1 DEF ModifyRead, PublishBegin, Request
      <3>3. ~ \E p \in Requests : Undoing(p)
        BY <3>1 DEF MayStart
      <3> QED BY <1>1, <3>1, <3>2, <3>3, ReadsStay DEF InFlight
    <2>2. CASE TakeLock(q) \/ RoomBusy(q) \/ Withdraw(q) \/ UndoFails(q)
      <3>1. InFlight(q) /\ rows' = rows
        BY <2>2 DEF TakeLock, RoomBusy, Withdraw, UndoFails, Undoing, AtWork, InFlight
      <3>2. req'[q].pc \in {"working", "done"} /\ \A p \in Requests \ {q} : req'[p] = req[p]
        BY <1>2, <2>2 DEF TakeLock, RoomBusy, Withdraw, UndoFails, Leave, Request
      <3> QED BY <1>1, <3>1, <3>2, ReadsStay DEF InFlight
    <2>3. CASE SaveRead(q)
      <3>1. PICK id \in Requests \cup {NoRow} :
              /\ ReadsCurrent(id)
              /\ req' = [req EXCEPT ![q].pc = "numbering", ![q].cur = id]
        BY <2>3 DEF SaveRead
      <3>2. req'[q].pc = "numbering" /\ req'[q].cur = id
              /\ \A p \in Requests \ {q} : req'[p] = req[p]
        BY <1>2, <3>1 DEF Request
      <3>3. rows' = rows /\ req[q].pc = "working"
        BY <2>3 DEF SaveRead
      <3>4. \A p \in Requests : ~ Undoing(p)
        BY <3>3 DEF HistoryInv, UndoerIsAlone, Undoing, InFlight
      <3>5. IF id = NoRow THEN rows = {} ELSE \E x \in rows : x.id = id /\ x.current
        <4>1. CASE Current(rows) = {}
          BY <3>1, <4>1, SomeIsCurrent DEF ReadsCurrent
        <4>2. CASE Current(rows) # {}
          BY <1>1, <3>1, <4>2, RequestsAssumption
             DEF ReadsCurrent, Current, Inv, TypeOK, RoomItinerary, NoRow
        <4> QED BY <4>1, <4>2
      <3>6. SaverSawCurrent'
        BY <3>2, <3>3, <3>5 DEF HistoryInv, SaverSawCurrent
      <3>7. UndoerIsAlone'
        BY <3>2, <3>4 DEF UndoerIsAlone, Undoing
      <3> QED BY <1>1, <3>3, <3>6, <3>7 DEF HistoryInv, BoundedTable, NewestIsCurrent, Newest
    <2>8. CASE SaveReadTop(q)
      <3>1. PICK v : req' = [req EXCEPT ![q].pc = "saving", ![q].top = v]
        BY <2>8 DEF SaveReadTop
      <3>2. req'[q].pc = "saving" /\ req'[q].cur = req[q].cur
              /\ \A p \in Requests \ {q} : req'[p] = req[p]
        BY <1>2, <3>1 DEF Request
      <3>3. rows' = rows /\ req[q].pc = "numbering"
        BY <2>8 DEF SaveReadTop
      <3> QED BY <1>1, <3>2, <3>3, ReadsStay DEF InFlight
    <2>4. CASE UndoReadPrevious(q)
      <3>1. PICK p \in Requests :
              /\ ReadsPrevious(p)
              /\ req' = [req EXCEPT ![q].pc = "returning", ![q].prev = p]
        BY <2>4 DEF UndoReadPrevious
      <3>2. req'[q].pc = "returning" /\ req'[q].prev = p
              /\ \A r \in Requests \ {q} : req'[r] = req[r]
        BY <1>2, <3>1 DEF Request
      <3>3. rows' = rows /\ \A r \in Requests : ~ InFlight(r)
        BY <2>4 DEF UndoReadPrevious, MayUndo
      <3>4. \E y \in rows : /\ y.id = p /\ ~ y.current
                            /\ \A z \in rows : ~ z.current => z.version <= y.version
        BY <3>1 DEF ReadsPrevious
      <3>5. UndoerIsAlone'
        <4> SUFFICES ASSUME NEW r \in Requests, Undoing(r)'
                     PROVE  /\ \A s \in Requests \ {r} : ~ InFlight(s)'
                            /\ req'[r].pc = "returning" /\ req'[r].prev = p
          BY <3>3, <3>4 DEF UndoerIsAlone
        <4>1. r = q
          BY <3>2, <3>3 DEF InFlight, Undoing
        <4>2. \A s \in Requests \ {r} : ~ InFlight(s)'
          BY <3>2, <3>3, <4>1 DEF InFlight
        <4> QED BY <3>2, <4>1, <4>2
      <3>6. SaverSawCurrent'
        BY <3>2, <3>3 DEF SaverSawCurrent, InFlight
      <3> QED BY <1>1, <3>3, <3>5, <3>6 DEF HistoryInv, BoundedTable, NewestIsCurrent, Newest
    <2>9. CASE UndoReadCurrent(q)
      <3>1. PICK c \in Requests \cup {NoRow} :
              /\ ReadsCurrent(c)
              /\ req' = [req EXCEPT ![q].pc = "undoing", ![q].cur = c]
        BY <2>9 DEF UndoReadCurrent
      <3>2. req'[q].pc = "undoing" /\ req'[q].prev = req[q].prev /\ req'[q].cur = c
              /\ \A r \in Requests \ {q} : req'[r] = req[r]
        BY <1>2, <3>1 DEF Request
      <3>3. rows' = rows /\ Undoing(q)
        BY <2>9 DEF UndoReadCurrent, Undoing
      <3>4. /\ \A r \in Requests \ {q} : ~ InFlight(r)
            /\ \E y \in rows :
                 /\ y.id = req[q].prev /\ ~ y.current
                 /\ \A z \in rows : ~ z.current => z.version <= y.version
        BY <3>3 DEF HistoryInv, UndoerIsAlone
      <3>5. Current(rows) # {}
        BY <3>4, SomeIsCurrent
      <3>6. \E x \in rows : x.id = c /\ x.current
        BY <3>1, <3>5 DEF ReadsCurrent, Current
      <3>7. UndoerIsAlone'
        <4> SUFFICES ASSUME NEW r \in Requests, Undoing(r)'
                     PROVE  /\ \A s \in Requests \ {r} : ~ InFlight(s)'
                            /\ req'[r].prev = req[q].prev /\ req'[r].cur = c
          BY <3>3, <3>4, <3>6 DEF UndoerIsAlone
        <4>1. r = q
          BY <3>2, <3>4 DEF InFlight, Undoing
        <4>2. \A s \in Requests \ {r} : ~ InFlight(s)'
          BY <3>2, <3>4, <4>1 DEF InFlight
        <4> QED BY <3>2, <4>1, <4>2
      <3>8. SaverSawCurrent'
        BY <3>2, <3>3, <3>4 DEF SaverSawCurrent, InFlight
      <3> QED BY <1>1, <3>3, <3>7, <3>8 DEF HistoryInv, BoundedTable, NewestIsCurrent, Newest
    <2>5. CASE SaveWrite(q)
      <3>1. BoundedTable' /\ NewestIsCurrent(rows)'
        BY <2>5, SaveHistory
      <3>2. req'[q].pc = "done" /\ \A p \in Requests \ {q} : req'[p] = req[p]
        BY <1>2, <2>5 DEF SaveWrite, Leave, Request
      <3>3. req[q].pc = "saving" /\ lock = q
        BY <1>1, <2>5 DEF SaveWrite, Inv, SaversHoldLock, AtWork
      <3>4. \A p \in Requests :
               req'[p].pc \notin {"numbering", "saving", "returning", "undoing"}
        BY <1>1, <3>2, <3>3
           DEF Inv, SaversHoldLock, AtWork, HistoryInv, UndoerIsAlone, Undoing, InFlight
      <3> QED BY <1>1, <3>1, <3>4 DEF HistoryInv, SaverSawCurrent, UndoerIsAlone, Undoing
    <2>6. CASE UndoWrite(q)
      <3>1. BoundedTable' /\ NewestIsCurrent(rows)'
        BY <2>6, UndoHistory
      <3>2. req'[q].pc = "done" /\ \A p \in Requests \ {q} : req'[p] = req[p]
        BY <1>2, <2>6 DEF UndoWrite, Leave, Request
      <3>3. Undoing(q)
        BY <2>6 DEF UndoWrite, Undoing
      <3>4. \A p \in Requests :
               req'[p].pc \notin {"numbering", "saving", "returning", "undoing"}
        BY <3>2, <3>3 DEF HistoryInv, UndoerIsAlone, InFlight
      <3> QED BY <1>1, <3>1, <3>4 DEF HistoryInv, SaverSawCurrent, UndoerIsAlone, Undoing
    <2> QED BY <1>5, <2>1, <2>2, <2>3, <2>4, <2>5, <2>6, <2>8, <2>9 DEF Step
  <1> QED BY <1>3, <1>4, <1>5 DEF Next

LEMMA RowsOrHistory ==
  ASSUME HistoryInv, HistoryInv', [Next]_vars
  PROVE  [History!Next]_<<HistoryOf(rows), ShownOf(rows)>>
  <1>1. ShownOf(rows') = History!Latest(HistoryOf(rows'))
    <2>1. Table(rows') /\ NewestIsCurrent(rows')
      BY DEF HistoryInv, Inv, TypeOK, BoundedTable, VersionsDistinct, Table
    <2> QED BY <2>1, ShownIsLatest
  <1>2. CASE rows' = rows
    BY <1>2
  <1>3. ASSUME NEW q \in Requests, SaveWrite(q)
        PROVE  History!Save
    <2>1. PICK p \in Payloads :
            HistoryOf(rows') = History!Kept(Append(HistoryOf(rows), p))
      BY <1>3, SaveHistory
    <2> QED BY <1>1, <2>1 DEF History!Save, History!Become
  <1>4. ASSUME NEW q \in Requests, UndoWrite(q)
        PROVE  History!Undo
    BY <1>1, <1>4, UndoHistory DEF History!Undo, History!Become
  <1>5. \/ rows' = rows
        \/ \E q \in Requests : SaveWrite(q) \/ UndoWrite(q)
    BY DEF Next, vars, Crash, LockExpires, Step, ModifyRead, PublishBegin, TakeLock,
           RoomBusy, Withdraw, SaveRead, SaveReadTop, UndoReadPrevious, UndoReadCurrent,
           UndoFails
  <1> QED BY <1>2, <1>3, <1>4, <1>5 DEF History!Next

\* When nobody undoes while another request is in flight, the version table
\* is a bounded history: a save extends it, an undo cuts it back by one, and
\* the members see its end, however the saves interleave and whatever stops.
THEOREM HistoryImplemented == Spec => ImplementsHistory
  <1>1. Init => History!Init
    <2> SUFFICES ASSUME Init PROVE History!Init
      OBVIOUS
    <2>1. rows = {} /\ Table(rows)
      BY InitHistoryInv, RowsAreTable DEF Init
    <2>2. HistoryOf(rows) \in Seq(Payloads) /\ Len(HistoryOf(rows)) = 0
      BY <2>1, HistoryIs, FS_EmptySet
    <2>3. HistoryOf(rows) = << >>
      BY <2>2, EmptySeq
    <2>4. ShownOf(rows) = History!Nothing
      BY <2>1 DEF ShownOf, Current, History!Nothing
    <2> QED BY <2>3, <2>4 DEF History!Init
  <1>2. (undosAlone => HistoryInv) /\ [Next]_vars => (undosAlone => HistoryInv)'
    <2>1. [Next]_vars => undosAlone' = undosAlone
      BY DEF Next, vars
    <2> QED BY <2>1, StepHistoryInv
  <1>3. (undosAlone => HistoryInv) /\ (undosAlone => HistoryInv)' /\ [Next]_vars
          => [undosAlone => History!Next]_<<HistoryOf(rows), ShownOf(rows)>>
    <2>1. [Next]_vars => undosAlone' = undosAlone
      BY DEF Next, vars
    <2> QED BY <2>1, RowsOrHistory
  <1> QED BY InitHistoryInv, <1>1, <1>2, <1>3, PTL
          DEF Spec, ImplementsHistory
=============================================================================
