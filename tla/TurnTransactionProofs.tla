------------------------ MODULE TurnTransactionProofs -----------------------
(***************************************************************************)
(* The turns of a plan implement the log of TurnLog, and a turn waits as   *)
(* long as its question is open, for any requests, keys and messages.      *)
(***************************************************************************)
EXTENDS TurnTransaction, FiniteSetTheorems, TLAPS

FiniteBegun == IsFiniteSet({q \in Requests : pc[q] # "new"})

\* The committed turns are numbered 1..n, each number and each key once.
Consecutive == \E n \in Nat : Numbers = 1..n
OneNumber ==
    \A p, q \in Committed : turns[p].number = turns[q].number => p = q
OneKey == \A p, q \in Committed : KeyOf[p] = KeyOf[q] => p = q

\* A committed turn has the number its request computed.
CommittedDone ==
    \A q \in Committed : pc[q] = "done" /\ turns[q].number = number[q]

\* Whatever has been committed since, nothing before the number is missing.
NumberedNext ==
    \A r \in Requests :
        pc[r] \in {"numbered", "inserted"} =>
            number[r] # 0 /\ \A k \in 1..(number[r] - 1) : k \in Numbers

\* The unique indexes keep an inserted turn apart from every other turn.
InsertedFree ==
    \A r \in Requests :
        pc[r] = "inserted" => \A q \in Committed : ~ Clash(r, q)
InsertedApart ==
    \A p, q \in Requests :
        pc[p] = "inserted" /\ pc[q] = "inserted" /\ p # q => ~ Clash(p, q)

Unanswered == \A r \in Requests : pc[r] # "done" => answer[r] = 0

\* A run that is not over belongs to a turn that is running.
RunsOfTurns ==
    \A r \in Requests :
        /\ Active(r) => turns[r].status = "running"
        /\ runs[r].status # "none" => r \in Committed

NumberInv ==
    /\ FiniteBegun
    /\ Consecutive
    /\ OneNumber
    /\ OneKey
    /\ CommittedDone
    /\ NumberedNext
    /\ InsertedFree
    /\ InsertedApart
    /\ Unanswered

Inv == TypeOK /\ NumberInv /\ RunsOfTurns /\ AskedTurnWaits

-----------------------------------------------------------------------------
(* Shapes.                                                                  *)

\* Whatever is proposed and known, a turn runs, asks or is answered, and asks
\* for facts there are; a turn that asks blockingly asks for something.
LEMMA DecideTyped ==
  ASSUME NEW actions, NEW facts
  PROVE  /\ Decide(actions, facts).status \in {"running", "needs_input", "answered"}
         /\ Decide(actions, facts).asks \in SUBSET Facts
         /\ Decide(actions, facts).status = "needs_input" =>
               Decide(actions, facts).asks # {}
  <1>1. \A a : Hard(a) \subseteq Facts /\ Soft(a) \subseteq Facts
    BY DEF Hard, Soft, Facts
  <1>2. /\ BlockingMissing(actions, facts) \subseteq Facts
        /\ NonBlockingMissing(actions, facts) \subseteq Facts
    BY <1>1 DEF BlockingMissing, NonBlockingMissing
  <1> QED BY <1>2 DEF Decide

LEMMA TurnShapes ==
  /\ NoTurn \in Turn /\ NoTurn.status = "none" /\ NoTurn.clar = "none"
  /\ \A t \in Turn :
        /\ Answered(t) \in Turn
        /\ Answered(t).number = t.number
        /\ Answered(t).blocking = t.blocking
        /\ Answered(t).clar = "answered"
        /\ Answered(t).status = IF t.status = "needs_input" THEN "answered" ELSE t.status
  <1>1. NoTurn \in Turn /\ NoTurn.status = "none" /\ NoTurn.clar = "none"
    BY DEF NoTurn, Turn
  <1>2. ASSUME NEW t \in Turn
        PROVE  /\ Answered(t) \in Turn
               /\ Answered(t).number = t.number
               /\ Answered(t).blocking = t.blocking
               /\ Answered(t).clar = "answered"
               /\ Answered(t).status = IF t.status = "needs_input" THEN "answered" ELSE t.status
    BY DEF Answered, Turn
  <1> QED BY <1>1, <1>2

LEMMA InitInv == Init => Inv
  <1> SUFFICES ASSUME Init PROVE Inv
    OBVIOUS
  <1>1. /\ \A r \in Requests : /\ turns[r] = NoTurn /\ runs[r] = NoRun
                              /\ pc[r] = "new" /\ answer[r] = 0
        /\ worker.pc = "idle"
    BY DEF Init, IdleWorker
  <1>2. Committed = {} /\ {q \in Requests : pc[q] # "new"} = {}
    BY <1>1, TurnShapes DEF Committed
  <1>3. Numbers = 1..0
    BY <1>2 DEF Numbers
  <1>4. NewPlan \in Plan /\ NoRun \in Run /\ NoRun.status = "none"
    BY DEF NewPlan, Plan, NoRun, Run
  <1>5. NothingSeen \in Seen /\ IdleWorker \in Worker
    BY <1>4 DEF NothingSeen, Seen, IdleWorker, Worker
  <1>6. /\ turns \in [Requests -> Turn] /\ runs \in [Requests -> Run]
        /\ plan \in Plan /\ seen \in [Requests -> Seen] /\ worker \in Worker
    BY <1>4, <1>5, TurnShapes DEF Init
  <1>7. /\ pc \in [Requests -> PC] /\ began \in [Requests -> Nat]
        /\ number \in [Requests -> Nat] /\ answer \in [Requests -> Nat]
    BY DEF Init, PC
  <1>8. results \in BOOLEAN
    BY Zenon DEF Init
  <1>9. TypeOK
    BY <1>1, <1>4, <1>6, <1>7, <1>8 DEF TypeOK
  <1>10. NumberInv
    BY <1>1, <1>2, <1>3, FS_EmptySet
       DEF NumberInv, FiniteBegun, Consecutive, OneNumber, OneKey, CommittedDone,
           NumberedNext, InsertedFree, InsertedApart, Unanswered
  <1>11. RunsOfTurns /\ AskedTurnWaits
    BY <1>1, <1>4, TurnShapes DEF RunsOfTurns, AskedTurnWaits, Active
  <1> QED BY <1>9, <1>10, <1>11 DEF Inv

-----------------------------------------------------------------------------
(* The steps of a request before its commit touch nothing but the request.  *)

TablesSame == UNCHANGED <<turns, runs, plan, results, worker>>

LEMMA TablesKeep ==
  ASSUME Inv, TablesSame,
         pc' \in [Requests -> PC], began' \in [Requests -> Nat],
         seen' \in [Requests -> Seen], number' \in [Requests -> Nat],
         answer' \in [Requests -> Nat]
  PROVE  /\ TypeOK' /\ RunsOfTurns' /\ AskedTurnWaits'
         /\ Committed' = Committed /\ Numbers' = Numbers
         /\ Consecutive' /\ OneNumber' /\ OneKey'
  <1>1. Committed' = Committed /\ Numbers' = Numbers
    BY DEF TablesSame, Committed, Numbers
  <1>2. TypeOK'
    BY DEF Inv, TypeOK, TablesSame
  <1>3. RunsOfTurns' /\ AskedTurnWaits'
    BY <1>1 DEF Inv, RunsOfTurns, AskedTurnWaits, TablesSame, Active
  <1>4. Consecutive' /\ OneNumber' /\ OneKey'
    BY <1>1 DEF Inv, NumberInv, Consecutive, OneNumber, OneKey, TablesSame
  <1> QED BY <1>1, <1>2, <1>3, <1>4

\* One request moves on, from a place before its commit, with its number.
LEMMA RequestMoves ==
  ASSUME Inv, TablesSame, NEW r \in Requests, NEW p \in PC \ {"inserted", "new"}, Goto(r, p),
         pc[r] # "done",
         began' \in [Requests -> Nat], seen' \in [Requests -> Seen],
         number' = number, answer' \in [Requests -> Nat],
         \A q \in Requests : q # r => answer'[q] = answer[q],
         p # "done" => answer'[r] = answer[r],
         p # "numbered" \/ pc[r] = "numbered"
  PROVE  Inv'
  <1>1. /\ pc' \in [Requests -> PC]
        /\ \A q \in Requests : pc'[q] = IF q = r THEN p ELSE pc[q]
    BY DEF Inv, TypeOK, Goto
  <1>2. number' \in [Requests -> Nat]
    BY DEF Inv, TypeOK
  <1>3. /\ TypeOK' /\ RunsOfTurns' /\ AskedTurnWaits'
        /\ Committed' = Committed /\ Numbers' = Numbers
        /\ Consecutive' /\ OneNumber' /\ OneKey'
    BY <1>1, <1>2, TablesKeep
  <1>4. FiniteBegun'
    <2>1. {q \in Requests : pc'[q] # "new"} = {q \in Requests : pc[q] # "new"} \cup {r}
      BY <1>1
    <2> QED BY <2>1, FS_AddElement DEF Inv, NumberInv, FiniteBegun
  <1>5. CommittedDone'
    BY <1>1, <1>3 DEF Inv, NumberInv, CommittedDone, TablesSame, Committed
  <1>6. NumberedNext'
    BY <1>1, <1>3 DEF Inv, NumberInv, NumberedNext
  <1>7. InsertedFree' /\ InsertedApart'
    BY <1>1, <1>3 DEF Inv, NumberInv, InsertedFree, InsertedApart, Clash
  <1>8. Unanswered'
    BY <1>1 DEF Inv, NumberInv, Unanswered
  <1> QED BY <1>3, <1>4, <1>5, <1>6, <1>7, <1>8 DEF Inv, NumberInv

LEMMA ReadPlanInv ==
  ASSUME Inv, NEW r \in Requests, ReadPlan(r)
  PROVE  Inv'
  <1>1. /\ pc[r] = "new" /\ Goto(r, "read") /\ TablesSame
        /\ number' = number /\ answer' = answer
    BY DEF ReadPlan, TablesSame
  <1>2. Cardinality({q \in Requests : pc[q] # "new"}) \in Nat
    BY FS_CardinalityType DEF Inv, NumberInv, FiniteBegun
  <1>3. began' \in [Requests -> Nat]
    BY <1>2 DEF ReadPlan, Inv, TypeOK
  <1>4. [NothingSeen EXCEPT !.plan = plan] \in Seen
    BY DEF NothingSeen, Seen, Inv, TypeOK
  <1>5. seen' \in [Requests -> Seen]
    BY <1>4 DEF ReadPlan, Inv, TypeOK
  <1>6. answer' \in [Requests -> Nat] /\ "read" \in PC \ {"inserted", "new"}
    BY <1>1 DEF Inv, TypeOK, PC
  <1> QED BY <1>1, <1>3, <1>5, <1>6, RequestMoves

LEMMA CheckKeyInv ==
  ASSUME Inv, NEW r \in Requests, CheckKey(r)
  PROVE  Inv'
  <1>1. /\ pc[r] = "read" /\ TablesSame /\ began' = began /\ number' = number
    BY DEF CheckKey, TablesSame
  <1>2. began' \in [Requests -> Nat] /\ {"done", "checked"} \subseteq PC \ {"inserted", "new"}
    BY <1>1 DEF Inv, TypeOK, PC
  <1>3. CASE \E q \in Served(r) :
               /\ Goto(r, "done")
               /\ answer' = [answer EXCEPT ![r] = turns[q].number]
               /\ UNCHANGED seen
    <2>1. PICK q \in Requests :
            Goto(r, "done") /\ answer' = [answer EXCEPT ![r] = turns[q].number] /\ seen' = seen
      BY <1>3 DEF Served, Committed
    <2>2. turns[q].number \in Nat
      BY DEF Inv, TypeOK, Turn
    <2>3. /\ answer' \in [Requests -> Nat] /\ seen' \in [Requests -> Seen]
          /\ \A s \in Requests : s # r => answer'[s] = answer[s]
      BY <2>1, <2>2 DEF Inv, TypeOK
    <2> QED BY <1>1, <1>2, <2>1, <2>3, RequestMoves
  <1>4. CASE /\ Goto(r, "checked") /\ answer' = answer
             /\ \E a \in Requests \cup {NoRequest} :
                  seen' = [seen EXCEPT ![r] =
                     [plan |-> seen[r].plan, results |-> results, active |-> a,
                      open |-> {q \in Committed : turns[q].clar = "open"}]]
    <2>1. PICK a \in Requests \cup {NoRequest} :
            seen' = [seen EXCEPT ![r] =
                     [plan |-> seen[r].plan, results |-> results, active |-> a,
                      open |-> {q \in Committed : turns[q].clar = "open"}]]
      BY <1>4
    <2> DEFINE new == [plan |-> seen[r].plan, results |-> results, active |-> a,
                       open |-> {q \in Committed : turns[q].clar = "open"}]
    <2>2. seen[r].plan \in Plan /\ results \in BOOLEAN
      BY Zenon DEF Inv, TypeOK, Seen
    <2>3. {q \in Committed : turns[q].clar = "open"} \in SUBSET Requests
      BY DEF Committed
    <2>4. new \in Seen
      BY <2>2, <2>3, Zenon DEF Seen
    <2> HIDE DEF new
    <2>5. seen' \in [Requests -> Seen] /\ answer' \in [Requests -> Nat]
      BY <1>4, <2>1, <2>4 DEF Inv, TypeOK, new
    <2> QED BY <1>1, <1>2, <1>4, <2>5, RequestMoves
  <1> QED BY <1>3, <1>4 DEF CheckKey

LEMMA RollBackInv ==
  ASSUME Inv, NEW r \in Requests, RollBack(r)
  PROVE  Inv'
  <1>1. /\ pc[r] # "done" /\ Goto(r, "failed") /\ TablesSame
        /\ began' = began /\ seen' = seen /\ number' = number /\ answer' = answer
    BY DEF RollBack, TablesSame
  <1>2. /\ began' \in [Requests -> Nat] /\ seen' \in [Requests -> Seen]
        /\ answer' \in [Requests -> Nat] /\ "failed" \in PC \ {"inserted", "new"}
    BY <1>1 DEF Inv, TypeOK, PC
  <1> QED BY <1>1, <1>2, RequestMoves

LEMMA NumberTurnInv ==
  ASSUME Inv, NEW r \in Requests, NumberTurn(r)
  PROVE  Inv'
  <1>1. /\ pc[r] = "checked" /\ Goto(r, "numbered") /\ TablesSame
        /\ began' = began /\ seen' = seen /\ answer' = answer
    BY DEF NumberTurn, TablesSame
  <1>2. PICK top \in Numbers \cup {0} :
          /\ \A n \in Numbers : n <= top
          /\ number' = [number EXCEPT ![r] = top + 1]
    BY DEF NumberTurn
  <1>3. PICK n \in Nat : Numbers = 1..n
    BY DEF Inv, NumberInv, Consecutive
  <1>4. top \in Nat /\ top + 1 \in Nat /\ top + 1 # 0 /\ \A k \in 1..top : k \in Numbers
    BY <1>2, <1>3
  <1>5. /\ pc' \in [Requests -> PC]
        /\ \A q \in Requests : pc'[q] = IF q = r THEN "numbered" ELSE pc[q]
    BY <1>1 DEF Inv, TypeOK, Goto, PC
  <1>6. /\ number' \in [Requests -> Nat]
        /\ \A q \in Requests : number'[q] = IF q = r THEN top + 1 ELSE number[q]
    BY <1>2, <1>4 DEF Inv, TypeOK
  <1>7. /\ TypeOK' /\ RunsOfTurns' /\ AskedTurnWaits'
        /\ Committed' = Committed /\ Numbers' = Numbers
        /\ Consecutive' /\ OneNumber' /\ OneKey'
    <2>1. /\ began' \in [Requests -> Nat] /\ seen' \in [Requests -> Seen]
          /\ answer' \in [Requests -> Nat]
      BY <1>1 DEF Inv, TypeOK
    <2> QED BY <1>1, <1>5, <1>6, <2>1, TablesKeep
  <1>8. FiniteBegun'
    <2>1. {q \in Requests : pc'[q] # "new"} = {q \in Requests : pc[q] # "new"}
      BY <1>1, <1>5
    <2> QED BY <2>1 DEF Inv, NumberInv, FiniteBegun
  <1>9. r \notin Committed
    BY <1>1 DEF Inv, NumberInv, CommittedDone
  <1>10. CommittedDone'
    BY <1>1, <1>5, <1>6, <1>7, <1>9 DEF Inv, NumberInv, CommittedDone, TablesSame, Committed
  <1>11. NumberedNext'
    <2>1. \A k \in 1..((top + 1) - 1) : k \in Numbers
      BY <1>4
    <2> QED BY <1>4, <1>5, <1>6, <1>7, <2>1 DEF Inv, NumberInv, NumberedNext
  <1>12. \A p, q \in Requests : p # r /\ q # r => (Clash(p, q)' <=> Clash(p, q))
    BY <1>6 DEF Clash
  <1>13. InsertedFree' /\ InsertedApart'
    BY <1>5, <1>7, <1>9, <1>12 DEF Inv, NumberInv, InsertedFree, InsertedApart, Committed
  <1>14. Unanswered'
    BY <1>1, <1>5 DEF Inv, NumberInv, Unanswered
  <1> QED BY <1>7, <1>8, <1>10, <1>11, <1>13, <1>14 DEF Inv, NumberInv

\* The insert passes the indexes only where no other turn has the key or the
\* number.
LEMMA InsertTurnInv ==
  ASSUME Inv, NEW r \in Requests, InsertTurn(r)
  PROVE  Inv'
  <1>1. /\ pc[r] = "numbered" /\ TablesSame
        /\ \A q \in Requests : pc[q] = "inserted" => ~ Clash(r, q)
        /\ began' = began /\ seen' = seen /\ number' = number /\ answer' = answer
    BY DEF InsertTurn, TablesSame
  <1>2. /\ began' \in [Requests -> Nat] /\ seen' \in [Requests -> Seen]
        /\ answer' \in [Requests -> Nat] /\ number' \in [Requests -> Nat]
    BY <1>1 DEF Inv, TypeOK
  <1>3. CASE \E q \in Committed : Clash(r, q)
    <2>1. Goto(r, "failed") /\ "failed" \in PC \ {"inserted", "new"}
      BY <1>3 DEF InsertTurn, PC
    <2> QED BY <1>1, <1>2, <2>1, RequestMoves
  <1>4. CASE \A q \in Committed : ~ Clash(r, q)
    <2>1. /\ pc' \in [Requests -> PC]
          /\ \A q \in Requests : pc'[q] = IF q = r THEN "inserted" ELSE pc[q]
      BY <1>4 DEF InsertTurn, Goto, Inv, TypeOK, PC
    <2>2. /\ TypeOK' /\ RunsOfTurns' /\ AskedTurnWaits'
          /\ Committed' = Committed /\ Numbers' = Numbers
          /\ Consecutive' /\ OneNumber' /\ OneKey'
      BY <1>1, <1>2, <2>1, TablesKeep
    <2>3. FiniteBegun'
      <3>1. {q \in Requests : pc'[q] # "new"} = {q \in Requests : pc[q] # "new"}
        BY <1>1, <2>1
      <3> QED BY <3>1 DEF Inv, NumberInv, FiniteBegun
    <2>4. CommittedDone'
      BY <1>1, <2>1, <2>2 DEF Inv, NumberInv, CommittedDone, TablesSame, Committed
    <2>5. NumberedNext'
      BY <1>1, <2>1, <2>2 DEF Inv, NumberInv, NumberedNext
    <2>6. \A p, q \in Requests : Clash(p, q)' <=> Clash(p, q)
      BY <1>1 DEF Clash
    <2>7. InsertedFree'
      BY <1>4, <2>1, <2>2, <2>6 DEF Inv, NumberInv, InsertedFree, Committed
    <2>8. \A p, q \in Requests : Clash(p, q) => Clash(q, p)
      BY DEF Clash
    <2>9. InsertedApart'
      BY <1>1, <2>1, <2>6, <2>8 DEF Inv, NumberInv, InsertedApart
    <2>10. Unanswered'
      BY <1>1, <2>1 DEF Inv, NumberInv, Unanswered
    <2> QED BY <2>2, <2>3, <2>4, <2>5, <2>7, <2>9, <2>10 DEF Inv, NumberInv
  <1> QED BY <1>3, <1>4

-----------------------------------------------------------------------------
(* A turn is committed.                                                     *)

\* r becomes a committed turn with the number it inserted; no other turn
\* changes its number or disappears.
TurnAdded(r) ==
    /\ pc[r] = "inserted"
    /\ Accepted(r)
    /\ turns' \in [Requests -> Turn]
    /\ turns'[r].number = number[r] /\ turns'[r].status # "none"
    /\ \A q \in Requests \ {r} :
          /\ turns'[q].number = turns[q].number
          /\ turns'[q].status = "none" <=> turns[q].status = "none"

LEMMA AddedNumbers ==
  ASSUME Inv, NEW r \in Requests, TurnAdded(r)
  PROVE  /\ NumberInv'
         /\ r \notin Committed /\ Committed' = Committed \cup {r}
         /\ Numbers' = Numbers \cup {number[r]}
         /\ number[r] \in Nat \ {0} /\ Numbers = 1..(number[r] - 1)
         /\ \A q \in Committed : KeyOf[q] # KeyOf[r]
         /\ answer[r] = 0
         /\ pc' \in [Requests -> PC] /\ answer' \in [Requests -> Nat]
  <1>1. /\ pc[r] = "inserted" /\ number' = number /\ number[r] \in Nat
        /\ pc' \in [Requests -> PC] /\ answer' \in [Requests -> Nat]
        /\ \A q \in Requests : pc'[q] = IF q = r THEN "done" ELSE pc[q]
        /\ \A q \in Requests : q # r => answer'[q] = answer[q]
    BY DEF TurnAdded, Accepted, Goto, Inv, TypeOK, PC
  <1>2. r \notin Committed /\ Committed' = Committed \cup {r}
    <2>1. r \notin Committed
      BY <1>1 DEF Inv, NumberInv, CommittedDone
    <2> QED BY <2>1 DEF TurnAdded, Committed
  <1>3. /\ \A q \in Committed : turns'[q].number = turns[q].number
        /\ turns'[r].number = number[r]
    BY <1>2 DEF TurnAdded, Committed
  <1>4. Numbers' = Numbers \cup {number[r]}
    BY <1>2, <1>3 DEF Numbers
  <1>5. \A q \in Committed : ~ Clash(r, q) /\ turns[q].number = number[q]
    BY <1>1 DEF Inv, NumberInv, InsertedFree, CommittedDone
  <1>6. number[r] # 0 /\ \A k \in 1..(number[r] - 1) : k \in Numbers
    BY <1>1 DEF Inv, NumberInv, NumberedNext
  <1>7. number[r] \notin Numbers
    BY <1>5 DEF Clash, Numbers
  <1>8. PICK n \in Nat : Numbers = 1..n
    BY DEF Inv, NumberInv, Consecutive
  <1>9. number[r] = n + 1
    <2>1. ~ (number[r] <= n)
      BY <1>1, <1>6, <1>7, <1>8
    <2>2. ~ (number[r] > n + 1)
      <3>1. SUFFICES ASSUME number[r] > n + 1 PROVE FALSE
        OBVIOUS
      <3>2. n + 1 \in 1..(number[r] - 1)
        BY <1>1, <1>8, <3>1
      <3> QED BY <1>6, <1>8, <3>2
    <2> QED BY <1>1, <1>8, <2>1, <2>2
  <1>10. number[r] \in Nat \ {0} /\ Numbers = 1..(number[r] - 1)
    BY <1>8, <1>9
  <1>11. Consecutive'
    <2>1. Numbers' = 1..(n + 1)
      BY <1>4, <1>8, <1>9
    <2> QED BY <1>8, <2>1 DEF Consecutive
  <1>12. OneNumber'
    <2>1. \A q \in Committed : turns[q].number # number[r]
      BY <1>7 DEF Numbers
    <2> QED BY <1>2, <1>3, <2>1 DEF OneNumber, Inv, NumberInv
  <1>13. \A q \in Committed : KeyOf[q] # KeyOf[r]
    BY <1>5 DEF Clash
  <1>14. OneKey'
    BY <1>2, <1>13 DEF OneKey, Inv, NumberInv
  <1>15. CommittedDone'
    BY <1>1, <1>2, <1>3 DEF CommittedDone, Inv, NumberInv, Committed
  <1>16. NumberedNext'
    BY <1>1, <1>4 DEF NumberedNext, Inv, NumberInv
  <1>17. \A p, q \in Requests : Clash(p, q)' <=> Clash(p, q)
    BY <1>1 DEF Clash
  <1>18. InsertedFree'
    BY <1>1, <1>2, <1>17 DEF InsertedFree, InsertedApart, Inv, NumberInv, Committed
  <1>19. InsertedApart'
    BY <1>1, <1>17 DEF InsertedApart, Inv, NumberInv
  <1>20. Unanswered' /\ answer[r] = 0
    BY <1>1 DEF Unanswered, Inv, NumberInv
  <1>21. FiniteBegun'
    <2>1. {q \in Requests : pc'[q] # "new"} = {q \in Requests : pc[q] # "new"}
      BY <1>1
    <2> QED BY <2>1 DEF Inv, NumberInv, FiniteBegun
  <1> QED BY <1>1, <1>2, <1>4, <1>10, <1>11, <1>12, <1>13, <1>14, <1>15, <1>16,
             <1>18, <1>19, <1>20, <1>21 DEF NumberInv

LEMMA InterpretFailsInv ==
  ASSUME Inv, NEW r \in Requests, InterpretFails(r)
  PROVE  Inv' /\ TurnAdded(r)
  <1> DEFINE new == [number |-> number[r], status |-> "failed", clar |-> "none",
                     blocking |-> FALSE, asks |-> {}]
  <1>1. new \in Turn /\ new.number = number[r] /\ new.status = "failed" /\ new.clar = "none"
    BY DEF Turn, Inv, TypeOK
  <1>2. turns' = [turns EXCEPT ![r] = new] /\ UNCHANGED <<runs, plan, results, worker>>
    BY DEF InterpretFails
  <1> HIDE DEF new
  <1>3. /\ turns' \in [Requests -> Turn]
        /\ \A q \in Requests : turns'[q] = IF q = r THEN new ELSE turns[q]
    BY <1>1, <1>2 DEF Inv, TypeOK
  <1>4. TurnAdded(r)
    BY <1>1, <1>3 DEF TurnAdded, InterpretFails
  <1>5. TypeOK'
    BY <1>2, <1>3, <1>4, AddedNumbers DEF Inv, TypeOK, TurnAdded, Accepted
  <1>6. RunsOfTurns'
    <2>1. r \notin Committed /\ Committed' = Committed \cup {r}
      BY <1>4, AddedNumbers
    <2>2. ~ Active(r)
      BY <2>1 DEF Inv, RunsOfTurns, Active
    <2> QED BY <1>2, <1>3, <2>1, <2>2 DEF Inv, RunsOfTurns, Active
  <1>7. AskedTurnWaits'
    BY <1>1, <1>3 DEF Inv, AskedTurnWaits
  <1> QED BY <1>4, <1>5, <1>6, <1>7, AddedNumbers DEF Inv

\* What a decision writes to the turns: its own, and the answers it found.
LEMMA TurnsAfterShape ==
  ASSUME Inv, NEW r \in Requests, r \notin Committed, NEW facts, NEW d,
         d.status \in {"running", "needs_input", "answered"}, d.asks \in SUBSET Facts,
         d.status = "needs_input" => d.asks # {},
         turns' = TurnsAfter(r, d, facts)
  PROVE  /\ turns' \in [Requests -> Turn]
         /\ turns'[r].number = number[r] /\ turns'[r].status = d.status
         /\ AskedTurnWaits'
         /\ \A q \in Requests \ {r} :
               /\ turns'[q].number = turns[q].number
               /\ turns'[q].status = "none" <=> turns[q].status = "none"
               /\ turns'[q].status = "running" <=> turns[q].status = "running"
  <1> DEFINE new == [number |-> number[r], status |-> d.status,
                     clar |-> IF d.asks = {} THEN "none" ELSE "open",
                     blocking |-> d.status = "needs_input", asks |-> d.asks]
  <1>1. /\ new.number = number[r] /\ new.status = d.status
        /\ (new.status = "needs_input" <=> new.blocking /\ new.clar = "open")
    OBVIOUS
  <1>2. new \in Turn
    <2>1. (d.status = "needs_input") \in BOOLEAN
      BY Zenon
    <2>2. number[r] \in Nat
      BY DEF Inv, TypeOK
    <2>3. /\ d.status \in {"none", "needs_input", "running", "answered", "failed", "ended"}
          /\ (IF d.asks = {} THEN "none" ELSE "open") \in {"none", "open", "answered"}
      OBVIOUS
    <2> QED BY <2>1, <2>2, <2>3, Zenon DEF Turn
  <1>3. \A q \in Requests :
          /\ q = r => turns'[q] = new
          /\ q # r => turns'[q] = turns[q] \/ turns'[q] = Answered(turns[q])
    BY DEF TurnsAfter
  <1>4. \A q \in Requests : turns'[q] \in Turn
    BY <1>2, <1>3, TurnShapes DEF Inv, TypeOK
  <1> HIDE DEF new
  <1>5. turns' \in [Requests -> Turn]
    <2>1. turns' = [q \in Requests |-> turns'[q]]
      BY DEF TurnsAfter
    <2> QED BY <1>4, <2>1
  <1>6. ASSUME NEW q \in Requests \ {r}
        PROVE  /\ turns'[q].number = turns[q].number
               /\ turns'[q].status = "none" <=> turns[q].status = "none"
               /\ turns'[q].status = "running" <=> turns[q].status = "running"
               /\ turns'[q].status = "needs_input" <=>
                     turns'[q].blocking /\ turns'[q].clar = "open"
    <2>1. turns[q] \in Turn
      BY DEF Inv, TypeOK
    <2>2. turns[q].status = "needs_input" <=> turns[q].blocking /\ turns[q].clar = "open"
      BY DEF Inv, AskedTurnWaits
    <2>3. CASE turns'[q] = turns[q]
      BY <2>2, <2>3
    <2>4. CASE turns'[q] = Answered(turns[q])
      BY <2>1, <2>4, TurnShapes
    <2> QED BY <1>3, <2>3, <2>4
  <1>7. AskedTurnWaits'
    BY <1>1, <1>3, <1>6 DEF AskedTurnWaits
  <1> QED BY <1>1, <1>3, <1>5, <1>6, <1>7

\* What it writes to the runs: its own, queued, and a request to stop.
LEMMA RunsAfterShape ==
  ASSUME Inv, NEW r \in Requests, r \notin Committed, NEW d,
         NEW identity \in BOOLEAN, NEW newThread \in Requests \cup {NoRequest},
         runs' = RunsAfter(r, d, identity, newThread)
  PROVE  /\ runs' \in [Requests -> Run]
         /\ runs'[r].status = IF d.status = "running" THEN "queued" ELSE "none"
         /\ \A q \in Requests \ {r} : runs'[q].status = runs[q].status
  <1>1. runs[r].status = "none"
    BY DEF Inv, RunsOfTurns
  <1>2. CASE d.status # "running"
    BY <1>1, <1>2 DEF RunsAfter, Inv, TypeOK
  <1>3. CASE d.status = "running"
    <2> DEFINE new == [status |-> "queued", cancel |-> FALSE, thread |-> newThread,
                       parent |-> IF identity THEN NoRequest ELSE seen[r].active]
    <2>1. seen[r].active \in Requests \cup {NoRequest}
      BY DEF Inv, TypeOK, Seen
    <2>2. new \in Run /\ new.status = "queued"
      BY <2>1 DEF Run
    <2>3. \A x \in Run : /\ [x EXCEPT !.cancel = TRUE] \in Run
                          /\ [x EXCEPT !.cancel = TRUE].status = x.status
      BY DEF Run
    <2>4. \A q \in Requests :
            /\ q = r => runs'[q] = new
            /\ q # r => runs'[q] = runs[q] \/ runs'[q] = [runs[q] EXCEPT !.cancel = TRUE]
      BY <1>3 DEF RunsAfter
    <2> HIDE DEF new
    <2>0. \A q \in Requests : runs[q] \in Run
      BY DEF Inv, TypeOK
    <2>5. ASSUME NEW q \in Requests PROVE runs'[q] \in Run
      <3>1. CASE q = r
        BY <2>2, <2>4, <3>1
      <3>2. CASE q # r
        BY <2>0, <2>3, <2>4, <3>2
      <3> QED BY <3>1, <3>2
    <2>6. runs' \in [Requests -> Run]
      <3>1. runs' = [q \in Requests |-> runs'[q]]
        BY <1>3 DEF RunsAfter
      <3> QED BY <2>5, <3>1
    <2>7. ASSUME NEW q \in Requests \ {r} PROVE runs'[q].status = runs[q].status
      BY <2>0, <2>3, <2>4
    <2> QED BY <1>3, <2>2, <2>4, <2>6, <2>7
  <1> QED BY <1>2, <1>3

LEMMA CommitInv ==
  ASSUME Inv, NEW r \in Requests, Commit(r)
  PROVE  Inv' /\ TurnAdded(r)
  <1>1. /\ pc[r] = "inserted" /\ Accepted(r) /\ results' = results /\ worker' = worker
    BY DEF Commit
  <1>2. PICK patch \in Patches, actions \in ActionSets, more \in BOOLEAN :
         LET facts == FactsNow(r, patch)
             d == Decide(actions, facts)
             identity == ChangesIdentity(patch)
             renews == Renews(r, actions, facts, identity, more)
             was == seen[r].plan
         IN  /\ turns' = TurnsAfter(r, d, facts)
             /\ runs' = RunsAfter(r, d, identity, IF renews THEN r ELSE was.thread)
             /\ plan' =
                  [known |-> IF patch = {} THEN plan.known ELSE was.known \cup patch,
                   said |-> was.said \cup {<<"turn", r>>},
                   thread |-> IF renews THEN r ELSE plan.thread]
    BY Zenon DEF Commit
  <1> DEFINE facts == FactsNow(r, patch)
             d == Decide(actions, facts)
             identity == ChangesIdentity(patch)
             renews == Renews(r, actions, facts, identity, more)
             was == seen[r].plan
             newThread == IF renews THEN r ELSE was.thread
  <1>3. /\ turns' = TurnsAfter(r, d, facts)
        /\ runs' = RunsAfter(r, d, identity, newThread)
        /\ plan' = [known |-> IF patch = {} THEN plan.known ELSE was.known \cup patch,
                    said |-> was.said \cup {<<"turn", r>>},
                    thread |-> IF renews THEN r ELSE plan.thread]
    BY <1>2
  <1>4. /\ d.status \in {"running", "needs_input", "answered"} /\ d.asks \in SUBSET Facts
        /\ (d.status = "needs_input" => d.asks # {})
    BY DecideTyped
  <1>5. was \in Plan /\ plan \in Plan /\ patch \in SUBSET ConstraintFacts
    BY PatchesAssumption DEF Inv, TypeOK, Seen
  <1>6. /\ newThread \in Requests \cup {NoRequest}
        /\ (IF renews THEN r ELSE plan.thread) \in Requests \cup {NoRequest}
    <2>1. was.thread \in Requests \cup {NoRequest} /\ plan.thread \in Requests \cup {NoRequest}
      BY <1>5 DEF Plan
    <2> HIDE DEF renews, was
    <2> QED BY <2>1
  <1>7. identity \in BOOLEAN
    BY Zenon DEF ChangesIdentity
  <1>8. plan' \in Plan
    <2>1. /\ (IF patch = {} THEN plan.known ELSE was.known \cup patch) \in SUBSET ConstraintFacts
          /\ was.said \cup {<<"turn", r>>} \in SUBSET ({"turn", "result"} \X Requests)
      BY <1>5 DEF Plan
    <2> HIDE DEF renews, was
    <2> QED BY <1>3, <1>6, <2>1 DEF Plan
  <1>9. r \notin Committed
    BY <1>1 DEF Inv, NumberInv, CommittedDone
  <1> HIDE DEF d, facts, identity, renews, was, newThread
  <1>10. /\ turns' \in [Requests -> Turn]
         /\ turns'[r].number = number[r] /\ turns'[r].status = d.status
         /\ AskedTurnWaits'
         /\ \A q \in Requests \ {r} :
               /\ turns'[q].number = turns[q].number
               /\ turns'[q].status = "none" <=> turns[q].status = "none"
               /\ turns'[q].status = "running" <=> turns[q].status = "running"
    BY <1>3, <1>4, <1>9, TurnsAfterShape
  <1>11. /\ runs' \in [Requests -> Run]
         /\ runs'[r].status = IF d.status = "running" THEN "queued" ELSE "none"
         /\ \A q \in Requests \ {r} : runs'[q].status = runs[q].status
    BY <1>3, <1>6, <1>7, <1>9, RunsAfterShape
  <1>12. TurnAdded(r)
    BY <1>1, <1>4, <1>10 DEF TurnAdded
  <1>13. /\ NumberInv' /\ Committed' = Committed \cup {r}
         /\ pc' \in [Requests -> PC] /\ answer' \in [Requests -> Nat]
    BY <1>12, AddedNumbers
  <1>14. \A q \in Requests : runs'[q].status = "running" <=> runs[q].status = "running"
    BY <1>9, <1>11 DEF Inv, RunsOfTurns
  <1>15. TypeOK'
    BY <1>1, <1>8, <1>10, <1>11, <1>13, <1>14 DEF Inv, TypeOK, Accepted
  <1>16. RunsOfTurns'
    <2>1. \A q \in Requests \ {r} : Active(q)' <=> Active(q)
      BY <1>11 DEF Active
    <2>2. Active(r)' => turns'[r].status = "running"
      BY <1>10, <1>11 DEF Active
    <2> QED BY <1>10, <1>11, <1>13, <2>1, <2>2 DEF Inv, RunsOfTurns
  <1> QED BY <1>10, <1>12, <1>13, <1>15, <1>16 DEF Inv

-----------------------------------------------------------------------------
(* The runs go on, and the requests stay as they are.                       *)

\* The run of r goes on, ends its turn, or only its result is written.
LEMMA RunMoves ==
  ASSUME Inv, NEW r \in Requests, UNCHANGED request,
         plan' \in Plan, results' \in BOOLEAN, worker' \in Worker,
         runs' \in [Requests -> Run], Active(r),
         \A q \in Requests \ {r} : runs'[q].status = runs[q].status,
         \A q \in Requests :
            runs'[q].status = "running" <=> worker'.pc # "idle" /\ worker'.run = q,
         turns' = turns \/ (turns' = [turns EXCEPT ![r].status = "ended"]
                             /\ runs'[r].status = "over")
  PROVE  /\ Inv' /\ answer' = answer
         /\ Committed' = Committed
         /\ \A q \in Committed : turns'[q].number = turns[q].number
  <1>1. /\ pc' = pc /\ began' = began /\ seen' = seen /\ number' = number
        /\ answer' = answer
    BY DEF request
  <1>2. \A q \in Requests : turns[q] \in Turn
    BY DEF Inv, TypeOK
  <1>3. turns[r].status = "running" /\ r \in Committed
    BY DEF Inv, RunsOfTurns, Committed
  <1>4. \A t \in Turn :
          /\ [t EXCEPT !.status = "ended"] \in Turn
          /\ [t EXCEPT !.status = "ended"].status = "ended"
          /\ [t EXCEPT !.status = "ended"].number = t.number
          /\ [t EXCEPT !.status = "ended"].clar = t.clar
          /\ [t EXCEPT !.status = "ended"].blocking = t.blocking
    BY DEF Turn
  <1>5. /\ turns' \in [Requests -> Turn]
        /\ \A q \in Requests \ {r} : turns'[q] = turns[q]
        /\ turns'[r].number = turns[r].number
        /\ turns'[r].clar = turns[r].clar /\ turns'[r].blocking = turns[r].blocking
        /\ turns'[r].status \in {"running", "ended"}
        /\ runs'[r].status # "over" => turns'[r].status = "running"
    <2>1. CASE turns' = turns
      BY <1>3, <2>1 DEF Inv, TypeOK
    <2>2. CASE /\ turns' = [turns EXCEPT ![r].status = "ended"]
               /\ runs'[r].status = "over"
      <3>1. /\ turns'[r] = [turns[r] EXCEPT !.status = "ended"]
            /\ \A q \in Requests \ {r} : turns'[q] = turns[q]
        BY <2>2 DEF Inv, TypeOK
      <3>2. turns' \in [Requests -> Turn]
        BY <1>2, <1>4, <2>2 DEF Inv, TypeOK
      <3> QED BY <1>2, <1>4, <2>2, <3>1, <3>2
    <2> QED BY <2>1, <2>2
  <1>6. Committed' = Committed
    BY <1>3, <1>5 DEF Committed
  <1>7. \A q \in Committed : turns'[q].number = turns[q].number
    BY <1>5 DEF Committed
  <1>8. Numbers' = Numbers
    BY <1>6, <1>7 DEF Numbers
  <1>9. TypeOK'
    BY <1>1, <1>5 DEF Inv, TypeOK
  <1>10. \A p, q \in Requests : Clash(p, q)' <=> Clash(p, q)
    BY <1>1 DEF Clash
  <1>11. NumberInv'
    <2>1. FiniteBegun' /\ Unanswered'
      BY <1>1 DEF Inv, NumberInv, FiniteBegun, Unanswered
    <2>2. Consecutive' /\ OneNumber' /\ OneKey'
      BY <1>6, <1>7, <1>8 DEF Inv, NumberInv, Consecutive, OneNumber, OneKey
    <2>3. CommittedDone'
      BY <1>1, <1>6, <1>7 DEF Inv, NumberInv, CommittedDone
    <2>4. NumberedNext'
      BY <1>1, <1>8 DEF Inv, NumberInv, NumberedNext
    <2>5. InsertedFree' /\ InsertedApart'
      BY <1>1, <1>6, <1>10 DEF Inv, NumberInv, InsertedFree, InsertedApart, Committed
    <2> QED BY <2>1, <2>2, <2>3, <2>4, <2>5 DEF NumberInv
  <1>12. RunsOfTurns'
    <2>1. ASSUME NEW q \in Requests \ {r}
          PROVE  /\ Active(q)' => turns'[q].status = "running"
                 /\ runs'[q].status # "none" => q \in Committed'
      BY <1>5, <1>6 DEF Inv, RunsOfTurns, Active
    <2>2. Active(r)' => turns'[r].status = "running"
      BY <1>5 DEF Active
    <2> QED BY <1>3, <1>6, <2>1, <2>2 DEF RunsOfTurns
  <1>13. AskedTurnWaits'
    <2>1. ASSUME NEW q \in Requests \ {r}
          PROVE  turns'[q].status = "needs_input" <=>
                    turns'[q].blocking /\ turns'[q].clar = "open"
      BY <1>5 DEF Inv, AskedTurnWaits
    <2>2. ~ (turns[r].blocking /\ turns[r].clar = "open")
      BY <1>3 DEF Inv, AskedTurnWaits
    <2> QED BY <1>5, <2>1, <2>2 DEF AskedTurnWaits
  <1> QED BY <1>1, <1>6, <1>7, <1>9, <1>11, <1>12, <1>13 DEF Inv

\* A run that is over, on the way, or asked to stop, as a record.
LEMMA RunShapes ==
  \A x \in Run : \A s \in {"running", "over"} :
     /\ [x EXCEPT !.status = s] \in Run /\ [x EXCEPT !.status = s].status = s
     /\ [x EXCEPT !.cancel = TRUE] \in Run
     /\ [x EXCEPT !.cancel = TRUE].status = x.status
  BY DEF Run

LEMMA RunSet ==
  ASSUME Inv, NEW r \in Requests, NEW s \in {"running", "over"},
         runs' = [runs EXCEPT ![r].status = s]
  PROVE  /\ runs' \in [Requests -> Run] /\ runs'[r].status = s
         /\ \A q \in Requests \ {r} : runs'[q].status = runs[q].status
  <1>1. runs \in [Requests -> Run] /\ runs[r] \in Run
    BY DEF Inv, TypeOK
  <1> DEFINE new == [runs[r] EXCEPT !.status = s]
  <1>2. new \in Run /\ new.status = s
    BY <1>1, RunShapes
  <1>3. runs' = [runs EXCEPT ![r] = new]
    OBVIOUS
  <1> HIDE DEF new
  <1> QED BY <1>1, <1>2, <1>3

RunStep(r) ==
    /\ Inv' /\ answer' = answer
    /\ Committed' = Committed
    /\ \A q \in Committed : turns'[q].number = turns[q].number

LEMMA CancelRunInv ==
  ASSUME Inv, NEW r \in Requests, CancelRun(r)
  PROVE  RunStep(r)
  <1>1. /\ Active(r) /\ UNCHANGED <<plan, results, request, worker>>
        /\ runs[r] \in Run
    BY DEF CancelRun, Inv, TypeOK
  <1>2. plan' \in Plan /\ results' \in BOOLEAN /\ worker' \in Worker
    BY <1>1, Zenon DEF Inv, TypeOK
  <1>3. CASE Waits(r)
    <2>1. EndRun(r)
      BY <1>3 DEF CancelRun
    <2>2. /\ runs' \in [Requests -> Run] /\ runs'[r].status = "over"
          /\ \A q \in Requests \ {r} : runs'[q].status = runs[q].status
      BY <2>1, RunSet DEF EndRun
    <2>3. \A q \in Requests :
            runs'[q].status = "running" <=> worker'.pc # "idle" /\ worker'.run = q
      BY <1>1, <1>3, <2>2 DEF Waits, Inv, TypeOK
    <2> QED BY <1>1, <1>2, <2>1, <2>2, <2>3, RunMoves DEF EndRun, RunStep
  <1>4. CASE ~ Waits(r)
    <2>1. runs' = [runs EXCEPT ![r].cancel = TRUE] /\ turns' = turns
      BY <1>4 DEF CancelRun
    <2>2. /\ runs' \in [Requests -> Run] /\ runs'[r].status = runs[r].status
          /\ \A q \in Requests \ {r} : runs'[q].status = runs[q].status
      BY <1>1, <2>1, RunShapes, ZenonT(40) DEF Inv, TypeOK
    <2>3. \A q \in Requests :
            runs'[q].status = "running" <=> worker'.pc # "idle" /\ worker'.run = q
      BY <1>1, <2>2 DEF Inv, TypeOK
    <2> QED BY <1>1, <1>2, <2>1, <2>2, <2>3, RunMoves DEF RunStep
  <1> QED BY <1>3, <1>4

LEMMA TakeInv ==
  ASSUME Inv, NEW r \in Requests, Take(r)
  PROVE  RunStep(r)
  <1>1. /\ worker.pc = "idle" /\ runs[r].status = "queued"
        /\ runs' = [runs EXCEPT ![r].status = "running"]
        /\ worker' = [pc |-> "running", run |-> r, plan |-> NewPlan]
        /\ UNCHANGED <<turns, plan, results, request>> /\ runs[r] \in Run
    BY DEF Take, Inv, TypeOK
  <1>2. worker' \in Worker /\ Active(r)
    BY <1>1 DEF Worker, NewPlan, Plan, Active
  <1>3. /\ runs' \in [Requests -> Run] /\ runs'[r].status = "running"
        /\ \A q \in Requests \ {r} : runs'[q].status = runs[q].status
    BY <1>1, RunSet
  <1>4. \A q \in Requests :
          runs'[q].status = "running" <=> worker'.pc # "idle" /\ worker'.run = q
    BY <1>1, <1>3 DEF Inv, TypeOK
  <1>5. plan' \in Plan /\ results' \in BOOLEAN
    BY <1>1, Zenon DEF Inv, TypeOK
  <1> QED BY <1>1, <1>2, <1>3, <1>4, <1>5, RunMoves DEF RunStep

\* The worker is at a run only while the run is running.
LEMMA WorkerAtRun ==
  ASSUME Inv, NEW r \in Requests, worker.pc # "idle", worker.run = r
  PROVE  runs[r].status = "running" /\ Active(r) /\ runs[r] \in Run
  BY DEF Inv, TypeOK, Active

LEMMA ReadResultInv ==
  ASSUME Inv, NEW r \in Requests, ReadResult(r)
  PROVE  RunStep(r)
  <1>1. /\ worker.pc = "running" /\ worker.run = r
        /\ worker' = [pc |-> "applying", run |-> r, plan |-> plan]
        /\ UNCHANGED <<turns, runs, plan, results, request>>
    BY DEF ReadResult
  <1>2. Active(r)
    BY <1>1, WorkerAtRun
  <1>3. worker' \in Worker /\ plan' \in Plan /\ runs' \in [Requests -> Run]
    BY <1>1 DEF Worker, Inv, TypeOK
  <1>4. results' \in BOOLEAN
    BY <1>1, Zenon DEF Inv, TypeOK
  <1>5. \A q \in Requests :
          runs'[q].status = "running" <=> worker'.pc # "idle" /\ worker'.run = q
    BY <1>1 DEF Inv, TypeOK
  <1> QED BY <1>1, <1>2, <1>3, <1>4, <1>5, RunMoves DEF RunStep

LEMMA WriteResultInv ==
  ASSUME Inv, NEW r \in Requests, WriteResult(r)
  PROVE  RunStep(r)
  <1>1. /\ worker.pc = "applying" /\ worker.run = r /\ worker.plan \in Plan
        /\ plan' = [plan EXCEPT !.said = worker.plan.said \cup {<<"result", r>>}]
        /\ worker' = [pc |-> "applied", run |-> r, plan |-> NewPlan]
        /\ UNCHANGED <<turns, runs, request>>
    BY DEF WriteResult, Inv, TypeOK, Worker
  <1>2. Active(r)
    BY <1>1, WorkerAtRun
  <1>3. worker' \in Worker
    BY <1>1 DEF Worker, NewPlan, Plan
  <1>4. plan' \in Plan
    <2>1. worker.plan.said \cup {<<"result", r>>} \in SUBSET ({"turn", "result"} \X Requests)
      BY <1>1 DEF Plan
    <2> QED BY <1>1, <2>1 DEF Plan, Inv, TypeOK
  <1>5. results' \in BOOLEAN /\ runs' \in [Requests -> Run]
    BY <1>1 DEF Inv, TypeOK, WriteResult
  <1>6. \A q \in Requests :
          runs'[q].status = "running" <=> worker'.pc # "idle" /\ worker'.run = q
    BY <1>1 DEF Inv, TypeOK
  <1> QED BY <1>1, <1>2, <1>3, <1>4, <1>5, <1>6, RunMoves DEF RunStep

LEMMA FinishInv ==
  ASSUME Inv, NEW r \in Requests, Finish(r)
  PROVE  RunStep(r)
  <1>1. /\ worker.pc # "idle" /\ worker.run = r /\ worker' = IdleWorker /\ EndRun(r)
        /\ UNCHANGED <<plan, results, request>>
    BY DEF Finish
  <1>2. Active(r) /\ runs[r] \in Run
    BY <1>1, WorkerAtRun
  <1>3. worker' \in Worker /\ worker'.pc = "idle"
    BY <1>1 DEF IdleWorker, NewPlan, Plan, Worker
  <1>4. /\ runs' \in [Requests -> Run] /\ runs'[r].status = "over"
        /\ \A q \in Requests \ {r} : runs'[q].status = runs[q].status
    BY <1>1, RunSet DEF EndRun
  <1>5. \A q \in Requests :
          runs'[q].status = "running" <=> worker'.pc # "idle" /\ worker'.run = q
    BY <1>1, <1>3, <1>4 DEF Inv, TypeOK
  <1>6. plan' \in Plan /\ results' \in BOOLEAN
    BY <1>1, Zenon DEF Inv, TypeOK
  <1> QED BY <1>1, <1>2, <1>3, <1>4, <1>5, <1>6, RunMoves DEF EndRun, RunStep

-----------------------------------------------------------------------------

LEMMA Stutter ==
  ASSUME Inv, UNCHANGED vars
  PROVE  Inv'
  <1>1. /\ UNCHANGED <<turns, runs, plan, results, worker>>
        /\ UNCHANGED <<pc, began, seen, number, answer>>
    BY DEF vars, request
  <1>2. TypeOK'
    BY <1>1, Zenon DEF Inv, TypeOK
  <1>3. Committed' = Committed /\ Numbers' = Numbers
    BY <1>1 DEF Committed, Numbers
  <1>4. \A p, q \in Requests : Clash(p, q)' <=> Clash(p, q)
    BY <1>1 DEF Clash
  <1>5. NumberInv'
    <2>1. FiniteBegun' /\ Unanswered'
      BY <1>1 DEF Inv, NumberInv, FiniteBegun, Unanswered
    <2>2. Consecutive' /\ OneNumber' /\ OneKey'
      BY <1>1, <1>3 DEF Inv, NumberInv, Consecutive, OneNumber, OneKey
    <2>3. CommittedDone' /\ NumberedNext'
      BY <1>1, <1>3 DEF Inv, NumberInv, CommittedDone, NumberedNext
    <2>4. InsertedFree' /\ InsertedApart'
      BY <1>1, <1>3, <1>4 DEF Inv, NumberInv, InsertedFree, InsertedApart, Committed
    <2> QED BY <2>1, <2>2, <2>3, <2>4 DEF NumberInv
  <1>6. RunsOfTurns' /\ AskedTurnWaits'
    BY <1>1, <1>3 DEF Inv, RunsOfTurns, AskedTurnWaits, Active
  <1> QED BY <1>2, <1>5, <1>6 DEF Inv

LEMMA StepInv ==
  ASSUME Inv, NEW r \in Requests, Post(r) \/ CancelRun(r) \/ Work(r)
  PROVE  Inv'
  <1>1. CASE ReadPlan(r) \/ CheckKey(r) \/ NumberTurn(r) \/ InsertTurn(r) \/ RollBack(r)
    BY <1>1, ReadPlanInv, CheckKeyInv, NumberTurnInv, InsertTurnInv, RollBackInv
  <1>2. CASE Commit(r) \/ InterpretFails(r)
    BY <1>2, CommitInv, InterpretFailsInv
  <1>3. CASE CancelRun(r) \/ Work(r)
    BY <1>3, CancelRunInv, TakeInv, ReadResultInv, WriteResultInv, FinishInv
       DEF Work, RunStep
  <1> QED BY <1>1, <1>2, <1>3 DEF Post

LEMMA InductiveInv == Spec => []Inv
  <1>1. Inv /\ [Next]_vars => Inv'
    BY StepInv, Stutter DEF Next
  <1> QED BY InitInv, <1>1, PTL DEF Spec

\* The rows of turns, runs, plan and worker have their shapes in every
\* reachable state, and the worker is at the one run that is running
\* (transaction.py commit_turn, worker.py _claim_next, persist.py).
THEOREM TypeCorrect == Spec => []TypeOK
  <1>1. Inv => TypeOK
    BY DEF Inv
  <1> QED BY <1>1, InductiveInv, PTL

\* A turn waits for input exactly as long as its blocking question is open,
\* however the messages of the plan interleave (transaction.py:379-393).
THEOREM QuestionsHold == Spec => []AskedTurnWaits
  <1>1. Inv => AskedTurnWaits
    BY DEF Inv
  <1> QED BY <1>1, InductiveInv, PTL

-----------------------------------------------------------------------------
(* The turns of the plan are the log its clients were promised.             *)

Entries == {<<turns[q].number, KeyOf[q]>> : q \in Committed}

LEMMA EntriesInit ==
  ASSUME Init
  PROVE  Log!Init
  <1>1. Committed = {}
    BY TurnShapes DEF Init, Committed
  <1> QED BY <1>1 DEF Log!Init, Init

LEMMA EntriesNumbers == Log!LogNumbers(Entries) = Numbers
  <1>1. \A q \in Committed : /\ <<turns[q].number, KeyOf[q]>> \in Entries
                              /\ <<turns[q].number, KeyOf[q]>>[1] = turns[q].number
    BY DEF Entries
  <1>2. \A e \in Entries : \E q \in Committed : e[1] = turns[q].number
    BY DEF Entries
  <1>3. \A x \in Log!LogNumbers(Entries) : x \in Numbers
    BY <1>2 DEF Log!LogNumbers, Numbers
  <1>4. \A x \in Numbers : x \in Log!LogNumbers(Entries)
    BY <1>1 DEF Log!LogNumbers, Numbers
  <1> QED BY <1>3, <1>4

LEMMA EntriesNumbersNext == Log!LogNumbers(Entries') = Numbers'
  <1>1. \A q \in Committed' : /\ <<turns'[q].number, KeyOf[q]>> \in Entries'
                               /\ <<turns'[q].number, KeyOf[q]>>[1] = turns'[q].number
    BY DEF Entries
  <1>2. \A e \in Entries' : \E q \in Committed' : e[1] = turns'[q].number
    BY DEF Entries
  <1>3. \A x \in Log!LogNumbers(Entries') : x \in Numbers'
    BY <1>2 DEF Log!LogNumbers, Numbers
  <1>4. \A x \in Numbers' : x \in Log!LogNumbers(Entries')
    BY <1>1 DEF Log!LogNumbers, Numbers
  <1> QED BY <1>3, <1>4

LEMMA AddedAccepts ==
  ASSUME Inv, NEW r \in Requests, TurnAdded(r)
  PROVE  Log!Accept(r)
  <1>1. /\ r \notin Committed /\ Committed' = Committed \cup {r}
        /\ Numbers' = Numbers \cup {number[r]}
        /\ number[r] \in Nat \ {0} /\ Numbers = 1..(number[r] - 1)
        /\ \A q \in Committed : KeyOf[q] # KeyOf[r]
        /\ answer[r] = 0
    BY AddedNumbers
  <1>2. /\ \A q \in Committed : turns'[q].number = turns[q].number
        /\ turns'[r].number = number[r]
    BY <1>1 DEF TurnAdded, Committed
  <1>3. Entries' = Entries \cup {<<number[r], KeyOf[r]>>}
    BY <1>1, <1>2 DEF Entries
  <1>4. answer' = [answer EXCEPT ![r] = number[r]]
    BY DEF TurnAdded, Accepted
  <1>5. \A e \in Entries : e[2] # KeyOf[r]
    BY <1>1 DEF Entries
  <1>6. number[r] \in Log!LogNumbers(Entries')
    BY <1>1, EntriesNumbersNext
  <1>7. Log!LogNumbers(Entries) = 1..(number[r] - 1)
    BY <1>1, EntriesNumbers
  <1> QED BY <1>1, <1>3, <1>4, <1>5, <1>6, <1>7 DEF Log!Accept, Log!Unanswered, Entries

LEMMA CheckKeyRepeats ==
  ASSUME Inv, NEW r \in Requests, CheckKey(r)
  PROVE  Log!Repeat(r) \/ (Entries' = Entries /\ answer' = answer)
  <1>1. turns' = turns /\ Committed' = Committed
    BY DEF CheckKey, Committed
  <1>2. Entries' = Entries
    BY <1>1 DEF Entries
  <1>3. CASE answer' = answer
    BY <1>2, <1>3
  <1>4. CASE answer' # answer
    <2>1. PICK q \in Served(r) : answer' = [answer EXCEPT ![r] = turns[q].number]
      BY <1>4 DEF CheckKey
    <2>2. answer[r] = 0
      BY DEF CheckKey, Inv, NumberInv, Unanswered
    <2>3. /\ <<turns[q].number, KeyOf[q]>> \in Entries
          /\ KeyOf[q] = KeyOf[r]
      BY <2>1 DEF Served, Entries
    <2> QED BY <1>2, <2>1, <2>2, <2>3 DEF Log!Repeat, Log!Unanswered, Entries
  <1> QED BY <1>3, <1>4

LEMMA StepMaps ==
  ASSUME Inv, NEW r \in Requests, Post(r) \/ CancelRun(r) \/ Work(r)
  PROVE  Log!Accept(r) \/ Log!Repeat(r) \/ (Entries' = Entries /\ answer' = answer)
  <1>1. CASE ReadPlan(r) \/ NumberTurn(r) \/ InsertTurn(r) \/ RollBack(r)
    <2>1. turns' = turns /\ answer' = answer
      BY <1>1 DEF ReadPlan, NumberTurn, InsertTurn, RollBack
    <2> QED BY <2>1 DEF Entries, Committed
  <1>2. CASE CheckKey(r)
    BY <1>2, CheckKeyRepeats
  <1>3. CASE Commit(r) \/ InterpretFails(r)
    BY <1>3, CommitInv, InterpretFailsInv, AddedAccepts
  <1>4. CASE CancelRun(r) \/ Work(r)
    <2>1. RunStep(r)
      BY <1>4, CancelRunInv, TakeInv, ReadResultInv, WriteResultInv, FinishInv DEF Work
    <2> QED BY <2>1 DEF RunStep, Entries
  <1> QED BY <1>1, <1>2, <1>3, <1>4 DEF Post

\* Messages are accepted once under their key and numbered without gaps, and
\* every retry is answered with the turn its key was accepted as, for any
\* requests and however they interleave (transaction.py:291-328).
THEOREM LogImplemented == Spec => ImplementsLog
  <1>1. Init => Log!Init
    BY EntriesInit
  <1>2. Inv /\ [Next]_vars => [Log!Next]_<<Entries, answer>>
    <2>1. SUFFICES ASSUME Inv, [Next]_vars
                   PROVE  Log!Next \/ (Entries' = Entries /\ answer' = answer)
      OBVIOUS
    <2>2. CASE Next
      BY <2>1, <2>2, StepMaps DEF Next, Log!Next
    <2>3. CASE UNCHANGED vars
      BY <2>3 DEF vars, request, Entries, Committed
    <2> QED BY <2>1, <2>2, <2>3
  <1> QED BY <1>1, <1>2, InductiveInv, PTL DEF Spec, ImplementsLog, Log!Spec, Entries
=============================================================================
