--------------------------- MODULE RunEventsProofs --------------------------
(***************************************************************************)
(* The event stream of a run is an event feed, for any publishers and      *)
(* browsers, any batch size and any number of broken connections.          *)
(***************************************************************************)
EXTENDS RunEvents, FiniteSetTheorems, TLAPS

\* The numbers of the rows in b follow n without a gap.
InRow(n, b) ==
    \A e \in b :
        /\ e.sequence > n
        /\ \A k \in (n + 1)..e.sequence : \E d \in b : d.sequence = k

FiniteEvents == IsFiniteSet(events)

\* The visible numbers are 1..n, and no two events share one.
Consecutive == \E n \in Nat : Numbers = 1..n
OneNumber == \A d, e \in events : d.sequence = e.sequence => d = e

\* What a publisher computed is one more than everything visible.
NextIsFree ==
    \A w \in Writers :
        tx[w].pc = "numbered" =>
            tx[w].next \in Nat \ {0} /\ Numbers = 1..(tx[w].next - 1)

\* An open stream belongs to a browser that follows the run, stands where the
\* browser stands, and holds the rows that come next.
StreamFollows ==
    \A c \in Readers :
        stream[c].pc # "closed" =>
            /\ client[c].pc = "following"
            /\ stream[c].position = client[c].last
            /\ stream[c].batch \subseteq events
            /\ InRow(stream[c].position, stream[c].batch)

LastVisible == \A c \in Readers : client[c].last \in Numbers \cup {0}

Inv ==
    /\ TypeOK
    /\ FiniteEvents
    /\ Consecutive
    /\ OneNumber
    /\ NextIsFree
    /\ StreamFollows
    /\ LastVisible

-----------------------------------------------------------------------------

\* A poll reads the rows that follow its position, without a gap.
LEMMA SinceInRow ==
  ASSUME TypeOK, FiniteEvents, Consecutive, NEW n \in Nat
  PROVE  Since(n) \subseteq events /\ InRow(n, Since(n))
  <1> DEFINE Between(e) == {d \in events : n < d.sequence /\ d.sequence < e.sequence}
  <1>1. Since(n) = {e \in events : e.sequence > n /\ Cardinality(Between(e)) < Limit}
    BY DEF Since
  <1>2. \A e \in events : e.sequence \in Nat
    BY DEF TypeOK, Event
  <1>3. SUFFICES ASSUME NEW e \in Since(n), NEW k \in (n + 1)..e.sequence
                 PROVE  \E d \in Since(n) : d.sequence = k
    BY <1>1 DEF InRow
  <1>4. PICK m \in Nat : Numbers = 1..m
    BY DEF Consecutive
  <1>5. e \in events /\ e.sequence \in Nat /\ e.sequence <= m /\ k \in Nat
    BY <1>1, <1>2, <1>4 DEF Numbers
  <1>6. k \in Numbers
    BY <1>4, <1>5
  <1>7. PICK d \in events : d.sequence = k
    BY <1>6 DEF Numbers
  <1>8. Between(d) \subseteq Between(e) /\ IsFiniteSet(Between(e))
    <2>1. Between(d) \subseteq Between(e)
      BY <1>2, <1>5, <1>7
    <2>2. Between(e) \subseteq events
      OBVIOUS
    <2> QED BY <2>1, <2>2, FS_Subset DEF FiniteEvents
  <1>9. /\ Cardinality(Between(d)) <= Cardinality(Between(e))
        /\ Cardinality(Between(d)) \in Nat /\ Cardinality(Between(e)) \in Nat
    <2> HIDE DEF Between
    <2>1. IsFiniteSet(Between(d))
      BY <1>8, FS_Subset
    <2> QED BY <1>8, <2>1, FS_Subset, FS_CardinalityType
  <1>10. Cardinality(Between(e)) < Limit /\ Limit \in Nat
    BY <1>1, BoundsAssumption
  <1>11. Cardinality(Between(d)) < Limit
    <2> HIDE DEF Between
    <2> QED BY <1>9, <1>10
  <1> QED BY <1>1, <1>5, <1>7, <1>11

\* The first row of what follows n is n + 1, and the others follow it.
LEMMA FirstIsNext ==
  ASSUME TypeOK, OneNumber, NEW n \in Nat, NEW b, b \subseteq events,
         InRow(n, b), NEW e \in FirstOf(b)
  PROVE  /\ e \in events /\ e.sequence = n + 1
         /\ InRow(n + 1, b \ {e})
  <1>1. e \in b /\ \A d \in b : e.sequence <= d.sequence
    BY DEF FirstOf
  <1>2. \A d \in b : d \in events /\ d.sequence \in Nat /\ d.sequence > n
    BY DEF InRow, TypeOK, Event
  <1>3. e.sequence = n + 1
    <2>1. PICK d \in b : d.sequence = n + 1
      BY <1>1, <1>2 DEF InRow
    <2> QED BY <1>1, <1>2, <2>1
  <1>4. ASSUME NEW d \in b \ {e}
        PROVE  /\ d.sequence > n + 1
               /\ \A k \in (n + 2)..d.sequence : \E x \in b \ {e} : x.sequence = k
    <2>1. d.sequence # e.sequence
      BY <1>1, <1>2, <1>4 DEF OneNumber
    <2>2. \A k \in (n + 2)..d.sequence : \E x \in b : x.sequence = k /\ x # e
      BY <1>2, <1>3, <1>4 DEF InRow
    <2> QED BY <1>1, <1>2, <1>3, <2>1, <2>2
  <1>5. InRow(n + 1, b \ {e})
    BY <1>4 DEF InRow
  <1> QED BY <1>1, <1>2, <1>3, <1>5

LEMMA InitInv == Init => Inv
  <1> SUFFICES ASSUME Init PROVE Inv
    OBVIOUS
  <1>1. Numbers = {} /\ IsFiniteSet(events)
    BY FS_EmptySet DEF Init, Numbers
  <1>2. TypeOK
    <2>1. events \in SUBSET Event /\ rowLock \in Writers \cup {Nobody}
      BY DEF Init
    <2>6. drops \in 0..MaxDrops
      BY BoundsAssumption DEF Init
    <2>7. terminal \in BOOLEAN
      BY Zenon DEF Init
    <2>2. tx \in [Writers -> Transaction] /\ \A w \in Writers : tx[w].pc = "idle"
      BY DEF Init, Transaction
    <2>3. NoStream \in Stream /\ NewClient \in Client
      BY DEF NoStream, Stream, NewClient, Client
    <2>4. stream \in [Readers -> Stream] /\ client \in [Readers -> Client]
      BY <2>3 DEF Init
    <2>5. \A w \in Writers : tx[w].pc # "idle" <=> rowLock = w
      BY <2>2, WritersAssumption DEF Init
    <2> QED BY <2>1, <2>2, <2>4, <2>5, <2>6, <2>7 DEF TypeOK
  <1>3. Consecutive
    <2>1. Numbers = 1..0
      BY <1>1
    <2> QED BY <2>1 DEF Consecutive
  <1> QED BY <1>1, <1>2, <1>3
          DEF Inv, FiniteEvents, OneNumber, NextIsFree, StreamFollows, LastVisible,
              Init, NoStream, NewClient

-----------------------------------------------------------------------------
(* The publishers.                                                          *)

\* Only the transaction that holds the row is at work.
LEMMA OneAtWork ==
  ASSUME TypeOK, NEW w \in Writers, tx[w].pc # "idle"
  PROVE  rowLock = w /\ \A v \in Writers : v # w => tx[v].pc = "idle"
  BY DEF TypeOK

\* The end of a transaction keeps transactions typed and gives the row back.
LEMMA CloseTyped ==
  ASSUME TypeOK, NEW w \in Writers, tx[w].pc # "idle", Close(w)
  PROVE  /\ tx' \in [Writers -> Transaction]
         /\ rowLock' = Nobody
         /\ \A v \in Writers : tx'[v].pc = "idle"
  <1>1. [pc |-> "idle", next |-> 0] \in Transaction
    BY DEF Transaction
  <1>2. rowLock = w /\ \A v \in Writers : v # w => tx[v].pc = "idle"
    BY OneAtWork
  <1> QED BY <1>1, <1>2 DEF Close, TypeOK

\* Steps that leave the events alone.
LEMMA SameEvents ==
  ASSUME Inv, events' = events
  PROVE  FiniteEvents' /\ Consecutive' /\ OneNumber' /\ Numbers' = Numbers
  BY DEF Inv, FiniteEvents, Consecutive, OneNumber, Numbers

LEMMA PublishInv ==
  ASSUME Inv, NEW w \in Writers, Publish(w)
  PROVE  Inv'
  <1> USE DEF Inv
  <1>1. CASE LockRun(w)
    <2>1. \A v \in Writers : tx[v].pc = "idle"
      BY <1>1, WritersAssumption DEF LockRun, RowFree, TypeOK
    <2>2. \A t \in Transaction : [t EXCEPT !.pc = "locked"] \in Transaction
      BY DEF Transaction
    <2>3. tx' = [tx EXCEPT ![w] = [tx[w] EXCEPT !.pc = "locked"]]
      BY <1>1 DEF LockRun, TypeOK
    <2>4. tx' \in [Writers -> Transaction]
      BY <2>2, <2>3 DEF TypeOK
    <2>5. \A v \in Writers : tx'[v].pc = IF v = w THEN "locked" ELSE "idle"
      BY <2>1, <2>3 DEF TypeOK, Transaction
    <2>6. TypeOK'
      BY <1>1, <2>4, <2>5 DEF LockRun, TypeOK
    <2>7. NextIsFree'
      BY <2>5 DEF NextIsFree
    <2> QED BY <1>1, <2>6, <2>7, SameEvents
            DEF LockRun, StreamFollows, LastVisible
  <1>2. CASE Number(w)
    <2>1. tx[w].pc = "locked" /\ UNCHANGED <<events, terminal, rowLock, stream, client, drops>>
      BY <1>2 DEF Number
    <2>2. PICK n \in 1..(MaxEvents + 1) :
            IsNext(n) /\ tx' = [tx EXCEPT ![w] = [pc |-> "numbered", next |-> n]]
      BY <1>2 DEF Number
    <2>3. PICK top \in Numbers \cup {0} : IsTop(top) /\ n = top + 1
      BY <2>2 DEF IsNext
    <2>4. PICK m \in Nat : Numbers = 1..m
      BY DEF Consecutive
    <2>5. top = m
      <3>1. \A k \in Numbers : k <= top
        BY <2>3 DEF IsTop, Numbers
      <3> QED BY <2>3, <2>4, <3>1
    <2>6. n \in Nat \ {0} /\ Numbers = 1..(n - 1)
      BY <2>3, <2>4, <2>5
    <2>7. tx' \in [Writers -> Transaction]
      BY <2>2, <2>6 DEF TypeOK, Transaction
    <2>8. \A v \in Writers : v # w => tx'[v] = tx[v] /\ tx[v].pc = "idle"
      BY <2>1, <2>2, OneAtWork DEF TypeOK
    <2>9. tx'[w] = [pc |-> "numbered", next |-> n] /\ rowLock = w
      BY <2>1, <2>2, OneAtWork DEF TypeOK
    <2>10. TypeOK'
      BY <2>1, <2>7, <2>8, <2>9 DEF TypeOK
    <2>11. NextIsFree'
      BY <2>1, <2>6, <2>8, <2>9, SameEvents DEF NextIsFree
    <2> QED BY <2>1, <2>10, <2>11, SameEvents DEF StreamFollows, LastVisible
  <1>3. CASE Commit(w)
    <2> DEFINE n == tx[w].next
    <2>1. /\ tx[w].pc = "numbered" /\ Close(w) /\ ~ Taken(n)
          /\ UNCHANGED <<stream, client, drops>>
      BY <1>3 DEF Commit
    <2>2. n \in Nat \ {0} /\ Numbers = 1..(n - 1)
      BY <2>1 DEF NextIsFree
    <2>3. PICK kind \in Kinds :
            /\ events' = events \cup {[sequence |-> n, final |-> kind = "final"]}
            /\ terminal' = IF kind = "progress" THEN terminal ELSE kind = "final"
      BY <1>3 DEF Commit
    <2> DEFINE new == [sequence |-> n, final |-> kind = "final"]
    <2> HIDE DEF n
    <2>4. /\ tx' \in [Writers -> Transaction] /\ rowLock' = Nobody
          /\ \A v \in Writers : tx'[v].pc = "idle"
      BY <2>1, CloseTyped
    <2>14. new \in Event /\ new.sequence = n
      <3>1. (kind = "final") \in BOOLEAN
        BY Zenon
      <3>2. n \in Nat
        BY <2>2
      <3> QED BY <3>1, <3>2, Zenon DEF Event
    <2>15. events' = events \cup {new}
      BY <2>3
    <2>16. terminal' \in BOOLEAN
      BY <2>3, Zenon DEF TypeOK
    <2> HIDE DEF new
    <2>5. events' \in SUBSET Event /\ events \subseteq events'
      BY <2>14, <2>15 DEF TypeOK
    <2>6. TypeOK'
      BY <2>1, <2>16, <2>4, <2>5, WritersAssumption DEF TypeOK
    <2>7. FiniteEvents'
      BY <2>15, FS_AddElement DEF FiniteEvents
    <2>8. Numbers' = Numbers \cup {n}
      BY <2>14, <2>15 DEF Numbers
    <2>9. Consecutive'
      <3>1. Numbers' = 1..n
        BY <2>2, <2>8
      <3> QED BY <2>2, <3>1 DEF Consecutive
    <2>10. OneNumber'
      <3>1. \A d \in events : d.sequence # n
        BY <2>1 DEF Taken, Numbers
      <3> QED BY <2>14, <2>15, <3>1 DEF OneNumber
    <2>11. NextIsFree'
      BY <2>4 DEF NextIsFree
    <2>12. StreamFollows'
      BY <2>1, <2>5 DEF StreamFollows
    <2>13. LastVisible'
      BY <2>1, <2>8 DEF LastVisible
    <2> QED BY <2>6, <2>7, <2>9, <2>10, <2>11, <2>12, <2>13
  <1>4. CASE RollBack(w)
    <2>1. /\ tx[w].pc # "idle" /\ Close(w)
          /\ UNCHANGED <<events, terminal, stream, client, drops>>
      BY <1>4 DEF RollBack
    <2>2. /\ tx' \in [Writers -> Transaction] /\ rowLock' = Nobody
          /\ \A v \in Writers : tx'[v].pc = "idle"
      BY <2>1, CloseTyped
    <2>3. TypeOK'
      BY <2>1, <2>2, WritersAssumption DEF TypeOK
    <2>4. NextIsFree'
      BY <2>2 DEF NextIsFree
    <2> QED BY <2>1, <2>3, <2>4, SameEvents DEF StreamFollows, LastVisible
  <1> QED BY <1>1, <1>2, <1>3, <1>4 DEF Publish

-----------------------------------------------------------------------------
(* The readers.  None of their steps touches the run, its events or a       *)
(* publishing transaction.                                                  *)

ReadersOnly == UNCHANGED <<events, terminal, rowLock, tx>>

\* One reader's stream and browser change, to values that agree.
LEMMA ReaderMoves ==
  ASSUME Inv, ReadersOnly, drops' \in 0..MaxDrops, NEW c \in Readers,
         NEW s \in Stream, NEW b \in Client,
         stream' = [stream EXCEPT ![c] = s], client' = [client EXCEPT ![c] = b],
         b.last \in Numbers \cup {0},
         s.pc # "closed" =>
            /\ b.pc = "following" /\ s.position = b.last
            /\ s.batch \subseteq events /\ InRow(s.position, s.batch)
  PROVE  Inv'
  <1>1. \A r \in Readers : /\ stream'[r] = IF r = c THEN s ELSE stream[r]
                          /\ client'[r] = IF r = c THEN b ELSE client[r]
    BY DEF Inv, TypeOK
  <1>2. stream' \in [Readers -> Stream] /\ client' \in [Readers -> Client]
    BY DEF Inv, TypeOK
  <1>3. TypeOK'
    BY <1>2 DEF Inv, TypeOK, ReadersOnly
  <1>4. NextIsFree' /\ FiniteEvents' /\ Consecutive' /\ OneNumber' /\ Numbers' = Numbers
    BY SameEvents DEF Inv, NextIsFree, ReadersOnly
  <1>5. StreamFollows'
    <2>1. SUFFICES ASSUME NEW r \in Readers, stream'[r].pc # "closed"
                   PROVE  /\ client'[r].pc = "following"
                          /\ stream'[r].position = client'[r].last
                          /\ stream'[r].batch \subseteq events
                          /\ InRow(stream'[r].position, stream'[r].batch)
      BY DEF StreamFollows, ReadersOnly, InRow
    <2>2. CASE r = c
      BY <1>1, <2>1, <2>2
    <2>3. CASE r # c
      BY <1>1, <2>1, <2>3 DEF Inv, StreamFollows
    <2> QED BY <2>2, <2>3
  <1>6. LastVisible'
    BY <1>1, <1>4 DEF Inv, LastVisible
  <1> QED BY <1>3, <1>4, <1>5, <1>6 DEF Inv

\* What is known of one reader before its step.
LEMMA ReaderBefore ==
  ASSUME Inv, NEW c \in Readers
  PROVE  /\ stream[c] \in Stream /\ client[c] \in Client
         /\ stream = [stream EXCEPT ![c] = stream[c]]
         /\ client = [client EXCEPT ![c] = client[c]]
         /\ client[c].last \in Numbers \cup {0}
         /\ drops \in 0..MaxDrops
         /\ NoStream \in Stream /\ NoStream.pc = "closed"
         /\ stream[c].pc # "closed" =>
               /\ client[c].pc = "following"
               /\ stream[c].position = client[c].last
               /\ stream[c].batch \subseteq events
               /\ InRow(stream[c].position, stream[c].batch)
  <1>1. NoStream \in Stream /\ NoStream.pc = "closed"
    BY DEF NoStream, Stream
  <1>2. stream = [stream EXCEPT ![c] = stream[c]] /\ client = [client EXCEPT ![c] = client[c]]
    BY DEF Inv, TypeOK
  <1> QED BY <1>1, <1>2 DEF Inv, TypeOK, StreamFollows, LastVisible

LEMMA FollowInv ==
  ASSUME Inv, NEW c \in Readers, Follow(c)
  PROVE  /\ Inv'
         /\ client[c].pc = "new"
         /\ \E n \in Numbers \cup {0} :
               client' = [client EXCEPT ![c] = [pc |-> "following", last |-> n, told |-> "no"]]
  <1>1. /\ client[c].pc = "new"
        /\ UNCHANGED <<events, terminal, rowLock, tx, stream, drops>>
    BY DEF Follow
  <1>2. PICK n \in {0} \cup {e.sequence : e \in Since(0)} :
          client' = [client EXCEPT ![c] = [pc |-> "following", last |-> n, told |-> "no"]]
    BY DEF Follow
  <1>3. n \in Numbers \cup {0}
    BY DEF Since, Numbers
  <1>4. n \in Nat
    BY <1>3 DEF Inv, TypeOK, Event, Numbers
  <1> DEFINE b == [pc |-> "following", last |-> n, told |-> "no"]
  <1>5. b \in Client /\ b.last = n
    BY <1>4 DEF Client
  <1>6. stream' = [stream EXCEPT ![c] = stream[c]] /\ stream[c] \in Stream
    BY <1>1, ReaderBefore
  <1>7. stream[c].pc = "closed" /\ drops' \in 0..MaxDrops /\ ReadersOnly
    BY <1>1, ReaderBefore DEF ReadersOnly
  <1>8. client' = [client EXCEPT ![c] = b]
    BY <1>2
  <1> HIDE DEF b
  <1>9. Inv'
    BY <1>3, <1>5, <1>6, <1>7, <1>8, ReaderMoves
  <1> QED BY <1>1, <1>2, <1>3, <1>9

\* Steps of a reader that leave the browser alone.
LEMMA StreamMoves ==
  ASSUME Inv, ReadersOnly, drops' \in 0..MaxDrops, client' = client,
         NEW c \in Readers, NEW s \in Stream,
         stream' = [stream EXCEPT ![c] = s],
         s.pc # "closed" =>
            /\ client[c].pc = "following" /\ s.position = client[c].last
            /\ s.batch \subseteq events /\ InRow(s.position, s.batch)
  PROVE  Inv'
  <1>1. /\ client' = [client EXCEPT ![c] = client[c]] /\ client[c] \in Client
        /\ client[c].last \in Numbers \cup {0}
    BY ReaderBefore
  <1> QED BY <1>1, ReaderMoves

LEMMA ConnectInv ==
  ASSUME Inv, NEW c \in Readers, Connect(c)
  PROVE  Inv'
  <1> DEFINE s == [pc |-> "polling", position |-> client[c].last, batch |-> {}]
  <1>1. client[c].last \in Nat
    BY ReaderBefore DEF Client
  <1>2. s \in Stream /\ s.position = client[c].last /\ s.batch = {}
    BY <1>1 DEF Stream
  <1>3. /\ stream' = [stream EXCEPT ![c] = s] /\ client' = client
        /\ client[c].pc = "following"
    BY DEF Connect, Cursor
  <1>4. ReadersOnly /\ drops' \in 0..MaxDrops
    BY ReaderBefore DEF Connect, ReadersOnly
  <1> HIDE DEF s
  <1>5. s.batch \subseteq events /\ InRow(s.position, s.batch)
    BY <1>2 DEF InRow
  <1> QED BY <1>2, <1>3, <1>4, <1>5, StreamMoves

LEMMA DropInv ==
  ASSUME Inv, NEW c \in Readers, Drop(c)
  PROVE  Inv'
  <1>1. ReadersOnly /\ drops' \in 0..MaxDrops
    BY ReaderBefore, BoundsAssumption DEF Drop, ReadersOnly
  <1>2. stream' = [stream EXCEPT ![c] = NoStream] /\ client' = client
    BY DEF Drop
  <1> QED BY <1>1, <1>2, ReaderBefore, StreamMoves

LEMMA ReadRowsInv ==
  ASSUME Inv, NEW c \in Readers, ReadRows(c)
  PROVE  Inv'
  <1> DEFINE n == stream[c].position
             s == [pc |-> "checking", position |-> n, batch |-> Since(n)]
  <1>1. stream[c].pc = "polling" /\ client' = client /\ ReadersOnly /\ drops' = drops
    BY DEF ReadRows, ReadersOnly
  <1>2. n \in Nat
    BY ReaderBefore DEF Stream
  <1>3. Since(n) \subseteq events /\ InRow(n, Since(n))
    BY <1>2, SinceInRow DEF Inv
  <1>4. s \in Stream /\ s.position = n /\ s.batch = Since(n)
    BY <1>2, <1>3 DEF Stream, Inv, TypeOK
  <1>7. stream' = [stream EXCEPT ![c] = s]
    BY DEF ReadRows
  <1>8. client[c].pc = "following" /\ n = client[c].last /\ drops \in 0..MaxDrops
    BY <1>1, ReaderBefore
  <1> HIDE DEF s, n
  <1> QED BY <1>1, <1>3, <1>4, <1>7, <1>8, StreamMoves

LEMMA ReadRunInv ==
  ASSUME Inv, NEW c \in Readers, ReadRun(c)
  PROVE  /\ Inv'
         /\ \/ client' = client
            \/ /\ client[c].pc = "following"
               /\ client' = [client EXCEPT ![c] = [pc |-> "done", last |-> client[c].last,
                                                  told |-> "substitute"]]
  <1>1. /\ stream[c].pc = "checking" /\ ReadersOnly /\ drops' = drops
        /\ client[c].pc = "following" /\ drops' \in 0..MaxDrops
    BY ReaderBefore DEF ReadRun, ReadersOnly
  <1>2. ASSUME NEW q \in {"polling", "sending"}, client' = client,
               stream' = [stream EXCEPT ![c].pc = q]
        PROVE  Inv'
    <2> DEFINE s == [stream[c] EXCEPT !.pc = q]
    <2>1. stream' = [stream EXCEPT ![c] = s]
      BY <1>2 DEF Inv, TypeOK
    <2>3. stream[c] \in Stream
      BY ReaderBefore
    <2>2. /\ s \in Stream /\ s.position = stream[c].position /\ s.batch = stream[c].batch
      BY <2>3 DEF Stream
    <2> HIDE DEF s
    <2>4. /\ s.position = client[c].last /\ s.batch \subseteq events
          /\ InRow(s.position, s.batch)
      <3>1. /\ stream[c].position = client[c].last /\ stream[c].batch \subseteq events
            /\ InRow(stream[c].position, stream[c].batch)
        BY <1>1, ReaderBefore
      <3> QED BY <2>2, <3>1
    <2> QED BY <1>1, <1>2, <2>1, <2>2, <2>4, StreamMoves
  <1>3. ASSUME stream' = [stream EXCEPT ![c] = NoStream],
               client' = [client EXCEPT ![c] = [pc |-> "done", last |-> client[c].last,
                                                told |-> "substitute"]]
        PROVE  /\ Inv'
               /\ client' = [client EXCEPT ![c] = [pc |-> "done", last |-> client[c].last,
                                                  told |-> "substitute"]]
    <2> DEFINE b == [pc |-> "done", last |-> client[c].last, told |-> "substitute"]
    <2>1. client[c].last \in Nat
      BY ReaderBefore DEF Client
    <2>3. client' = [client EXCEPT ![c] = b] /\ b \in Client /\ b.last = client[c].last
      BY <1>3, <2>1 DEF Client
    <2> HIDE DEF b
    <2>4. Inv'
      BY <1>1, <1>3, <2>3, ReaderBefore, ReaderMoves
    <2> QED BY <2>3, <2>4 DEF b
  <1> QED BY <1>1, <1>2, <1>3 DEF ReadRun

\* A browser receives the event after the last one it received.
LEMMA SendInv ==
  ASSUME Inv, NEW c \in Readers, Send(c)
  PROVE  /\ Inv'
         /\ client[c].pc = "following"
         /\ client[c].last + 1 \in Numbers
         /\ \E q \in {"following", "done"}, t \in {"no", "final"} :
               client' = [client EXCEPT ![c] =
                            [pc |-> q, last |-> client[c].last + 1, told |-> t]]
  <1> DEFINE n == client[c].last
             batch == stream[c].batch
  <1>1. /\ stream[c].pc = "sending" /\ ReadersOnly /\ drops' = drops
        /\ drops' \in 0..MaxDrops /\ n \in Nat
    BY ReaderBefore DEF Send, ReadersOnly, Client
  <1>2. /\ client[c].pc = "following" /\ batch \subseteq events /\ InRow(n, batch)
    BY <1>1, ReaderBefore
  <1>3. PICK e \in FirstOf(batch) :
         /\ client' = [client EXCEPT ![c] =
              [pc |-> IF e.final THEN "done" ELSE "following",
               last |-> e.sequence,
               told |-> IF e.final THEN "final" ELSE "no"]]
         /\ stream' = [stream EXCEPT ![c] =
              IF e.final THEN NoStream
              ELSE [pc |-> IF batch = {e} THEN "polling" ELSE "sending",
                    position |-> e.sequence,
                    batch |-> batch \ {e}]]
    BY DEF Send
  <1>4. e \in events /\ e.sequence = n + 1 /\ InRow(n + 1, batch \ {e})
    BY <1>1, <1>2, <1>3, FirstIsNext DEF Inv
  <1>5. n + 1 \in Numbers /\ n + 1 \in Nat /\ batch \ {e} \in SUBSET Event
    BY <1>1, <1>2, <1>4 DEF Numbers, Inv, TypeOK
  <1> DEFINE b == [pc |-> IF e.final THEN "done" ELSE "following", last |-> n + 1,
                   told |-> IF e.final THEN "final" ELSE "no"]
             s == IF e.final THEN NoStream
                  ELSE [pc |-> IF batch = {e} THEN "polling" ELSE "sending",
                        position |-> n + 1, batch |-> batch \ {e}]
  <1>6. b \in Client /\ b.last = n + 1 /\ (~ e.final => b.pc = "following")
    BY <1>5 DEF Client
  <1>7. /\ s \in Stream /\ (e.final => s.pc = "closed")
        /\ (~ e.final => s.position = n + 1 /\ s.batch = batch \ {e})
    BY <1>5, ReaderBefore DEF Stream
  <1>8. client' = [client EXCEPT ![c] = b] /\ stream' = [stream EXCEPT ![c] = s]
    BY <1>3, <1>4
  <1>9. \E q \in {"following", "done"}, t \in {"no", "final"} :
          client' = [client EXCEPT ![c] = [pc |-> q, last |-> n + 1, told |-> t]]
    BY <1>8
  <1> HIDE DEF b, s, n, batch
  <1>10. Inv'
    BY <1>1, <1>2, <1>4, <1>5, <1>6, <1>7, <1>8, ReaderMoves
  <1> QED BY <1>2, <1>5, <1>9, <1>10 DEF n

-----------------------------------------------------------------------------

LEMMA ServeInv ==
  ASSUME Inv, NEW c \in Readers, Follow(c) \/ Serve(c) \/ Drop(c)
  PROVE  Inv'
  BY FollowInv, ConnectInv, ReadRowsInv, ReadRunInv, SendInv, DropInv DEF Serve

LEMMA StutterInv ==
  ASSUME Inv, UNCHANGED vars
  PROVE  Inv'
  <1>1. UNCHANGED <<events, terminal, rowLock, tx, stream, client, drops>>
    BY DEF vars
  <1>2. FiniteEvents' /\ Consecutive' /\ OneNumber' /\ Numbers' = Numbers
    BY <1>1, SameEvents
  <1> QED BY <1>1, <1>2 DEF Inv, TypeOK, NextIsFree, StreamFollows, InRow, LastVisible

LEMMA InductiveInv == Spec => []Inv
  <1>1. Inv /\ [Next]_vars => Inv'
    BY PublishInv, ServeInv, StutterInv DEF Next
  <1> QED BY InitInv, <1>1, PTL DEF Spec

\* The variables keep their shapes, and whoever is between the SELECT FOR
\* UPDATE and the commit of publish holds the row (events.py:25-45).
THEOREM TypeCorrect == Spec => []TypeOK
  <1>1. Inv => TypeOK
    BY DEF Inv
  <1> QED BY InductiveInv, <1>1, PTL

\* The unique index on (run_id, sequence) never refuses an event: the number
\* publish computed is still free when it is written (events.py:25-33).
THEOREM NumbersStayFree == Spec => []NumberStaysFree
  <1>1. Inv => NumberStaysFree
    BY DEF Inv, TypeOK, NextIsFree, NumberStaysFree, Taken
  <1> QED BY InductiveInv, <1>1, PTL

-----------------------------------------------------------------------------
(* The stream is a feed.                                                    *)

Following == {c \in Readers : client[c].pc # "new"}
Reached == [c \in Readers |-> client[c].last]

LEMMA InitFeed == Init => Feed!Init
  <1> SUFFICES ASSUME Init PROVE Feed!Init
    OBVIOUS
  <1>1. Numbers = {}
    BY DEF Init, Numbers
  <1>2. \A c \in Readers : client[c].pc = "new" /\ client[c].last = 0
    BY DEF Init, NewClient
  <1> QED BY <1>1, <1>2 DEF Feed!Init

\* The commit of an event publishes the next number; nothing else a publisher
\* does is seen.
LEMMA PublishFeed ==
  ASSUME Inv, NEW w \in Writers, Publish(w)
  PROVE  Feed!Next \/ UNCHANGED <<Numbers, Following, Reached>>
  <1>1. UNCHANGED <<stream, client, drops>>
    BY DEF Publish, LockRun, Number, Commit, RollBack
  <1>2. Following' = Following /\ Reached' = Reached
    BY <1>1 DEF Following, Reached
  <1>3. CASE events' = events
    BY <1>2, <1>3 DEF Numbers
  <1>4. CASE Commit(w)
    <2> DEFINE n == tx[w].next
    <2>1. n \in Nat \ {0} /\ Numbers = 1..(n - 1)
      BY <1>4 DEF Commit, Inv, NextIsFree
    <2>2. PICK f : events' = events \cup {[sequence |-> n, final |-> f]}
      BY <1>4 DEF Commit
    <2>3. Numbers' = Numbers \cup {n}
      <3> DEFINE new == [sequence |-> n, final |-> f]
      <3>1. new.sequence = n /\ events' = events \cup {new}
        BY <2>2
      <3> HIDE DEF n, new
      <3> QED BY <3>1 DEF Numbers
    <2>4. Numbers' = 1..n /\ n \in Numbers'
      BY <2>1, <2>3
    <2>5. Feed!Publish
      BY <1>2, <2>1, <2>4 DEF Feed!Publish, Following, Reached
    <2> QED BY <2>5 DEF Feed!Next
  <1> QED BY <1>3, <1>4 DEF Publish, LockRun, Number, RollBack

\* A browser that begins begins at a visible number; one that receives an
\* event receives the next one; nothing else a reader's side does is seen.
LEMMA ReaderFeed ==
  ASSUME Inv, NEW c \in Readers, Follow(c) \/ Serve(c) \/ Drop(c)
  PROVE  Feed!Next \/ UNCHANGED <<Numbers, Following, Reached>>
  <1>1. Numbers' = Numbers /\ client \in [Readers -> Client]
    BY DEF Follow, Serve, Connect, ReadRows, ReadRun, Send, Drop, Numbers, Inv, TypeOK
  <1>2. CASE client' = client
    BY <1>1, <1>2 DEF Following, Reached
  <1>3. CASE Follow(c)
    <2>1. PICK n \in Numbers \cup {0} :
            client' = [client EXCEPT ![c] = [pc |-> "following", last |-> n, told |-> "no"]]
      BY <1>3, FollowInv
    <2>2. client[c].pc = "new"
      BY <1>3, FollowInv
    <2>3. /\ c \notin Following /\ Following' = Following \cup {c}
          /\ Reached' = [Reached EXCEPT ![c] = n]
      BY <1>1, <2>1, <2>2 DEF Following, Reached
    <2>4. Feed!Follow(c)
      BY <1>1, <2>3 DEF Feed!Follow, Following, Reached
    <2> QED BY <2>4 DEF Feed!Next
  <1>4. CASE ReadRun(c)
    <2>1. CASE client' = client
      BY <1>2, <2>1
    <2>2. CASE /\ client[c].pc = "following"
               /\ client' = [client EXCEPT ![c] = [pc |-> "done", last |-> client[c].last,
                                                  told |-> "substitute"]]
      BY <1>1, <2>2 DEF Following, Reached
    <2> QED BY <1>4, <2>1, <2>2, ReadRunInv
  <1>5. CASE Send(c)
    <2> DEFINE n == client[c].last
    <2>1. client[c].pc = "following" /\ n + 1 \in Numbers
      BY <1>5, SendInv
    <2>2. PICK q \in {"following", "done"}, t \in {"no", "final"} :
            client' = [client EXCEPT ![c] = [pc |-> q, last |-> n + 1, told |-> t]]
      BY <1>5, SendInv
    <2>3. /\ c \in Following /\ Following' = Following
          /\ Reached[c] = n /\ Reached' = [Reached EXCEPT ![c] = Reached[c] + 1]
      BY <1>1, <2>1, <2>2 DEF Following, Reached
    <2>4. Feed!Receive(c)
      BY <1>1, <2>1, <2>3 DEF Feed!Receive, Following, Reached
    <2> QED BY <2>4 DEF Feed!Next
  <1> QED BY <1>2, <1>3, <1>4, <1>5 DEF Serve, Connect, ReadRows, Drop

\* Events become visible one number after the other, and every browser
\* receives each event after the one it began with, in order and once, over
\* any number of reconnections (agent_api.py:68-119, events.py:16-62).
THEOREM FeedImplemented == Spec => ImplementsFeed
  <1>1. Inv /\ [Next]_vars => [Feed!Next]_<<Numbers, Following, Reached>>
    <2> SUFFICES ASSUME Inv, [Next]_vars
                 PROVE  Feed!Next \/ UNCHANGED <<Numbers, Following, Reached>>
      OBVIOUS
    <2>1. CASE UNCHANGED vars
      BY <2>1 DEF vars, Numbers, Following, Reached
    <2> QED BY <2>1, PublishFeed, ReaderFeed DEF Next
  <1> QED BY InductiveInv, InitFeed, <1>1, PTL
          DEF Spec, ImplementsFeed, Feed!Spec, Following, Reached
=============================================================================
