------------------------- MODULE ResearchLoopProofs --------------------------
(* Theorems about ResearchLoop and the ActivityIngest it drives, for any    *)
(* pages, fingerprints, trust and nearness, any plan of the model and any   *)
(* settings; and, at the end, about the gear of the providers it calls.     *)
EXTENDS ResearchLoop, ProviderGear, FiniteSetTheorems, TLAPS

-----------------------------------------------------------------------------
(* What the threads of ingestion and verification keep, whatever starts     *)
(* them.                                                                    *)

\* The tables hold rows, and a check a copy of one.
CheckStates == {"idle", "asked", "read", "confirming"}
CheckShape ==
  [at : CheckStates, page : Pages \cup {NoPage}, left : 0 .. 2, ev : Evidence,
   status : Levels \cup {"expired"}, word : SUBSET Pages, holds : BOOLEAN, wrote : BOOLEAN]
IngestShape ==
  /\ rows \in [Prints -> Row]
  /\ DOMAIN reader = Pages /\ DOMAIN dup = Pages
  /\ check \in [Prints -> CheckShape]
  /\ word \in [Prints -> SUBSET Pages]

\* A duplicate is a stored row; found by meaning it is the page's own row or
\* another one of its event.
DupFits ==
  \A p \in Pages :
    /\ DOMAIN dup[p] = DOMAIN Unique /\ dup[p].copy \in Evidence
    /\ Matched(p) => dup[p].print \in Prints /\ Stored(dup[p].print)
    /\ dup[p].matched = "semantic" =>
         dup[p].print = PrintOf[p] \/ <<PrintOf[p], dup[p].print>> \in SameMeaning
    /\ reader[p] = "compared" /\ Matched(p) => dup[p].copy.source \in Pages

\* A row that is stored has a source, and the status it has, or that a check is
\* about to give it, is backed; what is checked was stored, and a page about to
\* confirm it is not the page it came from.
WordsAreKept ==
  \A f \in Prints :
    /\ Backs(word[f], rows[f].status)
    /\ Stored(f) => rows[f].ev.source \in Pages
    /\ check[f].at # "idle" => Stored(f)
    /\ check[f].at \in {"read", "confirming"} => check[f].ev.source \in Pages
    /\ check[f].at = "confirming" => check[f].page \in Pages /\ check[f].page # check[f].ev.source
    /\ check[f].holds => check[f].at \in {"read", "confirming"}
    /\ check[f].wrote => /\ check[f].holds /\ check[f].status \in {"public", "official"}
                         /\ Backs(check[f].word, check[f].status)

\* A page that was written has its row.
WrittenIsStored == \A p \in Pages : reader[p] = "done" /\ Writes(p) => Stored(PrintOf[p])

IngestInv == IngestShape /\ DupFits /\ WordsAreKept /\ WrittenIsStored /\ EventStaysVisible

\* A row that was stored is never unstored.
RowsStay == \A f \in Prints : Stored(f) => Stored(f)'

LEMMA EmptyFits ==
  NoEvidence \in Evidence /\ NoRow \in Row /\ NoCheck \in CheckShape
<1>1. NoEvidence \in Evidence
  BY DEF NoEvidence, Evidence, Levels
<1> QED BY <1>1 DEF NoRow, Row, Levels, NoCheck, CheckShape, CheckStates

LEMMA InitIngests == IngestInit => IngestInv
<1> SUFFICES ASSUME IngestInit PROVE IngestInv
  OBVIOUS
<1>1. IngestShape
  BY EmptyFits DEF IngestInit, IngestShape
<1>2. \A f \in Prints : ~Stored(f)
  BY DEF IngestInit, Stored, NoRow
<1>3. WordsAreKept
  BY <1>2 DEF IngestInit, WordsAreKept, Backs, NoRow, NoCheck
<1>4. DupFits /\ WrittenIsStored
  BY EmptyFits DEF IngestInit, DupFits, WrittenIsStored, Matched, Unique
<1>5. EventStaysVisible
  BY <1>2 DEF EventStaysVisible
<1> QED BY <1>1, <1>3, <1>4, <1>5 DEF IngestInv

-----------------------------------------------------------------------------
(* The steps of a page's thread.                                            *)

LEMMA GradedRows ==
  ASSUME NEW p \in Pages, NEW disputed \in BOOLEAN
  PROVE  /\ Graded(p, disputed) \in Row /\ Backs({p}, Graded(p, disputed).status)
         /\ Graded(p, disputed).ev.source = p
         /\ Graded(p, disputed).status # "none" /\ ~Graded(p, disputed).gone
<1>1. CASE Official(p)
  BY <1>1 DEF Graded, Row, Evidence, Levels, Backs
<1>2. CASE ~Official(p)
  BY <1>2 DEF Graded, Row, Evidence, Levels, Backs
<1> QED BY <1>1, <1>2

\* What a thread finds before it writes: no row is touched and no page is done.
LEMMA LooksKeep ==
  ASSUME NEW p \in Pages, IngestInv, UNCHANGED <<rows, check, word, selfExpired>>,
         NEW state \in {"failed", "embedding", "matched", "compared"},
         reader' = [reader EXCEPT ![p] = state],
         DOMAIN dup' = Pages, \A q \in Pages : q # p => dup'[q] = dup[q],
         DupFits'
  PROVE  IngestInv' /\ RowsStay
<1>1. IngestShape'
  BY DEF IngestInv, IngestShape
<1>2. WrittenIsStored'
  BY DEF IngestInv, IngestShape, WrittenIsStored, Writes, Matched, Stored
<1>3. WordsAreKept' /\ EventStaysVisible' /\ RowsStay
  BY DEF IngestInv, WordsAreKept, EventStaysVisible, Stored, Live, RowsStay
<1> QED BY <1>1, <1>2, <1>3 DEF IngestInv

\* A row that a query found.
FitsPage(d, p) ==
  /\ DOMAIN d = DOMAIN Unique /\ d.copy \in Evidence
  /\ d.matched # "none" => d.print \in Prints /\ Stored(d.print)
  /\ d.matched = "semantic" => d.print = PrintOf[p] \/ <<PrintOf[p], d.print>> \in SameMeaning

LEMMA FoundFits ==
  ASSUME NEW p \in Pages, NEW d \in Namesakes(PrintOf[p]) \cup Nearest(PrintOf[p])
  PROVE  FitsPage(d, p)
<1> USE IngestAssumption, EmptyFits
<1> DEFINE f == PrintOf[p]
           titled == {h \in Prints : <<f, h>> \in SameTitle /\ Live(h)}
           near == {g \in Prints : <<f, g>> \in SameMeaning /\ Live(g)}
<1>1. FitsPage(Unique, p)
  BY DEF FitsPage, Unique
<1>2. ASSUME NEW g \in Prints, Stored(g), NEW how \in {"fingerprint", "entity_title"}
      PROVE  FitsPage(Found(g, how), p)
  BY <1>2 DEF FitsPage, Unique, Found
<1>3. ASSUME NEW g \in Prints, Stored(g), g = f \/ <<f, g>> \in SameMeaning
      PROVE  FitsPage(Found(g, "semantic"), p)
  BY <1>3 DEF FitsPage, Unique, Found
<1>4. f \in Prints
  OBVIOUS
<1>5. CASE d \in Namesakes(f)
  <2>1. CASE Stored(f)
    BY <1>2, <1>4, <1>5, <2>1 DEF Namesakes
  <2>2. CASE ~Stored(f)
    <3>1. d \in {Found(g, "entity_title") : g \in titled}
      BY <1>5, <2>2 DEF Namesakes
    <3>2. PICK g \in titled : d = Found(g, "entity_title")
      BY <3>1
    <3> QED BY <1>2, <3>2 DEF Live
  <2> QED BY <2>1, <2>2
<1>6. CASE d \in Nearest(f)
  <2>1. CASE Live(f)
    <3>1. d = Found(f, "semantic")
      BY <1>6, <2>1 DEF Nearest
    <3> QED BY <1>3, <1>4, <2>1, <3>1 DEF Live
  <2>2. CASE ~Live(f) /\ near # {}
    <3>1. d \in {Found(g, "semantic") : g \in near}
      BY <1>6, <2>2 DEF Nearest
    <3>2. PICK g \in near : d = Found(g, "semantic")
      BY <3>1
    <3> QED BY <1>3, <3>2 DEF Live
  <2>3. CASE ~Live(f) /\ near = {}
    <3>1. d = Unique
      BY <1>6, <2>3 DEF Nearest
    <3> QED BY <1>1, <3>1
  <2> QED BY <2>1, <2>2, <2>3
<1> QED BY <1>5, <1>6

LEMMA ExtractKeeps ==
  ASSUME NEW p \in Pages, IngestInv, Extracts(p) \/ Embeds(p) \/ Compares(p)
  PROVE  IngestInv' /\ RowsStay
<1>1. UNCHANGED <<rows, check, word, selfExpired>>
  BY DEF Extracts, Embeds, Compares
<1>2. CASE \E d \in Namesakes(PrintOf[p]) \cup Nearest(PrintOf[p]) :
             dup' = [dup EXCEPT ![p] = d] /\ reader' = [reader EXCEPT ![p] = "matched"]
  <2>1. PICK d \in Namesakes(PrintOf[p]) \cup Nearest(PrintOf[p]) :
               dup' = [dup EXCEPT ![p] = d] /\ reader' = [reader EXCEPT ![p] = "matched"]
    BY <1>2
  <2>2. FitsPage(d, p)
    BY FoundFits
  <2>3. DupFits'
    BY <1>1, <2>1, <2>2 DEF IngestInv, IngestShape, DupFits, FitsPage, Matched, Stored
  <2> QED BY <1>1, <2>1, <2>3, LooksKeep DEF IngestInv, IngestShape
<1>3. CASE \E state \in {"failed", "embedding"} :
             reader' = [reader EXCEPT ![p] = state] /\ UNCHANGED dup
  <2>1. PICK state \in {"failed", "embedding"} :
               reader' = [reader EXCEPT ![p] = state] /\ UNCHANGED dup
    BY <1>3
  <2>2. DupFits'
    BY <1>1, <2>1 DEF IngestInv, IngestShape, DupFits, Matched, Stored
  <2> QED BY <1>1, <2>1, <2>2, LooksKeep DEF IngestInv, IngestShape
<1>4. CASE Compares(p)
  <2>1. /\ reader' = [reader EXCEPT ![p] = "compared"]
        /\ dup' = IF Matched(p) THEN [dup EXCEPT ![p].copy = rows[dup[p].print].ev] ELSE dup
    BY <1>4 DEF Compares
  <2>2. Matched(p) => /\ rows[dup[p].print].ev \in Evidence
                      /\ rows[dup[p].print].ev.source \in Pages
    BY DEF IngestInv, IngestShape, DupFits, WordsAreKept, Row
  <2>3. /\ DOMAIN dup' = Pages /\ \A q \in Pages : q # p => dup'[q] = dup[q]
        /\ DOMAIN dup'[p] = DOMAIN Unique /\ dup'[p].copy \in Evidence
        /\ dup'[p].matched = dup[p].matched /\ dup'[p].print = dup[p].print
        /\ Matched(p) => dup'[p].copy.source \in Pages
    <3>1. CASE Matched(p)
      <4>1. dup'[p] = [dup[p] EXCEPT !.copy = rows[dup[p].print].ev]
        BY <2>1, <3>1 DEF IngestInv, IngestShape
      <4>2. DOMAIN dup[p] = {"print", "trust", "matched", "copy"}
        BY DEF IngestInv, DupFits, Unique
      <4>3. /\ DOMAIN dup'[p] = DOMAIN dup[p] /\ dup'[p].copy = rows[dup[p].print].ev
            /\ dup'[p].matched = dup[p].matched /\ dup'[p].print = dup[p].print
        BY <4>1, <4>2
      <4>4. DOMAIN dup' = Pages /\ \A q \in Pages : q # p => dup'[q] = dup[q]
        BY <2>1, <3>1 DEF IngestInv, IngestShape
      <4> QED BY <2>2, <3>1, <4>3, <4>4 DEF IngestInv, DupFits
    <3>2. CASE ~Matched(p)
      BY <2>1, <3>2 DEF IngestInv, IngestShape, DupFits
    <3> QED BY <3>1, <3>2
  <2>4. DupFits'
    BY <1>1, <2>1, <2>3 DEF IngestInv, IngestShape, DupFits, Matched, Stored
  <2> QED BY <1>1, <2>1, <2>3, <2>4, LooksKeep
<1> QED BY <1>2, <1>3, <1>4 DEF Extracts, Embeds

LEMMA NotesFit ==
  ASSUME NEW p \in Pages, IngestInv, reader[p] = "compared", Matched(p)
  PROVE  Noted(p) \in Evidence /\ Noted(p).source \in Pages
<1>1. dup[p].copy \in Evidence /\ dup[p].copy.source \in Pages
  BY DEF IngestInv, DupFits
<1> QED BY <1>1 DEF Noted, Evidence

\* What one commit leaves of a row.
LEMMA RowsAfter ==
  ASSUME NEW p \in Pages, NEW f \in Prints, IngestInv, reader[p] = "compared"
  PROVE  /\ RowAfter(p, f) \in Row
         /\ ~(Writes(p) /\ f = PrintOf[p]) =>
              RowAfter(p, f).status = rows[f].status \/ RowAfter(p, f).status = "expired"
         /\ (Writes(p) /\ f = PrintOf[p]) =>
              Backs({p}, RowAfter(p, f).status) /\ RowAfter(p, f).status # "none"
         /\ (Stored(f) \/ (Writes(p) /\ f = PrintOf[p])) => RowAfter(p, f).ev.source \in Pages
         /\ (Writes(p) /\ f = PrintOf[p] /\ ~Supersedes(p, f)) => ~RowAfter(p, f).gone
         /\ (~Supersedes(p, f) /\ ~(Writes(p) /\ f = PrintOf[p])) =>
              RowAfter(p, f).gone = rows[f].gone /\ RowAfter(p, f).status = rows[f].status
         /\ Supersedes(p, f) => Stored(f) /\ RowAfter(p, f).status = "expired"
<1> USE IngestAssumption
<1> DEFINE here == IF Writes(p) /\ f = PrintOf[p] THEN Graded(p, Conflicts(p))
                   ELSE IF Matched(p) /\ f = dup[p].print THEN [rows[f] EXCEPT !.ev = Noted(p)]
                   ELSE rows[f]
<1>1. Conflicts(p) \in BOOLEAN
  BY DEF Conflicts
<1>2. rows[f] \in Row /\ (Stored(f) => rows[f].ev.source \in Pages)
  BY DEF IngestInv, IngestShape, WordsAreKept
<1>3. /\ here \in Row
      /\ (Stored(f) \/ (Writes(p) /\ f = PrintOf[p])) => here.ev.source \in Pages
      /\ (Writes(p) /\ f = PrintOf[p]) =>
           Backs({p}, here.status) /\ here.status # "none" /\ ~here.gone
      /\ ~(Writes(p) /\ f = PrintOf[p]) => here.status = rows[f].status /\ here.gone = rows[f].gone
  <2>1. CASE Writes(p) /\ f = PrintOf[p]
    BY <1>1, <2>1, GradedRows
  <2>2. CASE ~(Writes(p) /\ f = PrintOf[p]) /\ Matched(p) /\ f = dup[p].print
    <3>1. here = [rows[f] EXCEPT !.ev = Noted(p)]
      BY <2>2
    <3>2. Noted(p) \in Evidence /\ Noted(p).source \in Pages
      BY <2>2, NotesFit
    <3>3. /\ here \in Row /\ here.status = rows[f].status /\ here.gone = rows[f].gone
          /\ here.ev = Noted(p)
      BY <1>2, <3>1, <3>2 DEF Row
    <3> QED BY <2>2, <3>2, <3>3
  <2>3. CASE ~(Writes(p) /\ f = PrintOf[p]) /\ ~(Matched(p) /\ f = dup[p].print)
    BY <1>2, <2>3
  <2> QED BY <2>1, <2>2, <2>3
<1>4. RowAfter(p, f) = IF Supersedes(p, f) THEN [here EXCEPT !.status = "expired", !.gone = TRUE]
                       ELSE here
  BY DEF RowAfter
<1>5. Supersedes(p, f) => Stored(f)
  BY DEF Supersedes, Matched, IngestInv, DupFits
<1> HIDE DEF here
<1>6. CASE Supersedes(p, f)
  <2>1. RowAfter(p, f) \in Row /\ RowAfter(p, f).status = "expired" /\ RowAfter(p, f).ev = here.ev
    BY <1>3, <1>4, <1>6 DEF Row
  <2>2. Backs({p}, "expired")
    BY DEF Backs
  <2> QED BY <1>3, <1>5, <1>6, <2>1, <2>2
<1>7. CASE ~Supersedes(p, f)
  BY <1>3, <1>4, <1>7
<1> QED BY <1>6, <1>7

LEMMA StoreKeeps ==
  ASSUME NEW p \in Pages, IngestInv, Stores(p)
  PROVE  IngestInv' /\ RowsStay
<1> USE IngestAssumption
<1>1. /\ reader[p] = "compared" /\ rows' = [f \in Prints |-> RowAfter(p, f)]
      /\ reader' = [reader EXCEPT ![p] = "done"] /\ UNCHANGED <<dup, check>>
      /\ word' = (IF Writes(p) THEN [word EXCEPT ![PrintOf[p]] = {p}] ELSE word)
      /\ selfExpired' = selfExpired \cup {f \in {PrintOf[p]} : Supersedes(p, f)}
  BY DEF Stores
<1>2. \A f \in Prints : rows'[f] = RowAfter(p, f)
  BY <1>1
<1>3. /\ word' \in [Prints -> SUBSET Pages]
      /\ \A f \in Prints : word'[f] = IF Writes(p) /\ f = PrintOf[p] THEN {p} ELSE word[f]
  BY <1>1 DEF IngestInv, IngestShape
<1>4. IngestShape'
  BY <1>1, <1>3, RowsAfter DEF IngestShape, IngestInv
<1>5. RowsStay
  <2> SUFFICES ASSUME NEW f \in Prints, Stored(f) PROVE Stored(f)'
    BY DEF RowsStay
  <2>1. CASE Writes(p) /\ f = PrintOf[p]
    BY <1>1, <1>2, <2>1, RowsAfter DEF Stored
  <2>2. CASE ~(Writes(p) /\ f = PrintOf[p])
    <3>1. RowAfter(p, f).status = rows[f].status \/ RowAfter(p, f).status = "expired"
      BY <1>1, <2>2, RowsAfter
    <3> QED BY <1>2, <3>1 DEF Stored
  <2> QED BY <2>1, <2>2
<1>6. DupFits'
  <2> SUFFICES ASSUME NEW q \in Pages
               PROVE  /\ Matched(q) => Stored(dup[q].print)'
                      /\ reader'[q] = "compared" => reader[q] = "compared"
    BY <1>1 DEF DupFits, IngestInv, Matched
  <2> QED BY <1>1, <1>5 DEF DupFits, IngestInv, IngestShape, RowsStay
<1>7. WordsAreKept'
  <2> SUFFICES ASSUME NEW f \in Prints
               PROVE  Backs(word'[f], rows'[f].status) /\ (Stored(f)' => rows'[f].ev.source \in Pages)
    BY <1>1, <1>5 DEF WordsAreKept, IngestInv, RowsStay
  <2>1. CASE Writes(p) /\ f = PrintOf[p]
    BY <1>1, <1>2, <1>3, <2>1, RowsAfter
  <2>2. CASE ~(Writes(p) /\ f = PrintOf[p])
    <3>1. Backs(word[f], rows[f].status) /\ Backs(word[f], "expired")
      BY DEF IngestInv, WordsAreKept, Backs
    <3>2. RowAfter(p, f).status = rows[f].status \/ RowAfter(p, f).status = "expired"
      BY <1>1, <2>2, RowsAfter
    <3>3. Stored(f)' => Stored(f)
      BY <1>1, <1>2, <2>2, RowsAfter DEF Stored
    <3>4. Stored(f)' => RowAfter(p, f).ev.source \in Pages
      BY <1>1, <3>3, RowsAfter
    <3> QED BY <1>2, <1>3, <2>2, <3>1, <3>2, <3>4
  <2> QED BY <2>1, <2>2
<1>8. WrittenIsStored'
  <2> SUFFICES ASSUME NEW q \in Pages, reader'[q] = "done", Writes(q)' PROVE Stored(PrintOf[q])'
    BY DEF WrittenIsStored
  <2>1. Writes(q)
    BY <1>1 DEF Writes, Matched
  <2>2. CASE q = p
    BY <1>1, <1>2, <2>1, <2>2, RowsAfter DEF Stored
  <2>3. CASE q # p
    BY <1>1, <1>5, <2>1, <2>3 DEF IngestInv, IngestShape, WrittenIsStored, RowsStay
  <2> QED BY <2>2, <2>3
<1>9. EventStaysVisible'
  <2> SUFFICES ASSUME NEW S \in SUBSET Prints, IsEvent(S), S \cap selfExpired' = {},
                      NEW f \in S, Stored(f)'
               PROVE  \E g \in S : Live(g)'
    BY DEF EventStaysVisible, IsEvent
  <2>1. CASE Writes(p) /\ PrintOf[p] \in S
    <3>1. ~Supersedes(p, PrintOf[p])
      BY <1>1, <2>1
    <3>2. Live(PrintOf[p])'
      BY <1>1, <1>2, <2>1, <3>1, RowsAfter DEF Live, Stored
    <3> QED BY <2>1, <3>2
  <2>2. CASE ~(Writes(p) /\ PrintOf[p] \in S)
    <3>1. \A g \in S : ~(Writes(p) /\ g = PrintOf[p])
      BY <2>2
    <3>2. \A g \in S : ~Supersedes(p, g)
      BY <2>2 DEF Supersedes, IngestInv, DupFits, IsEvent
    <3>3. \A g \in S : rows'[g].gone = rows[g].gone /\ rows'[g].status = rows[g].status
      BY <1>1, <1>2, <3>1, <3>2, RowsAfter
    <3>4. S \cap selfExpired = {} /\ Stored(f)
      BY <1>1, <3>3 DEF Stored
    <3>5. PICK g \in S : Live(g)
      BY <3>4 DEF IngestInv, EventStaysVisible
    <3> QED BY <3>3, <3>5 DEF Live, Stored
  <2> QED BY <2>1, <2>2
<1> QED BY <1>4, <1>5, <1>6, <1>7, <1>8, <1>9 DEF IngestInv

LEMMA FailureKeeps ==
  ASSUME NEW p \in Pages, IngestInv, IngestRaises(p)
  PROVE  IngestInv' /\ RowsStay
<1>1. reader' = [reader EXCEPT ![p] = "failed"] /\ UNCHANGED <<rows, dup, check, word, selfExpired>>
  BY DEF IngestRaises
<1>2. DupFits'
  BY <1>1 DEF IngestInv, IngestShape, DupFits, Matched, Stored
<1> QED BY <1>1, <1>2, LooksKeep DEF IngestInv, IngestShape

-----------------------------------------------------------------------------
(* The steps of a verification, and the starts of both kinds of thread.     *)

\* Pages may be started and checks go on, as long as no row is touched.
LEMMA StartsKeep ==
  ASSUME IngestInv, UNCHANGED <<rows, dup, word, selfExpired>>,
         DOMAIN reader' = Pages,
         \A p \in Pages : reader'[p] = "started" \/ reader'[p] = reader[p],
         IngestShape', WordsAreKept'
  PROVE  IngestInv' /\ RowsStay
<1>1. DupFits'
  BY DEF IngestInv, DupFits, Matched, Stored
<1>2. WrittenIsStored'
  BY DEF IngestInv, WrittenIsStored, Writes, Matched, Stored
<1> QED BY <1>1, <1>2 DEF IngestInv, EventStaysVisible, Stored, Live, RowsStay

\* What a check may become without a row being written.
CheckFits(f, c) ==
  /\ c \in CheckShape
  /\ c.at # "idle" => Stored(f)
  /\ c.at \in {"read", "confirming"} => c.ev.source \in Pages
  /\ c.at = "confirming" => c.page \in Pages /\ c.page # c.ev.source
  /\ c.holds => c.at \in {"read", "confirming"}
  /\ c.wrote => /\ c.holds /\ c.status \in {"public", "official"} /\ Backs(c.word, c.status)

LEMMA ChecksFit ==
  ASSUME IngestInv, NEW f \in Prints
  PROVE  CheckFits(f, check[f]) /\ CheckFits(f, NoCheck)
<1>1. CheckFits(f, check[f])
  BY DEF IngestInv, IngestShape, WordsAreKept, CheckFits
<1>2. CheckFits(f, NoCheck)
  BY EmptyFits DEF CheckFits, NoCheck
<1> QED BY <1>1, <1>2

LEMMA ChecksKeep ==
  ASSUME IngestInv, UNCHANGED <<rows, dup, word, selfExpired>>,
         DOMAIN reader' = Pages,
         \A p \in Pages : reader'[p] = "started" \/ reader'[p] = reader[p],
         check' = [f \in Prints |-> check'[f]],
         \A f \in Prints : CheckFits(f, check'[f])
  PROVE  IngestInv' /\ RowsStay
<1>1. check' \in [Prints -> CheckShape]
  BY DEF CheckFits
<1>2. IngestShape'
  BY <1>1 DEF IngestInv, IngestShape
<1>3. WordsAreKept'
  BY DEF IngestInv, WordsAreKept, CheckFits, Stored
<1> QED BY <1>2, <1>3, StartsKeep

\* A step of one check that leaves the rows alone.
LEMMA OneCheckKeeps ==
  ASSUME IngestInv, UNCHANGED <<rows, dup, word, selfExpired>>,
         DOMAIN reader' = Pages,
         \A p \in Pages : reader'[p] = "started" \/ reader'[p] = reader[p],
         NEW f \in Prints, NEW c, CheckFits(f, c), check' = [check EXCEPT ![f] = c]
  PROVE  IngestInv' /\ RowsStay
<1>1. check' = [g \in Prints |-> check'[g]] /\ check'[f] = c
      /\ \A g \in Prints : g # f => check'[g] = check[g]
  BY DEF IngestInv, IngestShape
<1>2. \A g \in Prints : CheckFits(g, check'[g])
  BY <1>1, ChecksFit
<1> QED BY <1>1, <1>2, ChecksKeep

\* What is raised rests on two pages, or on an official one.
LEMMA RaisedFits ==
  ASSUME NEW f \in Prints, NEW c, CheckFits(f, c), c.at = "confirming"
  PROVE  CheckFits(f, Raised(c, c.page))
<1> DEFINE p == c.page
           t == Target(p)
<1>1. /\ c \in CheckShape /\ c.ev \in Evidence /\ c.ev.source \in Pages /\ p \in Pages
      /\ p # c.ev.source /\ Stored(f)
      /\ c.wrote => /\ c.holds /\ c.status \in {"public", "official"} /\ Backs(c.word, c.status)
  BY DEF CheckFits, CheckShape
<1>2. CASE Rank[c.ev.level] >= Rank[t]
  <2>1. Raised(c, p) = [c EXCEPT !.at = "read"]
    BY <1>2 DEF Raised
  <2>2. /\ Raised(c, p) \in CheckShape /\ Raised(c, p).at = "read"
        /\ Raised(c, p).ev = c.ev /\ Raised(c, p).holds = c.holds /\ Raised(c, p).wrote = c.wrote
        /\ Raised(c, p).status = c.status /\ Raised(c, p).word = c.word
    BY <1>1, <2>1 DEF CheckShape, CheckStates
  <2> QED BY <1>1, <2>2 DEF CheckFits
<1>3. CASE ~(Rank[c.ev.level] >= Rank[t])
  <2> DEFINE ev == Confirmed(c.ev, p)
             wrote == c.wrote \/ c.status # t
             pages == IF c.status # t THEN {c.ev.source, p} ELSE c.word
  <2>1. Raised(c, p) = [c EXCEPT !.at = "read", !.holds = TRUE, !.status = t, !.ev = ev,
                                 !.wrote = wrote, !.word = pages]
    BY <1>3 DEF Raised
  <2>2. t \in {"public", "official"} /\ t \in Levels /\ (t = "official" => Official(p))
    BY DEF Target, Levels
  <2>3. ev \in Evidence /\ ev.source \in Pages
    BY <1>1, <2>2 DEF Evidence, Confirmed
  <2>4. wrote \in BOOLEAN /\ pages \in SUBSET Pages
    BY <1>1 DEF CheckShape
  <2>5. wrote => Backs(pages, t)
    <3>1. CASE c.status # t
      BY <1>1, <2>2, <3>1, IngestAssumption DEF Backs, NoPage
    <3>2. CASE c.status = t
      BY <1>1, <3>2
    <3> QED BY <3>1, <3>2
  <2> HIDE DEF p, t, ev, wrote, pages
  <2>6. /\ Raised(c, p) \in CheckShape /\ Raised(c, p).at = "read"
        /\ Raised(c, p).holds = TRUE /\ Raised(c, p).status = t /\ Raised(c, p).ev = ev
        /\ Raised(c, p).wrote = wrote /\ Raised(c, p).word = pages
    BY <1>1, <2>1, <2>2, <2>3, <2>4 DEF CheckShape, CheckStates
  <2>7. CheckFits(f, Raised(c, p))
    BY <1>1, <2>2, <2>3, <2>5, <2>6 DEF CheckFits
  <2> QED BY <2>7 DEF p
<1> QED BY <1>2, <1>3

LEMMA CheckKeeps ==
  ASSUME NEW f \in Prints, IngestInv,
         CheckReads(f) \/ CheckFinds(f) \/ CheckUpgrades(f) \/ CheckRaises(f)
  PROVE  IngestInv' /\ RowsStay
<1>1. UNCHANGED <<rows, dup, word, selfExpired>> /\ DOMAIN reader = Pages
      /\ DOMAIN check = Prints
  BY DEF CheckReads, CheckFinds, CheckUpgrades, CheckRaises, IngestInv, IngestShape
<1>2. CheckFits(f, check[f]) /\ CheckFits(f, NoCheck)
  BY ChecksFit
<1>3. CASE CheckReads(f)
  <2> DEFINE c == [NoCheck EXCEPT !.at = "read", !.left = 2,
                                  !.ev = rows[f].ev, !.status = rows[f].status]
  <2>1. check' = [check EXCEPT ![f] = c] /\ UNCHANGED reader /\ Stored(f)
    BY <1>2, <1>3 DEF CheckReads, CheckFits
  <2>2. rows[f] \in Row /\ rows[f].ev.source \in Pages
    BY <2>1 DEF IngestInv, IngestShape, WordsAreKept
  <2>3. /\ c.at = "read" /\ c.ev = rows[f].ev /\ c.holds = FALSE /\ c.wrote = FALSE
        /\ c \in CheckShape
    <3>1. rows[f].ev \in Evidence /\ rows[f].status \in Levels \cup {"expired"}
      BY <2>2 DEF Row
    <3>2. c \in CheckShape
      <4>1. NoCheck \in CheckShape /\ 2 \in 0 .. 2
        BY EmptyFits
      <4> QED BY <3>1, <4>1, ZenonT(60) DEF CheckShape, CheckStates
    <3>3. DOMAIN NoCheck = {"at", "page", "left", "ev", "status", "word", "holds", "wrote"}
      BY DEF NoCheck
    <3>4. c.at = "read" /\ c.ev = rows[f].ev
      BY <3>3
    <3>5. c.holds = NoCheck.holds /\ c.wrote = NoCheck.wrote
      BY <3>3, Zenon
    <3>6. NoCheck.holds = FALSE /\ NoCheck.wrote = FALSE
      BY Zenon DEF NoCheck
    <3> QED BY <3>2, <3>4, <3>5, <3>6
  <2>4. CheckFits(f, c)
    BY <2>1, <2>2, <2>3 DEF CheckFits
  <2> QED BY <1>1, <2>1, <2>4, OneCheckKeeps
<1>4. CASE CheckFinds(f)
  <2>1. PICK p \in SecondPages(f) :
          /\ check' = [check EXCEPT ![f].at = "confirming", ![f].page = p, ![f].left = @ - 1]
          /\ reader' = [reader EXCEPT ![p] = "started"]
    BY <1>4 DEF CheckFinds
  <2> DEFINE c == [check[f] EXCEPT !.at = "confirming", !.page = p, !.left = check[f].left - 1]
  <2>2. p \in Pages /\ p # check[f].ev.source /\ check[f].at = "read" /\ check[f].left > 0
    BY <1>4 DEF SecondPages, CheckFinds
  <2>3. check' = [check EXCEPT ![f] = c]
    BY <1>1, <2>1
  <2>4. /\ c.at = "confirming" /\ c.page = p /\ c.ev = check[f].ev /\ c.holds = check[f].holds
        /\ c.wrote = check[f].wrote /\ c.status = check[f].status /\ c.word = check[f].word
        /\ c \in CheckShape
    <3> DEFINE n == check[f].left - 1
    <3>1. check[f] \in CheckShape
      BY <1>2 DEF CheckFits
    <3>2. n \in 0 .. 2
      <4>1. check[f].left \in 0 .. 2
        BY <3>1 DEF CheckShape
      <4> QED BY <2>2, <4>1
    <3>3. c = [check[f] EXCEPT !.at = "confirming", !.page = p, !.left = n]
      OBVIOUS
    <3> HIDE DEF c, n
    <3>4. DOMAIN check[f] = {"at", "page", "left", "ev", "status", "word", "holds", "wrote"}
      BY <3>1 DEF CheckShape
    <3>5. /\ c.at = "confirming" /\ c.page = p /\ c.ev = check[f].ev
          /\ c.status = check[f].status /\ c.word = check[f].word
      BY <3>3, <3>4
    <3>6. c.holds = check[f].holds /\ c.wrote = check[f].wrote
      BY <3>3, <3>4, Zenon
    <3>7. c \in CheckShape
      BY <2>2, <3>1, <3>2, <3>3, ZenonT(60) DEF CheckShape, CheckStates
    <3> QED BY <3>5, <3>6, <3>7
  <2>5. CheckFits(f, c)
    BY <1>2, <2>2, <2>4 DEF CheckFits
  <2> HIDE DEF c
  <2> QED BY <1>1, <2>1, <2>3, <2>5, OneCheckKeeps
<1>5. CASE CheckUpgrades(f)
  <2>1. /\ check' = [check EXCEPT ![f] = Raised(check[f], check[f].page)] /\ UNCHANGED reader
        /\ check[f].at = "confirming"
    BY <1>1, <1>5 DEF CheckUpgrades
  <2>2. CheckFits(f, Raised(check[f], check[f].page))
    BY <1>2, <2>1, RaisedFits
  <2> QED BY <1>1, <2>1, <2>2, OneCheckKeeps
<1>6. CASE CheckRaises(f)
  BY <1>1, <1>2, <1>6, OneCheckKeeps DEF CheckRaises
<1> QED BY <1>3, <1>4, <1>5, <1>6

LEMMA CommitKeeps ==
  ASSUME NEW f \in Prints, IngestInv, CheckCommits(f)
  PROVE  IngestInv' /\ RowsStay
<1> DEFINE c == check[f]
<1>1. /\ c.at = "read" /\ UNCHANGED <<reader, dup, selfExpired>>
      /\ rows' = IF c.holds THEN [rows EXCEPT ![f].ev = c.ev,
                                              ![f].status = IF c.wrote THEN c.status ELSE @]
                 ELSE rows
      /\ word' = IF c.wrote THEN [word EXCEPT ![f] = c.word] ELSE word
      /\ check' = [check EXCEPT ![f] = NoCheck]
  BY DEF CheckCommits
<1>2. CheckFits(f, c) /\ CheckFits(f, NoCheck)
  BY ChecksFit
<1>3. /\ c \in CheckShape /\ c.ev \in Evidence /\ c.ev.source \in Pages /\ Stored(f)
      /\ c.status \in Levels \cup {"expired"} /\ c.word \in SUBSET Pages
      /\ c.wrote => c.holds /\ c.status # "none" /\ Backs(c.word, c.status)
  BY <1>1, <1>2 DEF CheckFits, CheckShape
<1>4. rows[f] \in Row /\ DOMAIN rows = Prints /\ DOMAIN check = Prints /\ DOMAIN word = Prints
      /\ rows[f].ev.source \in Pages /\ rows[f].status # "none" /\ Backs(word[f], rows[f].status)
  BY <1>3 DEF IngestInv, IngestShape, WordsAreKept, Stored
<1> HIDE DEF c
<1>5. /\ rows'[f] \in Row /\ rows'[f].gone = rows[f].gone /\ rows'[f].ev.source \in Pages
      /\ rows'[f].status = IF c.wrote THEN c.status ELSE rows[f].status
  <2>1. CASE c.holds
    <3>1. rows'[f] = [rows[f] EXCEPT !.ev = c.ev,
                                     !.status = IF c.wrote THEN c.status ELSE rows[f].status]
      BY <1>1, <1>4, <2>1
    <3> QED BY <1>3, <1>4, <3>1 DEF Row
  <2>2. CASE ~c.holds
    BY <1>1, <1>3, <1>4, <2>2
  <2> QED BY <2>1, <2>2
<1>6. word'[f] = (IF c.wrote THEN c.word ELSE word[f]) /\ word' \in [Prints -> SUBSET Pages]
  BY <1>1, <1>3, <1>4 DEF IngestInv, IngestShape
<1>7. \A g \in Prints : g # f => rows'[g] = rows[g] /\ check'[g] = check[g] /\ word'[g] = word[g]
  BY <1>1, <1>4
<1>8. check'[f] = NoCheck
  BY <1>1, <1>4
<1>9. IngestShape'
  BY <1>1, <1>5, <1>6, <1>7, <1>8, EmptyFits DEF IngestInv, IngestShape
<1>10. \A g \in Prints : Stored(g)' <=> Stored(g)
  BY <1>3, <1>4, <1>5, <1>7 DEF Stored
<1>11. RowsStay
  BY <1>10 DEF RowsStay
<1>12. DupFits'
  BY <1>1, <1>10 DEF IngestInv, DupFits, Matched
<1>13. WordsAreKept'
  <2> SUFFICES ASSUME NEW g \in Prints
               PROVE  /\ Backs(word'[g], rows'[g].status)
                      /\ Stored(g)' => rows'[g].ev.source \in Pages
                      /\ CheckFits(g, check'[g])
    BY <1>10 DEF WordsAreKept, CheckFits
  <2>1. CASE g = f
    BY <1>2, <1>3, <1>4, <1>5, <1>6, <1>8, <2>1
  <2>2. CASE g # f
    BY <1>7, <1>10, <2>2, ChecksFit DEF IngestInv, WordsAreKept
  <2> QED BY <2>1, <2>2
<1>14. WrittenIsStored'
  BY <1>1, <1>10, IngestAssumption DEF IngestInv, WrittenIsStored, Writes, Matched
<1>15. EventStaysVisible'
  <2>1. \A g \in Prints : Live(g) <=> Live(g)'
    BY <1>5, <1>7, <1>10 DEF Live
  <2> QED BY <1>1, <1>10, <2>1 DEF IngestInv, EventStaysVisible, IsEvent
<1> QED BY <1>9, <1>11, <1>12, <1>13, <1>14, <1>15 DEF IngestInv

-----------------------------------------------------------------------------
(* The loop and what it reports.                                            *)

LoopShape ==
  /\ DOMAIN loop = DOMAIN NoLoop /\ loop.phase \in Phases
  /\ loop.heard \in BOOLEAN /\ loop.timedOut \in BOOLEAN
  /\ loop.found \subseteq Pages /\ loop.asked \subseteq Pages
  /\ DOMAIN result = DOMAIN NoResult /\ DOMAIN cache = DOMAIN NoCache

\* Whatever is collected, reported or cached is stored.
IdsAreStored ==
  loop.ids \cup result.ids \cup cache.ids \subseteq {f \in Prints : Stored(f)}

\* A web query was answered, if there was one.
Heard == loop.heard \/ Web = {}

\* Past a search the web was heard, unless the research ends in an outage or a
\* timeout; and a running research has reported nothing.
HeardBefore ==
  /\ loop.phase \in {"extract", "ingest", "verify"} => Heard
  /\ loop.phase = "closing" =>
       Heard \/ loop.timedOut \/ loop.termination = "provider_unavailable"
  /\ Running => result.status # "no_results"

ResearchInv ==
  IngestInv /\ LoopShape /\ IdsAreStored /\ HeardBefore /\ NoResultsIsHonest

reportVars == <<loop, result, cache, calls>>

LEMMA InitResearches == Init => ResearchInv
<1> SUFFICES ASSUME Init PROVE ResearchInv
  OBVIOUS
<1>1. IngestInv
  BY InitIngests DEF Init
<1>2. LoopShape /\ IdsAreStored /\ HeardBefore /\ NoResultsIsHonest
  BY DEF Init, LoopShape, Phases, NoLoop, NoResult, NoCache, IdsAreStored, HeardBefore,
         Running, NoResultsIsHonest
<1> QED BY <1>1, <1>2 DEF ResearchInv

\* What the loop has to show of a step that leaves the threads alone.
LEMMA ThreadsStay ==
  ASSUME ResearchInv, UNCHANGED ingestVars
  PROVE  IngestInv' /\ \A f \in Prints : Stored(f)' <=> Stored(f)
BY DEF ResearchInv, ingestVars, IngestInv, IngestShape, DupFits, WordsAreKept,
       WrittenIsStored, Writes, Matched, EventStaysVisible, Live, Stored

\* The threads' own steps: what was stored stays so.
LEMMA ThreadsRun ==
  ASSUME ResearchInv, IngestInv', RowsStay, UNCHANGED reportVars
  PROVE  ResearchInv'
<1>1. LoopShape'
  BY DEF ResearchInv, LoopShape, reportVars
<1>2. IdsAreStored'
  BY DEF ResearchInv, IdsAreStored, reportVars, RowsStay, Stored
<1>3. HeardBefore' /\ NoResultsIsHonest'
  BY DEF ResearchInv, HeardBefore, Heard, Web, Running, NoResultsIsHonest, reportVars
<1> QED BY <1>1, <1>2, <1>3 DEF ResearchInv

LEMMA CallsKeep ==
  ASSUME ResearchInv, CallHits \/ CallRuns
  PROVE  ResearchInv'
<1>1. UNCHANGED ingestVars /\ UNCHANGED cache /\ ~Running
  BY DEF CallHits, CallRuns
<1>2. IngestInv' /\ \A f \in Prints : Stored(f)' <=> Stored(f)
  BY <1>1, ThreadsStay
<1>3. CASE CallHits
  <2>1. /\ loop' = loop /\ cache' = cache
        /\ result' = [status |-> "succeeded", ids |-> cache.ids, cands |-> cache.cands,
                      provider |-> "ok"]
    BY <1>3 DEF CallHits
  <2>2. LoopShape' /\ IdsAreStored'
    BY <1>2, <2>1 DEF ResearchInv, LoopShape, IdsAreStored, NoResult
  <2>3. HeardBefore' /\ NoResultsIsHonest'
    BY <2>1 DEF ResearchInv, HeardBefore, Heard, Web, Running, NoResultsIsHonest
  <2> QED BY <1>2, <2>2, <2>3 DEF ResearchInv
<1>4. CASE CallRuns
  <2>1. /\ cache' = cache /\ result' = NoResult
        /\ \E explicit \in BOOLEAN : loop' = [NoLoop EXCEPT !.phase = "plan", !.explicit = explicit]
    BY <1>4 DEF CallRuns
  <2>2. /\ DOMAIN loop' = DOMAIN NoLoop /\ loop'.phase = "plan" /\ loop'.ids = {}
        /\ loop'.found = {} /\ loop'.asked = {}
        /\ loop'.heard = FALSE /\ loop'.timedOut = FALSE
    BY <2>1 DEF NoLoop
  <2>3. LoopShape' /\ IdsAreStored'
    BY <1>2, <2>1, <2>2 DEF ResearchInv, LoopShape, IdsAreStored, NoResult, Phases
  <2>4. HeardBefore' /\ NoResultsIsHonest'
    BY <2>1, <2>2 DEF HeardBefore, NoResultsIsHonest, NoResult
  <2> QED BY <1>2, <2>3, <2>4 DEF ResearchInv
<1> QED BY <1>3, <1>4

\* A step of the running loop changes neither the report nor the cache, and
\* forgets neither a timeout nor what it heard.
LoopRuns ==
  /\ UNCHANGED <<result, cache>> /\ Running
  /\ DOMAIN loop' = DOMAIN NoLoop /\ loop'.phase \in Phases \ {"idle", "done"}
  /\ loop'.heard \in BOOLEAN /\ loop'.timedOut \in BOOLEAN
  /\ loop'.found \subseteq Pages /\ loop'.asked \subseteq Pages

LEMMA RunsKeep ==
  ASSUME ResearchInv, LoopRuns, IngestInv', RowsStay,
         loop'.ids \subseteq {f \in Prints : Stored(f)'},
         (loop'.phase \in {"extract", "ingest", "verify"}) => Heard',
         (loop'.phase = "closing") =>
           Heard' \/ loop'.timedOut \/ loop'.termination = "provider_unavailable"
  PROVE  ResearchInv'
<1>1. LoopShape'
  BY DEF ResearchInv, LoopShape, LoopRuns
<1>2. IdsAreStored'
  BY DEF ResearchInv, IdsAreStored, LoopRuns, RowsStay, Stored
<1>3. HeardBefore' /\ NoResultsIsHonest'
  BY DEF ResearchInv, HeardBefore, LoopRuns, Running, NoResultsIsHonest
<1> QED BY <1>1, <1>2, <1>3 DEF ResearchInv

LEMMA PlanKeeps == ASSUME ResearchInv, Plan PROVE ResearchInv'
<1>1. /\ UNCHANGED <<result, cache>> /\ UNCHANGED ingestVars /\ loop.phase = "plan"
      /\ \E tasks : loop' = [loop EXCEPT !.tasks = tasks, !.phase = "search"]
  BY DEF Plan
<1>2. IngestInv' /\ RowsStay /\ \A f \in Prints : Stored(f)' <=> Stored(f)
  BY <1>1, ThreadsStay DEF RowsStay
<1>3. /\ DOMAIN loop' = DOMAIN NoLoop /\ loop'.phase = "search" /\ loop'.ids = loop.ids
      /\ loop'.heard = loop.heard /\ loop'.timedOut = loop.timedOut
      /\ loop'.found = loop.found /\ loop'.asked = loop.asked
  BY <1>1 DEF ResearchInv, LoopShape, NoLoop
<1>4. LoopRuns
  BY <1>1, <1>3 DEF LoopRuns, Running, Phases, ResearchInv, LoopShape
<1>5. loop'.ids \subseteq {f \in Prints : Stored(f)'}
  BY <1>2, <1>3 DEF ResearchInv, IdsAreStored
<1> QED BY <1>2, <1>3, <1>4, <1>5, RunsKeep

\* The answers of a round that is neither cut short nor an outage were heard.
LEMMA AnswersHeard ==
  ASSUME NEW late, NEW a \in Answers(late),
         ~Unavailable(a), With(a, DOMAIN a, "pending") = {}
  PROVE  Web = {} \/ \E i \in Web : a[i] \in {"found", "empty"}
<1>1. /\ DOMAIN a = DOMAIN loop.tasks
      /\ \A i \in DOMAIN loop.tasks : a[i] \in {"found", "empty", "failed", "pending"}
  BY DEF Answers
<1>2. \A i \in Web : i \in DOMAIN loop.tasks /\ a[i] # "pending"
  BY <1>1 DEF Web, With
<1>3. CASE With(a, Web, "failed") = {}
  BY <1>1, <1>2, <1>3 DEF With
<1>4. CASE \E i \in Web : a[i] \notin {"failed", "pending"}
  BY <1>1, <1>2, <1>4
<1> QED BY <1>3, <1>4 DEF Unavailable

\* What a round's answers make of the loop.
LoopFinds(late, a, P) ==
  loop' = [loop EXCEPT
    !.late = late, !.timedOut = @ \/ With(a, DOMAIN a, "pending") # {},
    !.found = P, !.hits = Cardinality(With(a, Web, "found")), !.seen = @ \cup P,
    !.cands = @ \/ With(a, Map, "found") # {}, !.grew = With(a, Map, "found") # {},
    !.sources = @ \/ P # {} \/ With(a, Map, "found") # {},
    !.heard = @ \/ \E i \in Web : a[i] \in {"found", "empty"},
    !.phase = IF Unavailable(a) \/ With(a, DOMAIN a, "pending") # {} THEN "closing"
              ELSE "extract",
    !.termination = IF Unavailable(a) THEN "provider_unavailable" ELSE @]

LEMMA SearchKeeps == ASSUME ResearchInv, Search \/ RoundTooLate PROVE ResearchInv'
<1>1. UNCHANGED <<result, cache>> /\ UNCHANGED ingestVars /\ loop.phase = "search"
  BY DEF Search, RoundTooLate
<1>2. IngestInv' /\ RowsStay /\ \A f \in Prints : Stored(f)' <=> Stored(f)
  BY <1>1, ThreadsStay DEF RowsStay
<1>3. CASE Search
  <2>1. PICK late \in Clock : \E a \in Answers(late) : \E P \in PagesFor(With(a, Web, "found")) :
          LoopFinds(late, a, P)
    BY <1>3 DEF Search, LoopFinds
  <2>9. PICK a \in Answers(late) : \E P \in PagesFor(With(a, Web, "found")) : LoopFinds(late, a, P)
    BY <2>1
  <2>2. PICK P \in PagesFor(With(a, Web, "found")) : LoopFinds(late, a, P)
    BY <2>9
  <2>3. /\ DOMAIN loop' = DOMAIN NoLoop /\ loop'.ids = loop.ids /\ loop'.tasks = loop.tasks
        /\ loop'.found = P /\ loop'.asked = loop.asked
        /\ loop'.timedOut = (loop.timedOut \/ With(a, DOMAIN a, "pending") # {})
        /\ loop'.heard = (loop.heard \/ \E i \in Web : a[i] \in {"found", "empty"})
        /\ loop'.phase = (IF Unavailable(a) \/ With(a, DOMAIN a, "pending") # {} THEN "closing"
                          ELSE "extract")
        /\ loop'.termination = (IF Unavailable(a) THEN "provider_unavailable" ELSE loop.termination)
    BY <2>2 DEF ResearchInv, LoopShape, NoLoop, LoopFinds
  <2>4. LoopRuns
    BY <1>1, <2>3 DEF LoopRuns, Running, Phases, ResearchInv, LoopShape, PagesFor
  <2>5. loop'.ids \subseteq {f \in Prints : Stored(f)'}
    BY <1>2, <2>3 DEF ResearchInv, IdsAreStored
  <2>6. Web' = Web
    BY <2>3 DEF Web
  <2>7. CASE ~Unavailable(a) /\ With(a, DOMAIN a, "pending") = {}
    <3>1. Web = {} \/ \E i \in Web : a[i] \in {"found", "empty"}
      BY <2>7, AnswersHeard
    <3>2. Heard'
      BY <2>3, <2>6, <3>1 DEF Heard
    <3> QED BY <1>2, <2>4, <2>5, <3>2, RunsKeep
  <2>8. CASE Unavailable(a) \/ With(a, DOMAIN a, "pending") # {}
    <3>1. loop'.phase = "closing"
      BY <2>3, <2>8
    <3>2. loop'.timedOut \/ loop'.termination = "provider_unavailable"
      BY <2>3, <2>8
    <3> QED BY <1>2, <2>4, <2>5, <3>1, <3>2, RunsKeep
  <2> QED BY <2>7, <2>8
<1>4. CASE RoundTooLate
  <2>1. loop' = [loop EXCEPT !.timedOut = TRUE, !.phase = "closing"]
    BY <1>4 DEF RoundTooLate
  <2>2. /\ DOMAIN loop' = DOMAIN NoLoop /\ loop'.ids = loop.ids /\ loop'.phase = "closing"
        /\ loop'.timedOut = TRUE /\ loop'.heard = loop.heard
        /\ loop'.found = loop.found /\ loop'.asked = loop.asked
    BY <2>1 DEF ResearchInv, LoopShape, NoLoop
  <2>3. LoopRuns
    BY <1>1, <2>2 DEF LoopRuns, Running, Phases, ResearchInv, LoopShape
  <2>4. loop'.ids \subseteq {f \in Prints : Stored(f)'}
    BY <1>2, <2>2 DEF ResearchInv, IdsAreStored
  <2> QED BY <1>2, <2>2, <2>3, <2>4, RunsKeep
<1> QED BY <1>3, <1>4

\* What an extraction makes of the loop and of the pages it hands over.
LoopExtracts(late, extracted, cut, asked) ==
  /\ cut => late
  /\ asked # ToIngest(extracted) => late
  /\ loop' = [loop EXCEPT !.late = late, !.timedOut = @ \/ cut, !.asked = asked,
                          !.cands = @ \/ extracted # {}, !.grew = @ \/ extracted # {},
                          !.phase = "ingest"]
  /\ reader' = [p \in Pages |-> IF p \in asked THEN "started" ELSE reader[p]]

LEMMA ExtractionKeeps == ASSUME ResearchInv, Extract PROVE ResearchInv'
<1>1. \E late \in Clock : \E extracted \in SUBSET loop.found, cut \in BOOLEAN :
        \E asked \in SUBSET ToIngest(extracted) : LoopExtracts(late, extracted, cut, asked)
  BY DEF Extract, LoopExtracts
<1>10. PICK late \in Clock, extracted \in SUBSET loop.found, cut \in BOOLEAN :
         \E asked \in SUBSET ToIngest(extracted) : LoopExtracts(late, extracted, cut, asked)
  BY <1>1
<1>11. PICK asked \in SUBSET ToIngest(extracted) : LoopExtracts(late, extracted, cut, asked)
  BY <1>10
<1>2. loop.phase = "extract" /\ UNCHANGED <<rows, dup, check, word, selfExpired, result, cache, calls>>
  BY DEF Extract
<1>3. IngestShape' /\ WordsAreKept'
  BY <1>11, <1>2 DEF ResearchInv, IngestInv, IngestShape, WordsAreKept, Stored, LoopExtracts
<1>4. IngestInv' /\ RowsStay
  BY <1>11, <1>2, <1>3, StartsKeep DEF ResearchInv, LoopExtracts
<1>5. /\ DOMAIN loop' = DOMAIN NoLoop /\ loop'.ids = loop.ids /\ loop'.phase = "ingest"
      /\ loop'.tasks = loop.tasks /\ loop'.heard = loop.heard
      /\ loop'.found = loop.found /\ loop'.asked = asked
      /\ loop'.timedOut = (loop.timedOut \/ cut)
  BY <1>11 DEF ResearchInv, LoopShape, NoLoop, LoopExtracts
<1>9. asked \subseteq Pages
  BY <1>11 DEF ToIngest, ResearchInv, LoopShape
<1>6. LoopRuns
  BY <1>2, <1>5, <1>9 DEF LoopRuns, Running, Phases, ResearchInv, LoopShape
<1>7. loop'.ids \subseteq {f \in Prints : Stored(f)'}
  BY <1>2, <1>5 DEF ResearchInv, IdsAreStored, Stored
<1>8. Heard'
  BY <1>2, <1>5 DEF ResearchInv, HeardBefore, Heard, Web
<1> QED BY <1>4, <1>5, <1>6, <1>7, <1>8, RunsKeep

\* An id is returned only by a page whose commit is over.
LEMMA ReturnedAreStored ==
  ASSUME ResearchInv, NEW f \in ReturnedIds
  PROVE  f \in Prints /\ Stored(f)
<1>1. PICK p \in loop.asked : f \in Returned(p)
  BY DEF ReturnedIds
<1>2. f = PrintOf[p] /\ reader[p] = "done" /\ Writes(p) /\ p \in Pages
  BY <1>1 DEF Returned, ResearchInv, LoopShape
<1> QED BY <1>2, IngestAssumption DEF ResearchInv, IngestInv, WrittenIsStored

LEMMA CollectKeeps == ASSUME ResearchInv, Collect PROVE ResearchInv'
<1> DEFINE new == ReturnedIds \ loop.ids
           converged == new = {} /\ ~loop.grew /\ loop.round > 1
<1>1. /\ loop' = [loop EXCEPT !.timedOut = @ \/ Waiting, !.ids = @ \cup new, !.fresh = new,
                              !.phase = IF converged THEN "closing" ELSE "verify",
                              !.termination = IF converged THEN "converged" ELSE @]
      /\ \E S \in IF converged \/ loop.late THEN {{}} ELSE Verified(new) :
           check' = [f \in Prints |-> IF f \in S /\ check[f].at = "idle"
                                      THEN [check[f] EXCEPT !.at = "asked"] ELSE check[f]]
      /\ UNCHANGED <<rows, reader, dup, word, selfExpired, result, cache, calls>>
      /\ loop.phase = "ingest"
  BY DEF Collect, Collected
<1>2. \A f \in new : f \in Prints /\ Stored(f)
  BY ReturnedAreStored
<1>3. PICK S \in SUBSET new :
        check' = [f \in Prints |-> IF f \in S /\ check[f].at = "idle"
                                   THEN [check[f] EXCEPT !.at = "asked"] ELSE check[f]]
  BY <1>1 DEF Verified
<1> HIDE DEF new, converged
<1>4. IngestInv
  BY DEF ResearchInv
<1>6. \A f \in Prints : CheckFits(f, check'[f])
  <2> SUFFICES ASSUME NEW f \in Prints PROVE CheckFits(f, check'[f])
    OBVIOUS
  <2>1. CheckFits(f, check[f])
    BY <1>4, ChecksFit
  <2>2. CASE f \in S /\ check[f].at = "idle"
    <3>1. check'[f] = [check[f] EXCEPT !.at = "asked"] /\ Stored(f)
      BY <1>2, <1>3, <2>2
    <3>2. /\ check'[f] \in CheckShape /\ check'[f].at = "asked"
          /\ check'[f].holds = check[f].holds /\ check'[f].wrote = check[f].wrote
      BY <2>1, <3>1 DEF CheckFits, CheckShape, CheckStates
    <3> QED BY <2>1, <2>2, <3>1, <3>2 DEF CheckFits
  <2>3. CASE ~(f \in S /\ check[f].at = "idle")
    BY <1>3, <2>1, <2>3
  <2> QED BY <2>2, <2>3
<1>7. check' = [f \in Prints |-> check'[f]]
  BY <1>3
<1>9. IngestInv' /\ RowsStay
  BY <1>1, <1>4, <1>6, <1>7, ChecksKeep DEF IngestInv, IngestShape
<1>10. /\ DOMAIN loop' = DOMAIN NoLoop /\ loop'.ids = loop.ids \cup new
       /\ loop'.phase = (IF converged THEN "closing" ELSE "verify")
       /\ loop'.tasks = loop.tasks /\ loop'.heard = loop.heard
       /\ loop'.found = loop.found /\ loop'.asked = loop.asked
       /\ loop'.timedOut = (loop.timedOut \/ Waiting)
  BY <1>1 DEF ResearchInv, LoopShape, NoLoop
<1>11. LoopRuns
  BY <1>1, <1>10 DEF LoopRuns, Running, Phases, ResearchInv, LoopShape
<1>12. loop'.ids \subseteq {f \in Prints : Stored(f)'}
  BY <1>1, <1>2, <1>10 DEF ResearchInv, IdsAreStored, Stored
<1>13. Heard'
  BY <1>1, <1>10 DEF ResearchInv, HeardBefore, Heard, Web
<1> QED BY <1>9, <1>11, <1>12, <1>13, RunsKeep

LEMMA RoundsKeep == ASSUME ResearchInv, EndRound \/ DeadlinePasses PROVE ResearchInv'
<1>1. /\ UNCHANGED <<result, cache>> /\ UNCHANGED ingestVars
      /\ loop.phase \in {"search", "ingest", "verify"}
  BY DEF EndRound, DeadlinePasses
<1>2. IngestInv' /\ RowsStay /\ \A f \in Prints : Stored(f)' <=> Stored(f)
  BY <1>1, ThreadsStay DEF RowsStay
<1>3. /\ DOMAIN loop' = DOMAIN NoLoop /\ loop'.ids = loop.ids /\ loop'.tasks = loop.tasks
      /\ loop'.found = loop.found /\ loop'.asked = loop.asked /\ loop'.heard = loop.heard
      /\ loop'.timedOut \in BOOLEAN
      /\ \/ loop'.phase = loop.phase
         \/ loop.phase = "verify" /\ loop'.phase \in {"search", "closing"}
  <2>1. CASE DeadlinePasses
    BY <2>1 DEF DeadlinePasses, ResearchInv, LoopShape, NoLoop
  <2>2. CASE EndRound /\ (loop.late \/ Enough \/ loop.round = MaxRounds)
    <3>1. loop' = [loop EXCEPT !.timedOut = @ \/ loop.late, !.phase = "closing"]
      BY <2>2 DEF EndRound
    <3> QED BY <2>2, <3>1 DEF EndRound, ResearchInv, LoopShape, NoLoop
  <2>3. CASE EndRound /\ ~(loop.late \/ Enough \/ loop.round = MaxRounds)
    <3>1. loop' = [loop EXCEPT !.round = @ + 1, !.phase = "search"]
      BY <2>3 DEF EndRound
    <3> QED BY <2>3, <3>1 DEF EndRound, ResearchInv, LoopShape, NoLoop
  <2> QED BY <2>1, <2>2, <2>3
<1>4. LoopRuns
  BY <1>1, <1>3 DEF LoopRuns, Running, Phases, ResearchInv, LoopShape
<1>5. loop'.ids \subseteq {f \in Prints : Stored(f)'}
  BY <1>2, <1>3 DEF ResearchInv, IdsAreStored
<1>6. Web' = Web
  BY <1>3 DEF Web
<1>7. /\ (loop'.phase \in {"extract", "ingest", "verify"}) => Heard'
      /\ (loop'.phase = "closing") => Heard'
  BY <1>1, <1>3, <1>6 DEF ResearchInv, HeardBefore, Heard
<1> QED BY <1>2, <1>4, <1>5, <1>7, RunsKeep

\* A research that is over has reported stored ids, and heard of the world
\* what it says of it.
LEMMA EndsKeep == ASSUME ResearchInv, Close \/ Raises PROVE ResearchInv'
<1>1. /\ UNCHANGED ingestVars /\ loop' = Over
  BY DEF Close, Raises
<1>2. IngestInv' /\ \A f \in Prints : Stored(f)' <=> Stored(f)
  BY <1>1, ThreadsStay
<1>3. /\ DOMAIN loop' = DOMAIN NoLoop /\ loop'.phase = "done" /\ loop'.ids = {}
      /\ loop'.timedOut = FALSE /\ loop'.found = {} /\ loop'.asked = {}
      /\ loop'.heard = Heard
  BY <1>1 DEF Over, NoLoop, Heard
<1>4. Heard \in BOOLEAN
  BY DEF Heard, ResearchInv, LoopShape
<1>5. HeardBefore'
  BY <1>3 DEF HeardBefore, Running
<1>6. CASE Close
  <2>1. loop.phase = "closing"
    BY <1>6 DEF Close
  <2>2. /\ result' = [status |-> JobStatus, ids |-> loop.ids, cands |-> loop.cands,
                      provider |-> IF Termination = "provider_unavailable" THEN "unavailable"
                                   ELSE "ok"]
        /\ \/ cache' = cache
           \/ cache' = [state |-> "fresh", ids |-> loop.ids, cands |-> loop.cands]
    BY <1>6 DEF Close
  <2>3. DOMAIN result' = DOMAIN NoResult /\ result'.ids = loop.ids /\ result'.status = JobStatus
    BY <2>2 DEF NoResult
  <2>4. DOMAIN cache' = DOMAIN NoCache /\ cache'.ids \in {cache.ids, loop.ids}
    BY <2>2 DEF ResearchInv, LoopShape, NoCache
  <2>5. LoopShape'
    BY <1>3, <1>4, <2>3, <2>4 DEF LoopShape, Phases
  <2>6. IdsAreStored'
    BY <1>2, <1>3, <2>3, <2>4 DEF ResearchInv, IdsAreStored
  <2>7. JobStatus = "no_results" => Heard
    <3>1. loop.timedOut => JobStatus # "no_results"
      BY DEF JobStatus, Termination
    <3>2. ~loop.timedOut /\ loop.termination = "provider_unavailable" => JobStatus # "no_results"
      BY DEF JobStatus, Termination
    <3> QED BY <2>1, <3>1, <3>2 DEF ResearchInv, HeardBefore
  <2>8. NoResultsIsHonest'
    BY <1>3, <2>3, <2>7 DEF NoResultsIsHonest
  <2> QED BY <1>2, <1>5, <2>5, <2>6, <2>8 DEF ResearchInv
<1>7. CASE Raises
  <2>1. /\ DOMAIN result' = DOMAIN NoResult /\ result'.ids = {} /\ result'.status = "failed"
        /\ cache' = cache
    BY <1>7 DEF Raises, NoResult
  <2>2. LoopShape'
    BY <1>3, <1>4, <2>1 DEF ResearchInv, LoopShape, Phases
  <2>3. IdsAreStored' /\ NoResultsIsHonest'
    BY <1>2, <1>3, <2>1 DEF ResearchInv, IdsAreStored, NoResultsIsHonest
  <2> QED BY <1>2, <1>5, <2>2, <2>3 DEF ResearchInv
<1> QED BY <1>6, <1>7

LEMMA ExpiryKeeps == ASSUME ResearchInv, CacheExpires PROVE ResearchInv'
<1>1. UNCHANGED ingestVars /\ UNCHANGED <<loop, result>> /\ cache' = [cache EXCEPT !.state = "stale"]
  BY DEF CacheExpires
<1>2. IngestInv' /\ \A f \in Prints : Stored(f)' <=> Stored(f)
  BY <1>1, ThreadsStay
<1>3. DOMAIN cache' = DOMAIN NoCache /\ cache'.ids = cache.ids
  BY <1>1 DEF ResearchInv, LoopShape, NoCache
<1>4. LoopShape' /\ IdsAreStored'
  BY <1>1, <1>2, <1>3 DEF ResearchInv, LoopShape, IdsAreStored
<1>5. HeardBefore' /\ NoResultsIsHonest'
  BY <1>1 DEF ResearchInv, HeardBefore, Heard, Web, Running, NoResultsIsHonest
<1> QED BY <1>2, <1>4, <1>5 DEF ResearchInv

LEMMA NextKeeps == ASSUME ResearchInv, [Next]_researchVars PROVE ResearchInv'
<1>1. CASE CallHits \/ CallRuns
  BY <1>1, CallsKeep
<1>2. CASE LoopStep
  BY <1>2, PlanKeeps, SearchKeeps, ExtractionKeeps, CollectKeeps, RoundsKeep, EndsKeep DEF LoopStep
<1>3. CASE Raises \/ DeadlinePasses \/ CacheExpires
  BY <1>3, RoundsKeep, EndsKeep, ExpiryKeeps
<1>4. CASE (PageStep \/ CheckStep) /\ UNCHANGED <<loop, result, cache, calls>>
  <2>1. IngestInv' /\ RowsStay
    <3>1. CASE PageStep
      BY <3>1, ExtractKeeps, StoreKeeps, FailureKeeps DEF PageStep, ResearchInv
    <3>2. CASE CheckStep
      BY <3>2, CheckKeeps, CommitKeeps DEF CheckStep, ResearchInv
    <3> QED BY <1>4, <3>1, <3>2
  <2> QED BY <1>4, <2>1, ThreadsRun DEF reportVars
<1>5. CASE UNCHANGED researchVars
  <2>1. UNCHANGED ingestVars /\ UNCHANGED reportVars
    BY <1>5 DEF researchVars, ingestVars, reportVars
  <2> QED BY <2>1, ThreadsStay, ThreadsRun DEF RowsStay
<1> QED BY <1>1, <1>2, <1>3, <1>4, <1>5 DEF Next

LEMMA ResearchInvariant == Spec => []ResearchInv
BY InitResearches, NextKeeps, PTL DEF Spec

-----------------------------------------------------------------------------
\* Superseding never loses an event, whichever threads store, supersede and
\* verify its rows at once (upsert_activity's supersede in intel/ingest.py),
\* unless an update expired its own row, which was written between the queries
\* that looked for it.
THEOREM EventsStayVisible == Spec => []EventStaysVisible
<1>1. ResearchInv => EventStaysVisible
  BY DEF ResearchInv, IngestInv
<1> QED BY <1>1, ResearchInvariant, PTL

\* What is recallable was made so on the word of an official page or of two
\* different pages, whichever copies of its evidence were written back while
\* pages were read and after (_upgrade_verified in research/supervisor.py,
\* _ingest_drafts_from_md in intel/ingest.py).
THEOREM TrustIsBacked == Spec => []TrustedIsBacked
<1>1. ResearchInv => TrustedIsBacked
  BY DEF ResearchInv, IngestInv, WordsAreKept, TrustedIsBacked
<1> QED BY <1>1, ResearchInvariant, PTL

\* No research reports, and no cache returns, an id that is not committed:
\* none of a page whose thread was abandoned (_bounded_parallel in
\* research/supervisor.py).
THEOREM ReportsAreStored == Spec => []ReportIsStored
<1>1. ResearchInv => ReportIsStored
  BY DEF ResearchInv, IdsAreStored, ReportIsStored
<1> QED BY <1>1, ResearchInvariant, PTL

\* "No results" follows an answer of the web, never an outage of the search
\* service (provider_unavailable in research/supervisor.py).
THEOREM NoResultsAreHonest == Spec => []NoResultsIsHonest
<1>1. ResearchInv => NoResultsIsHonest
  BY DEF ResearchInv
<1> QED BY <1>1, ResearchInvariant, PTL

-----------------------------------------------------------------------------
(* The end of a research.                                                   *)

\* The steps the loop still takes at most: five in a round, one to report.
StepsLeft ==
  IF ~Running THEN 0
  ELSE IF loop.phase = "closing" THEN 1
  ELSE 5 * (MaxRounds - loop.round)
         + (CASE loop.phase = "plan" -> 6 [] loop.phase = "search" -> 5
              [] loop.phase = "extract" -> 4 [] loop.phase = "ingest" -> 3 [] OTHER -> 2)

RoundFits == loop.round \in 1 .. MaxRounds

LEMMA LoopGoesOn ==
  ASSUME ResearchInv, RoundFits, Running, [Next]_researchVars
  PROVE  /\ RoundFits' /\ StepsLeft' <= StepsLeft
         /\ LoopStep => StepsLeft' < StepsLeft
<1>1. /\ loop.round \in Nat /\ MaxRounds \in Nat /\ MaxRounds > 0
      /\ 1 <= loop.round /\ loop.round <= MaxRounds
      /\ DOMAIN loop = DOMAIN NoLoop /\ loop.phase \in Phases
  BY ResearchAssumption DEF RoundFits, ResearchInv, LoopShape
<1>2. StepsLeft \in Int /\ StepsLeft >= 1
  BY <1>1 DEF StepsLeft
<1>3. ASSUME loop' = loop PROVE RoundFits' /\ StepsLeft' = StepsLeft
  BY <1>3 DEF RoundFits, StepsLeft, Running
<1>4. CASE Plan
  <2>1. loop.phase = "plan" /\ loop'.phase = "search" /\ loop'.round = loop.round
    BY <1>1, <1>4 DEF Plan, NoLoop
  <2> QED BY <1>1, <2>1 DEF StepsLeft, Running, RoundFits
<1>5. CASE Search
  <2>1. loop.phase = "search" /\ loop'.phase \in {"closing", "extract"} /\ loop'.round = loop.round
    <3>1. \E late \in Clock : \E a \in Answers(late) : \E P \in PagesFor(With(a, Web, "found")) :
            LoopFinds(late, a, P)
      BY <1>5 DEF Search, LoopFinds
    <3>2. ASSUME NEW late, NEW a, NEW P, LoopFinds(late, a, P)
          PROVE  loop'.phase \in {"closing", "extract"} /\ loop'.round = loop.round
      BY <1>1, <3>2 DEF LoopFinds, NoLoop
    <3> QED BY <1>5, <3>1, <3>2 DEF Search
  <2> QED BY <1>1, <2>1 DEF StepsLeft, Running, RoundFits
<1>6. CASE RoundTooLate
  <2>1. loop.phase = "search" /\ loop'.phase = "closing" /\ loop'.round = loop.round
    BY <1>1, <1>6 DEF RoundTooLate, NoLoop
  <2> QED BY <1>1, <2>1 DEF StepsLeft, Running, RoundFits
<1>7. CASE Extract
  <2>1. loop.phase = "extract" /\ loop'.phase = "ingest" /\ loop'.round = loop.round
    BY <1>1, <1>7 DEF Extract, NoLoop
  <2> QED BY <1>1, <2>1 DEF StepsLeft, Running, RoundFits
<1>8. CASE Collect
  <2>1. /\ loop.phase = "ingest" /\ loop'.phase \in {"closing", "verify"}
        /\ loop'.round = loop.round
    BY <1>1, <1>8 DEF Collect, Collected, NoLoop
  <2> QED BY <1>1, <2>1 DEF StepsLeft, Running, RoundFits
<1>9. CASE EndRound
  <2>1. loop.phase = "verify"
    BY <1>9 DEF EndRound
  <2>2. CASE loop'.phase = "closing" /\ loop'.round = loop.round
    BY <1>1, <2>1, <2>2 DEF StepsLeft, Running, RoundFits
  <2>3. CASE loop.round # MaxRounds /\ loop'.phase = "search" /\ loop'.round = loop.round + 1
    BY <1>1, <2>1, <2>3 DEF StepsLeft, Running, RoundFits
  <2>4. \/ loop'.phase = "closing" /\ loop'.round = loop.round
        \/ loop.round # MaxRounds /\ loop'.phase = "search" /\ loop'.round = loop.round + 1
    <3>1. \/ loop' = [loop EXCEPT !.timedOut = @ \/ loop.late, !.phase = "closing"]
          \/ loop.round # MaxRounds /\ loop' = [loop EXCEPT !.round = @ + 1, !.phase = "search"]
      BY <1>9 DEF EndRound
    <3> QED BY <1>1, <3>1 DEF NoLoop
  <2> QED BY <2>2, <2>3, <2>4
<1>10. CASE Close \/ Raises
  <2>1. loop'.phase = "done" /\ loop'.round = 1
    BY <1>10 DEF Close, Raises, Over, NoLoop
  <2>2. StepsLeft' = 0
    BY <2>1 DEF StepsLeft, Running
  <2>3. RoundFits'
    BY <1>1, <2>1 DEF RoundFits
  <2> QED BY <1>2, <2>2, <2>3
<1>11. CASE DeadlinePasses /\ ~LoopStep
  <2>1. /\ loop'.phase = loop.phase /\ loop'.round = loop.round
        /\ loop.phase \in {"search", "ingest", "verify"}
    BY <1>1, <1>11 DEF DeadlinePasses, NoLoop
  <2> QED BY <1>1, <1>11, <2>1 DEF StepsLeft, Running, RoundFits
<1>12. CASE loop' = loop /\ ~LoopStep
  BY <1>2, <1>3, <1>12
<1> QED BY <1>4, <1>5, <1>6, <1>7, <1>8, <1>9, <1>10, <1>11, <1>12
        DEF Next, LoopStep, CallHits, CallRuns, CacheExpires, researchVars

LEMMA RoundsInvariant == Spec => []RoundFits
<1>1. Init => RoundFits
  BY ResearchAssumption DEF Init, NoLoop, RoundFits
<1>2. ResearchInv /\ RoundFits /\ [Next]_researchVars => RoundFits'
  <2> SUFFICES ASSUME ResearchInv, RoundFits, [Next]_researchVars, ~Running PROVE RoundFits'
    BY LoopGoesOn
  <2>1. loop' = loop \/ \E explicit : loop' = [NoLoop EXCEPT !.phase = "plan", !.explicit = explicit]
    BY DEF Next, LoopStep, CallHits, CallRuns, CacheExpires, researchVars, Running, Plan, Search,
           RoundTooLate, Extract, Collect, EndRound, Close, Raises, DeadlinePasses
  <2>2. ASSUME NEW explicit PROVE [NoLoop EXCEPT !.phase = "plan", !.explicit = explicit].round = 1
    BY DEF NoLoop
  <2>3. loop'.round \in {loop.round, 1}
    BY <2>1, <2>2
  <2> QED BY <2>3, ResearchAssumption DEF RoundFits
<1> QED BY <1>1, <1>2, ResearchInvariant, PTL DEF Spec

\* Each step of a research takes it nearer to its end, and nothing else, not
\* the threads it started nor a clock, takes it further away: at most MaxRounds
\* rounds of five steps (research/supervisor.py, the loop over rounds).  This
\* is the part of CallEnds that does not depend on fairness.
ResearchStep == Running => StepsLeft' <= StepsLeft /\ (LoopStep => StepsLeft' < StepsLeft)
THEOREM ResearchNeverTurnsBack == Spec => [][ResearchStep]_researchVars
<1>1. ResearchInv /\ RoundFits /\ [Next]_researchVars => [ResearchStep]_researchVars
  BY LoopGoesOn DEF ResearchStep
<1> QED BY <1>1, ResearchInvariant, RoundsInvariant, PTL DEF Spec

-----------------------------------------------------------------------------
(* The searches of a round call their providers from several threads, and   *)
(* each provider through a gear of its own (research/supervisor.py:24,      *)
(* providers/resilient.py).  What follows is about one gear, for any        *)
(* threads and any settings.                                                *)

\* The calls that have passed the quota and have not come back.
Passed == {c \in Callers : at[c] \in {"limiter", "breaker", "primary"}}

\* What is counted is what is spent, and together with the calls behind the
\* quota it stays within the limit and one call for each thread.
QuotaInv ==
  /\ at \in [Callers -> Gates]
  /\ quota.used \in Nat /\ quota.spent = quota.used
  /\ Near = 0 => Passed = {} /\ quota.used = 0
  /\ Near > 0 => quota.used + Cardinality(Passed) < Near + Cardinality(Callers)

LEMMA InitQuota ==
  ASSUME GearInit
  PROVE  QuotaInv
<1>1. \A c \in Callers : at[c] = "idle"
  BY DEF GearInit
<1>2. Passed = {} /\ Cardinality({}) = 0 /\ Cardinality(Callers) \in Nat
  BY <1>1, FS_EmptySet, FS_CardinalityType, GearAssumption DEF Passed
<1> QED BY <1>2, GearAssumption DEF QuotaInv, GearInit, Gates

LEMMA StepQuota ==
  ASSUME QuotaInv, [GearNext]_gearVars
  PROVE  QuotaInv'
<1> DEFINE N == Cardinality(Callers)
<1>1. IsFiniteSet(Callers) /\ N \in Nat /\ Near \in Nat
  BY FS_CardinalityType, GearAssumption
<1>2. /\ IsFiniteSet(Passed) /\ Cardinality(Passed) \in Nat
      /\ IsFiniteSet(Passed') /\ Cardinality(Passed') \in Nat /\ Cardinality(Passed') <= N
  <2>1. Passed \subseteq Callers /\ Passed' \subseteq Callers
    BY DEF Passed
  <2> QED BY <1>1, <2>1, FS_Subset, FS_CardinalityType
<1>3. CASE at' = at /\ quota' = quota
  BY <1>3 DEF QuotaInv, Passed
<1>4. ASSUME NEW c \in Callers, NEW g \in {"idle", "cache", "quota"},
             at' = [at EXCEPT ![c] = g], quota' = quota
      PROVE  QuotaInv'
  <2>1. Passed' \subseteq Passed
    BY <1>4 DEF QuotaInv, Passed
  <2>2. Cardinality(Passed') <= Cardinality(Passed)
    BY <1>2, <2>1, FS_Subset
  <2>3. at' \in [Callers -> Gates]
    BY <1>4 DEF QuotaInv, Gates
  <2> QED BY <1>1, <1>2, <1>4, <2>1, <2>2, <2>3 DEF QuotaInv
<1>5. ASSUME NEW c \in Callers, c \in Passed, NEW g \in {"breaker", "primary"},
             at' = [at EXCEPT ![c] = g], quota' = quota
      PROVE  QuotaInv'
  <2>1. Passed' = Passed
    BY <1>5 DEF QuotaInv, Passed
  <2>2. at' \in [Callers -> Gates]
    BY <1>5 DEF QuotaInv, Gates
  <2> QED BY <1>5, <2>1, <2>2 DEF QuotaInv
<1>6. ASSUME NEW c \in Callers, ~ NearLimit,
             at' = [at EXCEPT ![c] = "limiter"], quota' = quota
      PROVE  QuotaInv'
  <2>1. quota.used \in Nat /\ quota.used < Near
    BY <1>1, <1>6 DEF QuotaInv, NearLimit
  <2>2. at' \in [Callers -> Gates]
    BY <1>6 DEF QuotaInv, Gates
  <2> QED BY <1>1, <1>2, <1>6, <2>1, <2>2 DEF QuotaInv
<1>7. ASSUME NEW c \in Callers, PrimaryAnswers(c)
      PROVE  QuotaInv'
  <2>1. c \in Passed /\ at' = [at EXCEPT ![c] = "idle"]
          /\ quota' = [used |-> quota.used + 1, spent |-> quota.spent + 1]
    BY <1>7 DEF PrimaryAnswers, Counted, Returns, Goes, Passed
  <2>2. Passed' = Passed \ {c}
    BY <2>1 DEF QuotaInv, Passed
  <2>3. Cardinality(Passed') = Cardinality(Passed) - 1
    BY <1>2, <2>1, <2>2, FS_RemoveElement
  <2>4. at' \in [Callers -> Gates]
    BY <2>1 DEF QuotaInv, Gates
  <2>5. quota'.used = quota.used + 1 /\ quota'.spent = quota.spent + 1 /\ Near # 0
    BY <2>1 DEF QuotaInv
  <2> QED BY <1>1, <1>2, <2>3, <2>4, <2>5 DEF QuotaInv
<1>8. ASSUME DayTurns
      PROVE  QuotaInv'
  <2>1. quota'.used = 0 /\ quota'.spent = 0 /\ at' = at /\ Passed' = Passed
    BY <1>8 DEF DayTurns, Passed
  <2> QED BY <1>1, <1>2, <2>1 DEF QuotaInv
<1>9. CASE UNCHANGED gearVars
  BY <1>3, <1>9 DEF gearVars
<1>10. CASE CoolsDown \/ Refill \/ Expires \/ ServiceTurns \/ RedisTurns
  BY <1>3, <1>10
     DEF CoolsDown, Refill, Expires, ServiceTurns, RedisTurns
<1>11. ASSUME NEW c \in Callers, Thread(c)
       PROVE  QuotaInv'
  <2>1. CASE Call(c)
    BY <1>4, <2>1 DEF Call, Goes
  <2>2. CASE CheckCache(c)
    BY <1>4, <2>2 DEF CheckCache, Returns, Goes
  <2>3. CASE CheckQuota(c)
    BY <1>4, <1>6, <2>3 DEF CheckQuota, FallsBack, Returns, Goes
  <2>4. CASE CheckLimiter(c)
    <3>1. c \in Passed /\ quota' = quota
      BY <2>4 DEF CheckLimiter, Passed
    <3>2. at' = [at EXCEPT ![c] = "idle"] \/ at' = [at EXCEPT ![c] = "breaker"]
      BY <2>4 DEF CheckLimiter, FallsBack, Returns, Goes
    <3> QED BY <1>4, <1>5, <3>1, <3>2
  <2>5. CASE CheckBreaker(c)
    <3>1. c \in Passed /\ quota' = quota
      BY <2>5 DEF CheckBreaker, Passed
    <3>2. at' = [at EXCEPT ![c] = "idle"] \/ at' = [at EXCEPT ![c] = "primary"]
      BY <2>5 DEF CheckBreaker, FallsBack, Returns, Goes
    <3> QED BY <1>4, <1>5, <3>1, <3>2
  <2>6. CASE PrimaryFails(c)
    BY <1>4, <2>6 DEF PrimaryFails, FallsBack, Returns, Goes
  <2> QED BY <1>7, <1>11, <2>1, <2>2, <2>3, <2>4, <2>5, <2>6 DEF Thread
<1> QED BY <1>8, <1>9, <1>10, <1>11 DEF GearNext, Time

\* Whichever threads pass the gates together, whatever fails and whenever the
\* day turns, a day is overspent by less than one call for each thread
\* (gear/quota.py counts after the call).  Only a provider with neither a limit
\* nor a thread is left out, of which the bound would say 0 < 0.
THEOREM OverspendIsBounded ==
  ASSUME Near > 0 \/ Callers # {}
  PROVE  GearSpec => []QuotaHolds
<1>1. QuotaInv => QuotaHolds
  <2> SUFFICES ASSUME QuotaInv PROVE QuotaHolds
    OBVIOUS
  <2>1. IsFiniteSet(Callers) /\ Cardinality(Callers) \in Nat /\ Near \in Nat
          /\ (Callers # {} => Cardinality(Callers) # 0)
    BY FS_CardinalityType, FS_EmptySet, GearAssumption
  <2>2. Cardinality(Passed) \in Nat
    BY <2>1, FS_Subset, FS_CardinalityType DEF Passed
  <2> QED BY <2>1, <2>2 DEF QuotaInv, QuotaHolds
<1>2. GearInit => QuotaInv
  BY InitQuota
<1>3. QuotaInv /\ [GearNext]_gearVars => QuotaInv'
  BY StepQuota
<1> QED BY <1>1, <1>2, <1>3, PTL DEF GearSpec
-----------------------------------------------------------------------------
(* The gear's objects and its breaker.                                       *)

Breakers == [state : BreakerStates, failures : 0 .. Threshold,
             successes : 0 .. Recovery, cooled : BOOLEAN]

\* What is counted stays within its bounds; a half open breaker still lacks a
\* success.
GearInv ==
  /\ TypeOK
  /\ breaker.state = "half_open" => breaker.successes < Recovery

LEMMA BreakerMoves ==
  ASSUME GearInv
  PROVE  \A b \in {Probed, Succeeded, Failed, [breaker EXCEPT !.cooled = TRUE]} :
           /\ b \in Breakers
           /\ b.state = "half_open" => b.successes < Recovery
<1>1. /\ breaker \in Breakers
      /\ breaker.successes \in Nat /\ breaker.failures \in Nat /\ breaker.failures <= Threshold
      /\ breaker.state = "half_open" => breaker.successes < Recovery
      /\ Threshold \in Nat /\ Threshold > 0 /\ Recovery \in Nat /\ Recovery > 0
  BY GearAssumption DEF GearInv, TypeOK, Breakers
<1>2. ASSUME NEW b \in Breakers
      PROVE  Opened(b) \in Breakers /\ Opened(b).state = "open"
  BY <1>2 DEF Opened, Breakers, BreakerStates
<1>7. 0 \in 0 .. Recovery /\ 0 \in 0 .. Threshold
  BY <1>1
<1>3. Probed \in Breakers /\ (Probed.state = "half_open" => Probed.successes < Recovery)
  <2>1. CASE breaker.state = "open"
    <3>1. Probed = [breaker EXCEPT !.state = "half_open", !.successes = 0]
      BY <2>1 DEF Probed
    <3>2. Probed \in Breakers /\ Probed.successes = 0
      BY <1>1, <1>7, <3>1 DEF Breakers, BreakerStates
    <3> QED BY <1>1, <3>2
  <2>2. CASE breaker.state # "open"
    BY <1>1, <2>2 DEF Probed
  <2> QED BY <2>1, <2>2
<1>4. Succeeded \in Breakers /\ (Succeeded.state = "half_open" => Succeeded.successes < Recovery)
  <2>1. CASE breaker.state # "half_open"
    <3>1. Succeeded = [breaker EXCEPT !.failures = 0]
      BY <2>1 DEF Succeeded
    <3>2. Succeeded \in Breakers /\ Succeeded.state = breaker.state
      BY <1>1, <1>7, <3>1 DEF Breakers
    <3> QED BY <2>1, <3>2
  <2>2. CASE breaker.state = "half_open" /\ breaker.successes + 1 >= Recovery
    <3>1. Succeeded = [breaker EXCEPT !.state = "closed", !.failures = 0, !.successes = 0]
      BY <2>2 DEF Succeeded
    <3>2. Succeeded \in Breakers /\ Succeeded.state = "closed"
      BY <1>1, <1>7, <3>1 DEF Breakers, BreakerStates
    <3> QED BY <3>2
  <2>3. CASE breaker.state = "half_open" /\ ~ (breaker.successes + 1 >= Recovery)
    <3>1. Succeeded = [breaker EXCEPT !.failures = 0, !.successes = breaker.successes + 1]
      BY <2>3 DEF Succeeded
    <3>2. breaker.successes + 1 \in 0 .. Recovery /\ breaker.successes + 1 < Recovery
      BY <1>1, <2>3
    <3>3. Succeeded \in Breakers /\ Succeeded.successes = breaker.successes + 1
      BY <1>1, <1>7, <3>1, <3>2 DEF Breakers
    <3> QED BY <3>2, <3>3
  <2> QED BY <2>1, <2>2, <2>3
<1>5. Failed \in Breakers /\ (Failed.state = "half_open" => Failed.successes < Recovery)
  <2> DEFINE failures == IF breaker.failures = Threshold THEN Threshold ELSE breaker.failures + 1
             counted == [breaker EXCEPT !.failures = failures]
  <2>1. failures \in 0 .. Threshold
    BY <1>1
  <2>2. counted \in Breakers /\ counted.state = breaker.state
    <3> HIDE DEF failures
    <3> QED BY <1>1, <2>1 DEF Breakers
  <2>3. \/ Failed = Opened(breaker) \/ Failed = Opened(counted)
        \/ breaker.state # "half_open" /\ Failed = counted
    BY DEF Failed
  <2> HIDE DEF counted
  <2> QED BY <1>1, <1>2, <2>2, <2>3
<1>6. /\ [breaker EXCEPT !.cooled = TRUE] \in Breakers
      /\ [breaker EXCEPT !.cooled = TRUE].state = breaker.state
      /\ [breaker EXCEPT !.cooled = TRUE].successes = breaker.successes
  BY <1>1 DEF Breakers
<1> QED BY <1>1, <1>3, <1>4, <1>5, <1>6

LEMMA InitGear == GearInit => GearInv
BY GearAssumption DEF GearInit, GearInv, TypeOK, Gates, BreakerStates, Breakers

LEMMA StepGear ==
  ASSUME GearInv, [GearNext]_gearVars
  PROVE  GearInv'
<1>1. at' \in [Callers -> Gates]
  BY DEF GearInv, TypeOK, Gates, GearNext, gearVars, Thread, Time, Call, CheckCache, CheckQuota,
         CheckLimiter, CheckBreaker, PrimaryAnswers, PrimaryFails, FallsBack, Returns, Goes,
         CoolsDown, Refill, DayTurns, Expires, ServiceTurns, RedisTurns
<1>2. keeps' \in [Callers -> BOOLEAN]
  BY DEF GearInv, TypeOK, GearNext, gearVars, Thread, Time, Call, CheckCache, CheckQuota,
         CheckLimiter, CheckBreaker, PrimaryAnswers, PrimaryFails,
         CoolsDown, Refill, DayTurns, Expires, ServiceTurns, RedisTurns
<1>3. answer' \in [Callers -> {"ok", "failed"}]
  BY DEF GearInv, TypeOK, GearNext, gearVars, Thread, Time, Call, CheckCache, CheckQuota,
         CheckLimiter, CheckBreaker, PrimaryAnswers, PrimaryFails,
         CoolsDown, Refill, DayTurns, Expires, ServiceTurns, RedisTurns
<1>4. /\ breaker' \in Breakers
      /\ breaker'.state = "half_open" => breaker'.successes < Recovery
  <2>1. breaker' \in {breaker, Probed, Succeeded, Failed, [breaker EXCEPT !.cooled = TRUE]}
    BY DEF GearNext, gearVars, Thread, Time, Call, CheckCache, CheckQuota,
           CheckLimiter, CheckBreaker, PrimaryAnswers, PrimaryFails,
           CoolsDown, Refill, DayTurns, Expires, ServiceTurns, RedisTurns
  <2> QED BY <2>1, BreakerMoves, ZenonT(40) DEF GearInv, TypeOK, Breakers
<1>5. quota' \in [used : Nat, spent : Nat]
  <2>1. quota' = quota \/ quota' = [used |-> quota.used + 1, spent |-> quota.spent + 1]
          \/ quota' = [used |-> 0, spent |-> 0]
    BY DEF GearNext, gearVars, Thread, Time, Call, CheckCache, CheckQuota,
           CheckLimiter, CheckBreaker, PrimaryAnswers, PrimaryFails, Counted,
           CoolsDown, Refill, DayTurns, Expires, ServiceTurns, RedisTurns
  <2>2. quota \in [used : Nat, spent : Nat]
    BY DEF GearInv, TypeOK
  <2> QED BY <2>1, <2>2
<1>6. tokens' \in 0 .. Capacity
  <2>1. \/ tokens' = tokens
        \/ tokens # 0 /\ tokens' = tokens - 1
        \/ tokens < Capacity /\ tokens' = tokens + 1
    BY DEF GearNext, gearVars, Thread, Time, Call, CheckCache, CheckQuota,
           CheckLimiter, CheckBreaker, PrimaryAnswers, PrimaryFails,
           CoolsDown, Refill, DayTurns, Expires, ServiceTurns, RedisTurns
  <2>2. tokens \in 0 .. Capacity /\ Capacity \in Nat
    BY GearAssumption DEF GearInv, TypeOK
  <2> QED BY <2>1, <2>2
<1>7. tiers' \subseteq {"redis", "memory"}
  BY DEF GearInv, TypeOK, GearNext, gearVars, Thread, Time, Call, CheckCache, CheckQuota,
         CheckLimiter, CheckBreaker, PrimaryAnswers, PrimaryFails, Put,
         CoolsDown, Refill, DayTurns, Expires, ServiceTurns, RedisTurns
<1>8. world' \in [service : BOOLEAN, redis : BOOLEAN]
  BY DEF GearInv, TypeOK, GearNext, gearVars, Thread, Time, Call, CheckCache, CheckQuota,
         CheckLimiter, CheckBreaker, PrimaryAnswers, PrimaryFails,
         CoolsDown, Refill, DayTurns, Expires, ServiceTurns, RedisTurns
<1> QED BY <1>1, <1>2, <1>3, <1>4, <1>5, <1>6, <1>7, <1>8 DEF GearInv, TypeOK, Breakers

LEMMA GearInvariant == GearSpec => []GearInv
<1>1. GearInv /\ [GearNext]_gearVars => GearInv'
  BY StepGear
<1> QED BY InitGear, <1>1, PTL DEF GearSpec

\* No gate is passed without its object: tokens never run below none or above
\* the bucket, the window holds no more failures than open the breaker
\* (gear/limiter.py, gear/breaker.py, gear/quota.py).
THEOREM GearTypesCorrect == GearSpec => []TypeOK
<1>1. GearInv => TypeOK
  BY DEF GearInv
<1> QED BY <1>1, GearInvariant, PTL

\* The service is up and every call that was sent to it will be answered.
Well == world.service /\ \A c \in Callers : at[c] = "primary" => answer[c] = "ok"

\* How far the breaker is from letting calls through for good.
Distance ==
  IF breaker.state = "closed" THEN 0
  ELSE IF breaker.state = "half_open" THEN Recovery - breaker.successes ELSE Recovery + 1

RecoveryStep ==
  Well /\ world'.service =>
    /\ Well' /\ Distance' <= Distance
    /\ breaker.state = "half_open" /\ (\E c \in Callers : PrimaryAnswers(c)) => Distance' < Distance

LEMMA WellLasts ==
  ASSUME GearInv, [GearNext]_gearVars, Well, world'.service
  PROVE  Well'
<1>1. at \in [Callers -> Gates] /\ answer \in [Callers -> {"ok", "failed"}] /\ world.service = TRUE
  BY DEF GearInv, TypeOK, Well
<1>2. ASSUME NEW c \in Callers, at'[c] = "primary" PROVE answer'[c] = "ok"
  <2>1. CASE UNCHANGED <<at, answer>>
    BY <1>2, <2>1 DEF Well
  <2>2. CASE ServiceTurns
    BY <1>1, <2>2 DEF ServiceTurns, Well, GearInv, TypeOK
  <2>3. ASSUME NEW d \in Callers, Thread(d) PROVE answer'[c] = "ok"
    <3>1. CASE CheckBreaker(d)
      <4>1. \/ at' = [at EXCEPT ![d] = "idle"] /\ answer' = answer
            \/ at' = [at EXCEPT ![d] = "primary"] /\ answer' = [answer EXCEPT ![d] = "ok"]
        BY <1>1, <3>1 DEF CheckBreaker, FallsBack, Returns, Goes
      <4> QED BY <1>1, <1>2, <4>1 DEF Well
    <3>2. CASE ~ CheckBreaker(d)
      <4>1. /\ answer' = answer
            /\ \E g \in Gates \ {"primary"} : at' = [at EXCEPT ![d] = g]
        BY <2>3, <3>2
           DEF Thread, Call, CheckCache, CheckQuota, CheckLimiter, PrimaryAnswers, PrimaryFails,
               FallsBack, Returns, Goes, Gates
      <4> QED BY <1>1, <1>2, <4>1 DEF Well
    <3> QED BY <3>1, <3>2
  <2> QED BY <2>1, <2>2, <2>3
          DEF GearNext, gearVars, Time, CoolsDown, Refill, DayTurns, Expires, RedisTurns
<1> QED BY <1>2 DEF Well

\* Once a provider is well, no call and no clock takes its breaker further
\* away from closed, not even an answer that comes late, and each answer to a
\* half open breaker takes it nearer; so it takes Recovery answers at most to
\* use the service again (gear/breaker.py).  This is the part of
\* ServiceIsUsedAgain that does not depend on fairness.
THEOREM RecoveryNeverTurnsBack == GearSpec => [][RecoveryStep]_gearVars
<1>1. ASSUME GearInv, [GearNext]_gearVars, Well, world'.service
      PROVE  /\ Distance' <= Distance
             /\ breaker.state = "half_open" /\ (\E c \in Callers : PrimaryAnswers(c))
                  => Distance' < Distance
  <2>1. /\ breaker \in Breakers
        /\ breaker.successes \in Nat /\ breaker.successes <= Recovery
        /\ breaker.state = "half_open" => breaker.successes < Recovery
        /\ Recovery \in Nat /\ Recovery > 0
    BY <1>1, GearAssumption DEF GearInv, TypeOK, Breakers
  <2>2. ASSUME NEW c \in Callers PROVE ~ PrimaryFails(c)
    BY <1>1 DEF PrimaryFails, Well
  <2>3. ASSUME NEW c \in Callers, PrimaryAnswers(c)
        PROVE  Distance' <= Distance /\ (breaker.state = "half_open" => Distance' < Distance)
    <3>1. breaker' = Succeeded
      BY <2>3 DEF PrimaryAnswers
    <3>2. CASE breaker.state # "half_open"
      <4>1. breaker'.state = breaker.state /\ breaker'.successes = breaker.successes
        BY <2>1, <3>1, <3>2 DEF Succeeded, Breakers
      <4> QED BY <2>1, <3>2, <4>1 DEF Distance
    <3>3. CASE breaker.state = "half_open" /\ breaker.successes + 1 >= Recovery
      <4>1. breaker'.state = "closed"
        BY <2>1, <3>1, <3>3 DEF Succeeded, Breakers
      <4> QED BY <2>1, <3>3, <4>1 DEF Distance
    <3>4. CASE breaker.state = "half_open" /\ ~ (breaker.successes + 1 >= Recovery)
      <4>1. breaker'.state = "half_open" /\ breaker'.successes = breaker.successes + 1
        BY <2>1, <3>1, <3>4 DEF Succeeded, Breakers
      <4> QED BY <2>1, <3>4, <4>1 DEF Distance
    <3> QED BY <3>2, <3>3, <3>4
  <2>4. ASSUME breaker' \in {breaker, Probed, [breaker EXCEPT !.cooled = TRUE]}
        PROVE  Distance' <= Distance
    <3>1. CASE breaker'.state = breaker.state /\ breaker'.successes = breaker.successes
      BY <2>1, <3>1 DEF Distance, Breakers, BreakerStates
    <3>2. CASE breaker' = Probed /\ breaker.state = "open"
      <4>1. breaker'.state = "half_open" /\ breaker'.successes = 0
        BY <2>1, <3>2 DEF Probed, Breakers
      <4> QED BY <2>1, <3>2, <4>1 DEF Distance
    <3> QED BY <2>1, <2>4, <3>1, <3>2 DEF Probed, Breakers
  <2>5. \/ \E c \in Callers : PrimaryAnswers(c) \/ PrimaryFails(c)
        \/ breaker' \in {breaker, Probed, [breaker EXCEPT !.cooled = TRUE]}
    BY <1>1 DEF GearNext, gearVars, Thread, Time, Call, CheckCache, CheckQuota,
                CheckLimiter, CheckBreaker, CoolsDown, Refill, DayTurns, Expires,
                ServiceTurns, RedisTurns
  <2> QED BY <2>2, <2>3, <2>4, <2>5
<1>2. GearInv /\ [GearNext]_gearVars => RecoveryStep
  BY <1>1, WellLasts DEF RecoveryStep
<1>3. GearInv /\ [GearNext]_gearVars => [RecoveryStep]_gearVars
  BY <1>2
<1> QED BY <1>3, GearInvariant, PTL DEF GearSpec
=============================================================================
