---------------------------- MODULE ActivityIngest ----------------------------
(***************************************************************************)
(* The activities table and its only writers: intel/ingest.py stores what  *)
(* a page says, after looking for a row of the same event, and the         *)
(* research's verification (research/supervisor.py) raises what a second   *)
(* page confirms.  Each page is read by a thread of its own with a session *)
(* of its own: it looks for a duplicate, calls models and services, and    *)
(* commits later what it decided then.                                     *)
(***************************************************************************)
EXTENDS Naturals, FiniteSets

CONSTANTS
  Pages,         \* the web pages, each telling of one event
  Prints,        \* fingerprints: title, city, venue and day of an event
  PrintOf,       \* [Pages -> Prints]
  TrustOf,       \* [Pages -> 1..9]: 1 is an official site, 4 a search result
  DayOf,         \* [Prints -> days]: fixed by the fingerprint
  SameTitle,     \* pairs of fingerprints whose titles name one event
  SameMeaning    \* pairs whose embeddings are near and whose day is one

ASSUME IngestAssumption ==
  /\ PrintOf \in [Pages -> Prints] /\ TrustOf \in [Pages -> 1 .. 9] /\ "none" \notin Pages
  /\ SameTitle \subseteq Prints \X Prints /\ SameMeaning \subseteq Prints \X Prints
  /\ \A pair \in SameMeaning : DayOf[pair[1]] = DayOf[pair[2]]

VARIABLES
  rows,        \* activities, by fingerprint
  reader,      \* the thread that ingests a page: how far it is
  dup,         \* the duplicate it found, with its copy of that row's evidence
  check,       \* the thread that verifies an activity: its copy of the row, and its page
  word,        \* history: the pages on whose word a row was given its status
  selfExpired  \* history: the rows that were expired by their own update

ingestVars == <<rows, reader, dup, check, word, selfExpired>>

(* The evidence is one JSON value and is always written as a whole; its    *)
(* note tells of a dispute and of the second page of a verification.  Its  *)
(* level is a copy of the column verification_status; gone is an           *)
(* expires_at that has passed.                                             *)
Levels == {"none", "unknown", "public", "official"}
Rank == [none |-> 0, unknown |-> 0, public |-> 1, official |-> 2]
NoPage == "none"
Evidence == [level : Levels, source : Pages \cup {NoPage}, second : Pages \cup {NoPage},
             disputed : BOOLEAN]
NoEvidence == [level |-> "none", source |-> NoPage, second |-> NoPage, disputed |-> FALSE]
Row == [status : Levels \cup {"expired"}, ev : Evidence, gone : BOOLEAN]
NoRow == [status |-> "none", ev |-> NoEvidence, gone |-> FALSE]
Unique == [print |-> "none", trust |-> 9, matched |-> "none", copy |-> NoEvidence]
NoCheck == [at |-> "idle", page |-> NoPage, left |-> 0, ev |-> NoEvidence, status |-> "none",
            word |-> {}, holds |-> FALSE, wrote |-> FALSE]

IngestInit ==
  /\ rows = [f \in Prints |-> NoRow]
  /\ reader = [p \in Pages |-> "idle"] /\ dup = [p \in Pages |-> Unique]
  /\ check = [f \in Prints |-> NoCheck]
  /\ word = [f \in Prints |-> {}] /\ selfExpired = {}

Stored(f) == rows[f].status # "none"
Official(p) == TrustOf[p] = 1

(* Only an official page is believed at once; a search result stays        *)
(* unknown, and unseen, until it is verified.                              *)
Graded(p, disputed) ==
  LET level == IF Official(p) THEN "official" ELSE "unknown"
  IN  [status |-> level, gone |-> FALSE,
       ev |-> [level |-> level, source |-> p, second |-> NoPage, disputed |-> disputed]]

Found(f, how) ==
  [print |-> f, trust |-> TrustOf[rows[f].ev.source], matched |-> how, copy |-> NoEvidence]
Live(f) == Stored(f) /\ ~rows[f].gone

(* The row of the same fingerprint, or one of the same title that is not   *)
(* gone.                                                                   *)
Namesakes(f) ==
  IF Stored(f) THEN {Found(f, "fingerprint")}
  ELSE {Found(g, "entity_title") : g \in {h \in Prints : <<f, h>> \in SameTitle /\ Live(h)}}

(* The nearest row by meaning.  The query does not leave out the           *)
(* fingerprint's own row, which is the nearest of all if it is there now.  *)
Nearest(f) ==
  LET near == {g \in Prints : <<f, g>> \in SameMeaning /\ Live(g)}
  IN  IF Live(f) THEN {Found(f, "semantic")}
      ELSE IF near # {} THEN {Found(g, "semantic") : g \in near}
      ELSE {Unique}

Idle(p) == reader[p] \in {"idle", "done", "failed"}

(* Extraction may find nothing, an ungrounded quote, no date or a past     *)
(* one: the draft goes to the review queue, or nowhere.  Without a         *)
(* namesake the draft is embedded first.                                   *)
Extracts(p) ==
  /\ reader[p] = "started"
  /\ \/ reader' = [reader EXCEPT ![p] = "failed"] /\ UNCHANGED dup
     \/ \E d \in Namesakes(PrintOf[p]) :
          dup' = [dup EXCEPT ![p] = d] /\ reader' = [reader EXCEPT ![p] = "matched"]
     \/ /\ Namesakes(PrintOf[p]) = {}
        /\ reader' = [reader EXCEPT ![p] = "embedding"] /\ UNCHANGED dup
  /\ UNCHANGED <<rows, check, word, selfExpired>>

Embeds(p) ==
  /\ reader[p] = "embedding"
  /\ \E d \in Nearest(PrintOf[p]) : dup' = [dup EXCEPT ![p] = d]
  /\ reader' = [reader EXCEPT ![p] = "matched"]
  /\ UNCHANGED <<rows, check, word, selfExpired>>

Matched(p) == dup[p].matched # "none"

(* The row that was found is read again, for its date and its evidence.    *)
Compares(p) ==
  /\ reader[p] = "matched"
  /\ dup' = IF Matched(p) THEN [dup EXCEPT ![p].copy = rows[dup[p].print].ev] ELSE dup
  /\ reader' = [reader EXCEPT ![p] = "compared"]
  /\ UNCHANGED <<rows, check, word, selfExpired>>

Conflicts(p) == Matched(p) /\ DayOf[dup[p].print] # DayOf[PrintOf[p]]

(* What is written of the copy: a dispute replaces the note, and so does   *)
(* an agreement unless the note tells of a dispute.                        *)
Noted(p) ==
  LET copy == dup[p].copy
  IN  IF Conflicts(p) THEN [copy EXCEPT !.disputed = TRUE, !.second = NoPage]
      ELSE [copy EXCEPT !.second = IF copy.disputed THEN copy.second ELSE NoPage]

Writes(p) == ~Matched(p) \/ TrustOf[p] < dup[p].trust

\* Mutant: a row that is updated in place is expired as well.
SupersedesAny(p, f) == Writes(p) /\ Matched(p) /\ f = dup[p].print

(* A row of the same meaning gives way to a more trusted one.  A row of    *)
(* the same fingerprint is updated in place and must not expire itself.    *)
Supersedes(p, f) == Writes(p) /\ dup[p].matched = "semantic" /\ f = dup[p].print

(* The evidence of the row that was found, the upsert and the expiry of a  *)
(* superseded row commit together, as soon as no verification holds a row  *)
(* of them.                                                                *)
RowAfter(p, f) ==
  LET here == IF Writes(p) /\ f = PrintOf[p] THEN Graded(p, Conflicts(p))
              ELSE IF Matched(p) /\ f = dup[p].print THEN [rows[f] EXCEPT !.ev = Noted(p)]
              ELSE rows[f]
  IN  IF Supersedes(p, f) THEN [here EXCEPT !.status = "expired", !.gone = TRUE] ELSE here

Touched(p) ==
  (IF Writes(p) THEN {PrintOf[p]} ELSE {}) \cup (IF Matched(p) THEN {dup[p].print} ELSE {})

Stores(p) ==
  /\ reader[p] = "compared" /\ \A f \in Touched(p) : ~check[f].holds
  /\ rows' = [f \in Prints |-> RowAfter(p, f)]
  /\ word' = IF Writes(p) THEN [word EXCEPT ![PrintOf[p]] = {p}] ELSE word
  /\ selfExpired' = selfExpired \cup {f \in {PrintOf[p]} : Supersedes(p, f)}
  /\ reader' = [reader EXCEPT ![p] = "done"]
  /\ UNCHANGED <<dup, check>>

IngestRaises(p) ==
  /\ reader[p] \in {"embedding", "matched", "compared"}
  /\ reader' = [reader EXCEPT ![p] = "failed"]
  /\ UNCHANGED <<rows, dup, check, word, selfExpired>>

\* The id that ingesting a page returned.
Returned(p) == IF reader[p] = "done" /\ Writes(p) THEN {PrintOf[p]} ELSE {}

------------------------------------------------------------------------------
(* Verification: up to two further pages are searched for, each ingested   *)
(* in a session of its own and then written, whatever came of it, to the   *)
(* copy of the row.  The first write holds the row until the commit.       *)

\* Mutant: the page the activity came from may confirm it.
SecondPagesAny(f) == {p \in Pages : Idle(p) /\ p # check[f].page}
SecondPages(f) == {p \in Pages : Idle(p) /\ p # check[f].page /\ p # check[f].ev.source}

CheckReads(f) ==
  /\ check[f].at = "asked"
  /\ check' = [check EXCEPT ![f] = [NoCheck EXCEPT !.at = "read", !.left = 2,
                                      !.ev = rows[f].ev, !.status = rows[f].status]]
  /\ UNCHANGED <<rows, reader, dup, word, selfExpired>>

CheckFinds(f) ==
  /\ check[f].at = "read" /\ check[f].left > 0
  /\ \E p \in SecondPages(f) :
       /\ check' = [check EXCEPT ![f].at = "confirming", ![f].page = p, ![f].left = @ - 1]
       /\ reader' = [reader EXCEPT ![p] = "started"]
  /\ UNCHANGED <<rows, dup, word, selfExpired>>

(* Never lower than the copy: the row itself may be higher by now.  The    *)
(* status is written when it differs from the copy's.                      *)
Target(p) == IF Official(p) THEN "official" ELSE "public"
Confirmed(ev, p) ==
  [ev EXCEPT !.level = Target(p), !.second = p, !.source = IF Official(p) THEN p ELSE ev.source]
Raised(c, p) ==
  IF Rank[c.ev.level] >= Rank[Target(p)] THEN [c EXCEPT !.at = "read"]
  ELSE [c EXCEPT !.at = "read", !.holds = TRUE, !.status = Target(p), !.ev = Confirmed(c.ev, p),
                 !.wrote = c.wrote \/ c.status # Target(p),
                 !.word = IF c.status # Target(p) THEN {c.ev.source, p} ELSE c.word]

CheckUpgrades(f) ==
  /\ check[f].at = "confirming" /\ Idle(check[f].page)
  /\ check' = [check EXCEPT ![f] = Raised(@, @.page)]
  /\ UNCHANGED <<rows, reader, dup, word, selfExpired>>

CheckCommits(f) ==
  /\ check[f].at = "read"
  /\ LET c == check[f]
     IN  /\ rows' = IF c.holds
                    THEN [rows EXCEPT ![f].ev = c.ev,
                                      ![f].status = IF c.wrote THEN c.status ELSE @]
                    ELSE rows
         /\ word' = IF c.wrote THEN [word EXCEPT ![f] = c.word] ELSE word
  /\ check' = [check EXCEPT ![f] = NoCheck]
  /\ UNCHANGED <<reader, dup, selfExpired>>

CheckRaises(f) ==
  /\ check[f].at = "read"
  /\ check' = [check EXCEPT ![f] = NoCheck]
  /\ UNCHANGED <<rows, reader, dup, word, selfExpired>>

PageStep ==
  \E p \in Pages : Extracts(p) \/ Embeds(p) \/ Compares(p) \/ Stores(p) \/ IngestRaises(p)
CheckStep ==
  \E f \in Prints :
    CheckReads(f) \/ CheckFinds(f) \/ CheckUpgrades(f) \/ CheckCommits(f) \/ CheckRaises(f)

------------------------------------------------------------------------------
(* Nearness of meaning is not transitive: an event is a set of fingerprints *)
(* that no nearness leaves.                                                *)
IsEvent(S) == \A pair \in SameMeaning : pair[1] \in S <=> pair[2] \in S

(* Superseding never loses an event: while threads supersede, update and   *)
(* verify rows of one event at once, one row of it that was stored is not  *)
(* gone (upsert_activity's supersede in intel/ingest.py), unless an update *)
(* expired its own row.                                                    *)
EventStaysVisible ==
  \A S \in SUBSET Prints :
    IsEvent(S) /\ S \cap selfExpired = {} /\ (\E f \in S : Stored(f)) => \E g \in S : Live(g)

\* A status with the pages on whose word it was given.
Backs(pages, status) ==
  /\ status \in {"public", "official"} =>
       (\E p \in pages : Official(p)) \/ (\E p, q \in pages \ {NoPage} : p # q)
  /\ status = "official" => \E p \in pages : Official(p)

(* An activity becomes recallable only on the word of two different pages  *)
(* or of an official one, and official only on that of an official one;    *)
(* whatever copies of rows are written back in between                     *)
(* (research/supervisor.py _upgrade_verified).                             *)
TrustedIsBacked == \A f \in Prints : Backs(word[f], rows[f].status)

(* What the code's comments claim and TLC refutes (README, section 5).     *)

(* "When the fingerprint was hit the upsert updates the same row, which    *)
(* must never be marked expired" (intel/ingest.py, where a duplicate is    *)
(* superseded): not when the row came between the first query and the last.*)
NoneExpiresItself == selfExpired = {}

(* "The way it was verified is kept in evidence.note (auditable)"          *)
(* (research/supervisor.py _upgrade_verified): what is trusted shows an    *)
(* official source or the second page that confirmed it.                   *)
TrailIsKept ==
  \A f \in Prints : rows[f].status \in {"public", "official"} =>
    Official(rows[f].ev.source)
      \/ (rows[f].ev.second # NoPage /\ rows[f].ev.second # rows[f].ev.source)

(* "Cross-checking: a second source is searched for to confirm the date"   *)
(* (research/supervisor.py, phase 3): the pages on whose word an activity  *)
(* is trusted tell of its day.                                             *)
DateIsConfirmed ==
  \A f \in Prints : rows[f].status \in {"public", "official"} =>
    \A p \in word[f] : DayOf[PrintOf[p]] = DayOf[f]

(* "The provider's own timeout reclaims it in the end"                     *)
(* (research/supervisor.py _bounded_parallel, of a call that is running    *)
(* still): no verification waits for a row that it holds itself.           *)
NoCheckBlocksItself ==
  \A f \in Prints :
    LET p == check[f].page
    IN  ~(/\ check[f].at = "confirming" /\ check[f].holds
          /\ reader[p] = "compared" /\ f \in Touched(p))
=============================================================================
