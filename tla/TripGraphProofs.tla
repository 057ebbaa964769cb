--------------------------- MODULE TripGraphProofs ---------------------------
(* Theorems about TripGraph, for any candidates, subgoals and verdicts, any *)
(* limits and any number of commands.                                       *)
EXTENDS TripGraph, FiniteSetTheorems, TLAPS

-----------------------------------------------------------------------------
(* Collections of candidates, and the plans that may be selected from them. *)

\* A collection of candidates, each "matched" one of which the judge accepts
\* and files only under subgoals it was suggested for or found to meet.
Truthful(c) ==
  /\ DOMAIN c \subseteq Titles /\ c = [t \in DOMAIN c |-> c[t]]
  /\ \A t \in DOMAIN c : c[t] \in Candidate
  /\ \A t \in DOMAIN c :
       c[t].status = "matched" => Meets[t] # {} /\ c[t].goals \subseteq Suggests[t] \cup Meets[t]

\* What an extension owes a plan with these titles.
Keeps(before, locked, titles) ==
  IF locked \cap before # {} THEN locked \cap before \subseteq titles
  ELSE Cardinality(before \cap titles)
         >= (IF Cardinality(before) < KeptByDefault THEN Cardinality(before) ELSE KeptByDefault)

LEMMA TitlesFinite ==
  ASSUME NEW S \in SUBSET Titles
  PROVE  IsFiniteSet(S) /\ Cardinality(S) \in Nat
BY FS_Subset, FS_CardinalityType, JudgeAssumption

LEMMA NoneIsEmpty ==
  /\ Truthful(None) /\ DOMAIN None = {}
  /\ \A c : Truthful(c) /\ c # None => DOMAIN c # {}
<1>1. DOMAIN None = {} /\ Truthful(None)
  BY DEF None, Truthful
<1>2. ASSUME NEW c, Truthful(c), DOMAIN c = {} PROVE c = None
  <2>1. c = [t \in {} |-> c[t]]
    BY <1>2 DEF Truthful
  <2>2. [t \in {} |-> c[t]] = [t \in {} |-> {}]
    OBVIOUS
  <2> QED BY <2>1, <2>2 DEF None
<1> QED BY <1>1, <1>2

\* Nothing is owed to an empty plan, and a whole plan owes nothing to itself.
LEMMA KeepsWhole ==
  ASSUME NEW before \in SUBSET Titles, NEW locked, NEW titles \in SUBSET Titles,
         before \subseteq titles
  PROVE  Keeps(before, locked, titles)
<1>1. before \cap titles = before /\ Cardinality(before) \in Nat
  BY TitlesFinite
<1> QED BY <1>1, SelectionAssumption DEF Keeps

LEMMA KeepsMore ==
  ASSUME NEW before \in SUBSET Titles, NEW locked, NEW S \in SUBSET Titles,
         NEW T \in SUBSET Titles, S \subseteq T, Keeps(before, locked, S)
  PROVE  Keeps(before, locked, T)
<1>1. before \cap S \in SUBSET (before \cap T) /\ before \cap T \in SUBSET Titles
  OBVIOUS
<1>2. /\ Cardinality(before \cap S) \in Nat /\ Cardinality(before \cap T) \in Nat
      /\ Cardinality(before) \in Nat
      /\ Cardinality(before \cap S) <= Cardinality(before \cap T)
  BY <1>1, TitlesFinite, FS_Subset
<1> QED BY <1>2, SelectionAssumption DEF Keeps

LEMMA OnlyIs ==
  ASSUME NEW c, Truthful(c), NEW S \in SUBSET DOMAIN c
  PROVE  Truthful(Only(c, S)) /\ DOMAIN Only(c, S) = S
BY DEF Truthful, Only

LEMMA FromIs ==
  ASSUME NEW c, Truthful(c), NEW origin \in Origins
  PROVE  Truthful(From(c, origin)) /\ DOMAIN From(c, origin) = DOMAIN c
BY DEF Truthful, From, Candidate

LEMMA ExcludingIs ==
  ASSUME NEW c, Truthful(c), NEW seen
  PROVE  Truthful(Excluding(c, seen)) /\ DOMAIN Excluding(c, seen) = DOMAIN c \ seen
BY DEF Truthful, Excluding

LEMMA DistinctIs ==
  ASSUME NEW old, NEW new, Truthful(old), Truthful(new)
  PROVE  /\ Truthful(Distinct(old, new))
         /\ DOMAIN Distinct(old, new) = DOMAIN old \cup DOMAIN new
BY DEF Truthful, Distinct

\* A limit keeps so many entries, or all of them.
LEMMA LimitedIs ==
  ASSUME NEW c, Truthful(c), NEW n \in Nat, NEW l \in Limited(c, n)
  PROVE  /\ Truthful(l) /\ DOMAIN l \subseteq DOMAIN c
         /\ Cardinality(DOMAIN l) = IF Cardinality(DOMAIN c) < n THEN Cardinality(DOMAIN c) ELSE n
<1> DEFINE k == IF Cardinality(DOMAIN c) < n THEN Cardinality(DOMAIN c) ELSE n
<1>1. PICK S \in kSubset(k, DOMAIN c) : l = Only(c, S)
  BY DEF Limited
<1>2. S \in SUBSET DOMAIN c /\ Cardinality(S) = k
  BY DEF kSubset
<1> QED BY <1>1, <1>2, OnlyIs

\* What is preserved of a baseline is part of it, and enough of it.
LEMMA PreservedIs ==
  ASSUME NEW baseline, Truthful(baseline), NEW locked,
         NEW kept \in BaselineToPreserve(baseline, locked)
  PROVE  /\ Truthful(kept) /\ DOMAIN kept \subseteq DOMAIN baseline
         /\ Keeps(DOMAIN baseline, locked, DOMAIN kept)
<1> DEFINE promised == locked \cap DOMAIN baseline
<1>1. CASE promised # {}
  <2>1. kept = From(Only(baseline, promised), "baseline")
    BY <1>1 DEF BaselineToPreserve
  <2>2. Truthful(kept) /\ DOMAIN kept = promised
    BY <2>1, OnlyIs, FromIs DEF Origins
  <2> QED BY <1>1, <2>2 DEF Keeps
<1>2. CASE promised = {}
  <2>1. PICK c \in Limited(baseline, KeptByDefault) : kept = From(c, "baseline")
    BY <1>2 DEF BaselineToPreserve
  <2>2. /\ Truthful(c) /\ DOMAIN c \subseteq DOMAIN baseline
        /\ Cardinality(DOMAIN c) = IF Cardinality(DOMAIN baseline) < KeptByDefault
                                   THEN Cardinality(DOMAIN baseline) ELSE KeptByDefault
    BY LimitedIs, SelectionAssumption
  <2>3. Truthful(kept) /\ DOMAIN kept = DOMAIN c
    BY <2>1, <2>2, FromIs DEF Origins
  <2>4. DOMAIN baseline \cap DOMAIN kept = DOMAIN c
    BY <2>2, <2>3
  <2>5. Cardinality(DOMAIN baseline) \in Nat
    BY TitlesFinite DEF Truthful
  <2> QED BY <1>2, <2>2, <2>3, <2>4, <2>5, SelectionAssumption DEF Keeps
<1> QED BY <1>1, <1>2

\* A selected plan is of the old plan and the new finds; outside an extension
\* it is the new finds alone, and an extension keeps what it owes.
LEMMA SelectedIs ==
  ASSUME NEW mode, NEW baseline, Truthful(baseline), NEW eligible, Truthful(eligible), NEW locked,
         NEW c \in SelectPlan(mode, baseline, eligible, locked)
  PROVE  /\ Truthful(c.plan) /\ Truthful(c.fresh)
         /\ DOMAIN c.plan \subseteq DOMAIN baseline \cup DOMAIN eligible
         /\ DOMAIN c.fresh \subseteq DOMAIN eligible
         /\ mode # "extend" => c.plan = c.fresh
         /\ mode = "extend" => Keeps(DOMAIN baseline, locked, DOMAIN c.plan)
         /\ c.fresh # None => c.plan # None
<1> DEFINE fresh == From(eligible, "current_research")
<1>1. Truthful(fresh) /\ DOMAIN fresh = DOMAIN eligible
  BY FromIs DEF Origins
<1>4. \A seen : /\ Truthful(Excluding(fresh, seen))
                /\ DOMAIN Excluding(fresh, seen) \subseteq DOMAIN fresh
  <2> HIDE DEF fresh
  <2> TAKE seen
  <2>1. Truthful(fresh)
    BY <1>1
  <2>2. Truthful(Excluding(fresh, seen))
    BY <2>1, ExcludingIs
  <2>3. DOMAIN Excluding(fresh, seen) = DOMAIN fresh \ seen
    BY <2>1, ExcludingIs
  <2> QED BY <2>2, <2>3
<1>2. CASE mode # "extend"
  <2>1. c \in {[plan |-> f, fresh |-> f] : f \in Limited(fresh, PlanLimit)}
    BY <1>2 DEF SelectPlan, Alternatives
  <2>2. PICK f \in Limited(fresh, PlanLimit) : c = [plan |-> f, fresh |-> f]
    BY <2>1
  <2>3. Truthful(f) /\ DOMAIN f \subseteq DOMAIN fresh
    BY <1>1, LimitedIs, SelectionAssumption
  <2> HIDE DEF fresh
  <2> QED BY <1>1, <1>2, <2>2, <2>3
<1>3. CASE mode = "extend"
  <2>1. c \in Extensions(baseline, fresh, locked)
    BY <1>3 DEF SelectPlan
  <2> HIDE DEF fresh
  <2>2. \E kept \in BaselineToPreserve(baseline, locked) :
        \E f \in Limited(Excluding(fresh, DOMAIN kept), FreshCapacity(Cardinality(DOMAIN kept))) :
          c = [plan |-> IF f = None THEN From(baseline, "baseline") ELSE Distinct(kept, f),
               fresh |-> f]
    BY <2>1 DEF Extensions
  <2>3. PICK kept \in BaselineToPreserve(baseline, locked) :
        \E f \in Limited(Excluding(fresh, DOMAIN kept), FreshCapacity(Cardinality(DOMAIN kept))) :
          c = [plan |-> IF f = None THEN From(baseline, "baseline") ELSE Distinct(kept, f),
               fresh |-> f]
    BY <2>2
  <2>4. PICK f \in Limited(Excluding(fresh, DOMAIN kept), FreshCapacity(Cardinality(DOMAIN kept))) :
          c = [plan |-> IF f = None THEN From(baseline, "baseline") ELSE Distinct(kept, f),
               fresh |-> f]
    BY <2>3
  <2>5. /\ Truthful(kept) /\ DOMAIN kept \subseteq DOMAIN baseline
        /\ Keeps(DOMAIN baseline, locked, DOMAIN kept)
    BY PreservedIs
  <2>6. FreshCapacity(Cardinality(DOMAIN kept)) \in Nat
    <3>1. Cardinality(DOMAIN kept) \in Nat
      BY <2>5, TitlesFinite DEF Truthful
    <3> QED BY <3>1, SelectionAssumption DEF FreshCapacity
  <2>7. Truthful(f) /\ DOMAIN f \subseteq DOMAIN fresh
    <3> DEFINE seen == DOMAIN kept
               rest == Excluding(fresh, seen)
               n == FreshCapacity(Cardinality(DOMAIN kept))
    <3>1. Truthful(rest) /\ DOMAIN rest \subseteq DOMAIN fresh
      BY <1>4
    <3>2. f \in Limited(rest, n) /\ n \in Nat
      BY <2>4, <2>6
    <3> HIDE DEF rest, n
    <3>3. Truthful(f) /\ DOMAIN f \subseteq DOMAIN rest
      BY <3>1, <3>2, LimitedIs
    <3> QED BY <3>1, <3>3
  <2>8. CASE f = None
    <3>1. c.plan = From(baseline, "baseline") /\ c.fresh = None
      BY <2>4, <2>8
    <3>2. Truthful(c.plan) /\ DOMAIN c.plan = DOMAIN baseline
      BY <3>1, FromIs DEF Origins
    <3>3. Keeps(DOMAIN baseline, locked, DOMAIN c.plan)
      BY <3>2, KeepsWhole DEF Truthful
    <3> QED BY <1>3, <3>1, <3>2, <3>3, NoneIsEmpty
  <2>9. CASE f # None
    <3>1. c.plan = Distinct(kept, f) /\ c.fresh = f
      BY <2>4, <2>9
    <3>2. Truthful(c.plan) /\ DOMAIN c.plan = DOMAIN kept \cup DOMAIN f
      BY <2>5, <2>7, <3>1, DistinctIs, ZenonT(40)
    <3>3. Keeps(DOMAIN baseline, locked, DOMAIN c.plan)
      BY <2>5, <3>2, KeepsMore DEF Truthful
    <3>4. c.plan # None
      BY <2>7, <2>9, <3>2, NoneIsEmpty
    <3> QED BY <1>1, <1>3, <2>5, <2>7, <3>1, <3>2, <3>3, <3>4
  <2> QED BY <2>8, <2>9
<1> QED BY <1>2, <1>3

\* What the judge keeps of a round.
LEMMA RankedIs ==
  ASSUME NEW found \in SUBSET Titles, NEW heard \in SUBSET found, NEW strict \in BOOLEAN
  PROVE  /\ Truthful(Ranked(found, heard, strict, Goals))
         /\ \A t \in heard : Meets[t] # {} => t \in DOMAIN Ranked(found, heard, strict, Goals)
<1>1. DOMAIN Ranked(found, heard, strict, Goals) = Kept(found, heard, strict, Goals)
  BY DEF Ranked
<1>2. Kept(found, heard, strict, Goals) \subseteq Titles
  BY DEF Kept
<1>3. \A t \in Titles : Meets[t] \subseteq Goals
  BY JudgeAssumption
<1>4. \A t \in Titles :
        Judged(t, heard, Goals).status = "matched" =>
          /\ Meets[t] # {}
          /\ Judged(t, heard, Goals).goals \subseteq Suggests[t] \cup Meets[t]
  <2> SUFFICES ASSUME NEW t \in Titles, Judged(t, heard, Goals).status = "matched"
               PROVE  /\ Meets[t] # {}
                      /\ Judged(t, heard, Goals).goals \subseteq Suggests[t] \cup Meets[t]
    OBVIOUS
  <2>1. t \in heard /\ Matched(t, Goals)
    BY DEF Judged
  <2> QED BY <2>1 DEF Judged, Matched
<1>7. \A t \in Titles : Judged(t, heard, Goals) \in Candidate
  <2> SUFFICES ASSUME NEW t \in Titles PROVE Judged(t, heard, Goals) \in Candidate
    OBVIOUS
  <2>1. Suggests[t] \subseteq Goals
    BY JudgeAssumption
  <2> QED BY <2>1, <1>3 DEF Judged, Candidate, Origins, Statuses
<1>5. Truthful(Ranked(found, heard, strict, Goals))
  BY <1>2, <1>4, <1>7 DEF Ranked, Truthful
<1>6. \A t \in heard : Meets[t] # {} => t \in Kept(found, heard, strict, Goals)
  BY <1>3 DEF Kept, Matched
<1> QED BY <1>1, <1>5, <1>6

\* A covered subgoal has its number of candidates the judge accepts, in the
\* collection that is measured.
LEMMA CoverageHolds ==
  ASSUME NEW found \in SUBSET Titles, NEW o \in JudgeOutcomes(found),
         NEW c, Truthful(c), \A t \in o.heard : Meets[t] # {} => t \in DOMAIN c,
         NEW g \in CollectionEvaluation(c, Goals, BatchEvaluation(found, o, Goals)).covered
  PROVE  g \in Goals /\ Cardinality(Holding(DOMAIN c, g)) >= TargetCount[g]
<1> DEFINE batch == BatchEvaluation(found, o, Goals)
           matched == {t \in DOMAIN c : c[t].status = "matched"}
<1>1. o.heard \subseteq found
  BY DEF JudgeOutcomes
<1>2. Holding(DOMAIN c, g) \in SUBSET Titles
  BY DEF Holding, Truthful
<1>3. IsFiniteSet(Holding(DOMAIN c, g)) /\ Cardinality(Holding(DOMAIN c, g)) \in Nat
  BY <1>2, TitlesFinite
<1>4. \A S : S \subseteq Holding(DOMAIN c, g) =>
               /\ Cardinality(S) <= Cardinality(Holding(DOMAIN c, g)) /\ Cardinality(S) \in Nat
  BY <1>3, FS_Subset, FS_CardinalityType
<1>5. CASE g \in batch.covered
  <2>1. batch.covered \in {{}, CoveredBy(o.heard, Goals)}
    BY DEF BatchEvaluation, NotEvaluated
  <2>2. g \in CoveredBy(o.heard, Goals)
    BY <1>5, <2>1
  <2>3. g \in Goals /\ Cardinality({t \in o.heard : g \in Meets[t]}) >= TargetCount[g]
    BY <2>2 DEF CoveredBy
  <2>4. {t \in o.heard : g \in Meets[t]} \subseteq Holding(DOMAIN c, g)
    BY DEF Holding
  <2>5. TargetCount[g] \in Nat
    BY <2>3, JudgeAssumption
  <2> QED BY <1>3, <1>4, <2>3, <2>4, <2>5
<1>6. CASE g \notin batch.covered
  <2>1. g \in {h \in Goals : Cardinality({t \in matched : h \in c[t].goals}) >= TargetCount[h]}
    BY <1>6 DEF CollectionEvaluation
  <2>2. {t \in matched : g \in c[t].goals} \subseteq Holding(DOMAIN c, g)
    BY DEF Holding, Truthful
  <2>3. TargetCount[g] \in Nat
    BY <2>1, JudgeAssumption
  <2> QED BY <1>3, <1>4, <2>1, <2>2, <2>3
<1> QED BY <1>5, <1>6

-----------------------------------------------------------------------------
(* The invariant.                                                           *)

Later == (Nodes \ {"parse", "discover", "research", "reflect"}) \cup {"end"}

Shape ==
  /\ DOMAIN st = DOMAIN InitialState(FALSE) /\ DOMAIN turn = DOMAIN NoTurn
  /\ DOMAIN st.research = {"provider", "live", "sources"}
  /\ Truthful(st.acts) /\ Truthful(st.base) /\ Truthful(st.judged) /\ Truthful(st.round)
  /\ st.feedback \in BOOLEAN /\ st.active \in BOOLEAN /\ st.hard \in BOOLEAN
  /\ turn.rounds \in Nat /\ turn.before \in SUBSET Titles

More == turn.kind = "more"

\* The plan the turn began with is remembered, unless it was empty.
BaseIsBefore ==
  IF st.base = None THEN turn.before = {} ELSE DOMAIN st.base = turn.before

\* A turn that asks for more waits for its first reflect, which finds nothing
\* but the feedback;
MoreAsked ==
  /\ next = "reflect" /\ st.feedback /\ ~st.active /\ turn.rounds = 0 /\ st.loop = 0
  /\ ~st.exhausted /\ st.eval.failure = "none" /\ ~st.improved
  /\ st.base = None /\ DOMAIN st.acts = turn.before

\* then it searches, and remembers the plan it began with;
MoreSearching ==
  /\ next \in {"research", "reflect"} /\ ~st.feedback /\ st.active /\ BaseIsBefore
  /\ next = "research" => ~Outage
  /\ next = "reflect" => turn.rounds > 0

\* and then it is over, after a round or in an outage.
MoreOver ==
  /\ next \in Later /\ ~st.feedback /\ ~st.active
  /\ turn.rounds > 0 \/ st.research.provider = "unavailable"

MoreInv ==
  More => /\ MoreAsked \/ MoreSearching \/ MoreOver
          /\ waiting => next = "await_booking" /\ ~live

\* Outside of a raised round an extension keeps what it owes, an outage keeps
\* the whole plan, and what counts as improved is new.
ExtensionInv ==
  More /\ st.mode = "extend" /\ ~turn.raised => Keeps(turn.before, st.locked, DOMAIN st.acts)

OutageInv ==
  More /\ (st.outcome = "provider_unavailable" \/ (next = "reflect" /\ Outage)) =>
    turn.before \subseteq DOMAIN st.acts

NewInv ==
  More /\ st.mode # "extend" /\ (st.outcome = "improved" \/ (next = "reflect" /\ st.improved)) =>
    ~(DOMAIN st.acts \subseteq turn.before)

\* What was found is remembered as long as the turn searches, and coverage was
\* measured on that; a turn that stopped searches no more.
FoundInv ==
  turn.kind \in {"start", "more"} =>
    /\ (next \in {"parse", "discover", "research"} \/ (next = "reflect" /\ ~Outage)) =>
         DOMAIN st.acts \cup DOMAIN st.base \subseteq turn.before \cup DOMAIN st.judged
    /\ \A g \in st.eval.covered :
         g \in Goals /\ Cardinality(Holding(turn.before \cup DOMAIN st.judged, g)) >= TargetCount[g]
    /\ st.stop = "quality_sufficient" => next \in Later

GraphInv ==
  Shape /\ MoreInv /\ ExtensionInv /\ OutageInv /\ NewInv /\ FoundInv /\ SufficientIsCovered

LEMMA InitGraph == Init => GraphInv
<1> SUFFICES ASSUME Init PROVE GraphInv
  OBVIOUS
<1>1. turn.kind = "none" /\ turn.rounds = 0 /\ turn.before = {} /\ DOMAIN turn = DOMAIN NoTurn
  BY DEF Init, NoTurn
<1>2. Shape
  BY <1>1, NoneIsEmpty DEF Init, Shape, InitialState
<1> QED BY <1>1, <1>2
        DEF GraphInv, MoreInv, More, ExtensionInv, OutageInv, NewInv, FoundInv, SufficientIsCovered

\* Steps that leave the research alone and go on along the graph.
LEMMA QuietKeeps ==
  ASSUME GraphInv, UNCHANGED <<st, turn>>,
         \/ next' = next \/ (next = "parse" /\ next' = "discover")
         \/ (next = "discover" /\ next' = "research") \/ (next \in Later /\ next' \in Later),
         More /\ waiting' => next' = "await_booking" /\ ~live'
  PROVE  GraphInv'
<1> USE DEF GraphInv
<1>1. Outage' = Outage /\ More' = More /\ BaseIsBefore' = BaseIsBefore
  BY DEF Outage, More, BaseIsBefore
<1>2. Shape' /\ ExtensionInv'
  BY DEF Shape, ExtensionInv, More
<1>3. (next' = "reflect" <=> next = "reflect") /\ (next \in Later => next' \in Later)
  BY DEF Later, Nodes
<1>4. OutageInv' /\ NewInv'
  BY <1>1, <1>3 DEF OutageInv, NewInv
<1>5. MoreInv'
  <2> SUFFICES ASSUME More' PROVE MoreInv'
    BY DEF MoreInv
  <2>1. More /\ next' \in {"research", "reflect"} => next' = next
    BY DEF MoreInv, MoreAsked, MoreSearching, MoreOver, Later, Nodes
  <2>2. CASE MoreAsked
    BY <1>1, <2>2 DEF MoreInv, MoreAsked, Later, Nodes
  <2>3. CASE MoreSearching
    BY <1>1, <2>3 DEF MoreInv, MoreSearching, Later, Nodes
  <2>4. CASE MoreOver
    BY <1>1, <1>3, <2>4 DEF MoreInv, MoreOver
  <2> QED BY <1>1, <2>2, <2>3, <2>4 DEF MoreInv
<1>6. SufficientIsCovered'
  BY DEF SufficientIsCovered, Holding
<1>7. FoundInv'
  <2> SUFFICES ASSUME turn.kind \in {"start", "more"} PROVE FoundInv'
    BY DEF FoundInv
  <2>1. (next' \in {"parse", "discover", "research"} \/ (next' = "reflect" /\ ~Outage'))
          => (next \in {"parse", "discover", "research"} \/ (next = "reflect" /\ ~Outage))
    BY <1>1, <1>3 DEF Later, Nodes
  <2>2. (next' \in {"parse", "discover", "research"} \/ (next' = "reflect" /\ ~Outage'))
          => DOMAIN st.acts \cup DOMAIN st.base \subseteq turn.before \cup DOMAIN st.judged
    BY <2>1 DEF FoundInv
  <2>3. \A g \in st.eval.covered :
          g \in Goals /\ Cardinality(Holding(turn.before \cup DOMAIN st.judged, g)) >= TargetCount[g]
    BY DEF FoundInv
  <2>4. st.stop = "quality_sufficient" => next' \in Later
    BY <1>3 DEF FoundInv
  <2> QED BY <2>2, <2>3, <2>4 DEF FoundInv
<1> QED BY <1>2, <1>4, <1>5, <1>6, <1>7

-----------------------------------------------------------------------------
(* Commands.                                                                *)

LEMMA CommandIs ==
  ASSUME NEW kind, NEW before, NEW node, Command(kind, before, node)
  PROVE  /\ DOMAIN turn' = DOMAIN NoTurn /\ turn'.kind = kind /\ turn'.before = before
         /\ turn'.rounds = 0 /\ turn'.raised = FALSE /\ next' = node
BY DEF Command, NoTurn

LEMMA StartKeeps ==
  ASSUME GraphInv, NEW hard \in BOOLEAN, Start(hard)
  PROVE  GraphInv'
<1>1. st' = InitialState(hard) /\ next' = "parse"
  BY CommandIs DEF Start
<1>2. /\ DOMAIN turn' = DOMAIN NoTurn /\ turn'.kind = "start" /\ turn'.before = {} /\ turn'.rounds = 0
  BY CommandIs DEF Start
<1>3. /\ DOMAIN st' = DOMAIN InitialState(FALSE) /\ st'.acts = None /\ st'.base = None
      /\ st'.judged = None /\ st'.round = None /\ st'.feedback = FALSE /\ st'.active = FALSE
      /\ st'.hard = hard /\ DOMAIN st'.research = {"provider", "live", "sources"}
      /\ st'.eval.covered = {} /\ st'.stop = "none"
  BY <1>1 DEF InitialState, NotEvaluated
<1>4. Shape'
  <2>1. Truthful(st.acts)' /\ Truthful(st.base)' /\ Truthful(st.judged)' /\ Truthful(st.round)'
    BY <1>3, NoneIsEmpty
  <2>2. turn'.rounds \in Nat /\ turn'.before \in SUBSET Titles
    BY <1>2
  <2> QED BY <1>2, <1>3, <2>1, <2>2 DEF Shape
<1>5. FoundInv' /\ SufficientIsCovered'
  BY <1>2, <1>3, NoneIsEmpty DEF FoundInv, SufficientIsCovered
<1> QED BY <1>2, <1>4, <1>5 DEF GraphInv, MoreInv, More, ExtensionInv, OutageInv, NewInv

LEMMA ReplanKeeps ==
  ASSUME GraphInv, Resume \/ \E node \in ReplanFrom : Replan(node)
  PROVE  GraphInv'
<1>1. /\ st' = st /\ DOMAIN turn' = DOMAIN NoTurn /\ turn'.kind \in {"resume", "replan"}
      /\ turn'.before = DOMAIN st.acts /\ turn'.rounds = 0
  BY CommandIs DEF Resume, Replan
<1>3. DOMAIN st.acts \in SUBSET Titles
  BY DEF GraphInv, Shape, Truthful
<1>2. Shape'
  <2>1. Truthful(st.acts)' /\ Truthful(st.base)' /\ Truthful(st.judged)' /\ Truthful(st.round)'
    BY <1>1 DEF GraphInv, Shape
  <2>2. turn'.rounds \in Nat /\ turn'.before \in SUBSET Titles
    BY <1>1, <1>3
  <2>3. st'.feedback \in BOOLEAN /\ st'.active \in BOOLEAN /\ st'.hard \in BOOLEAN
    BY <1>1 DEF GraphInv, Shape
  <2> QED BY <1>1, <2>1, <2>2, <2>3 DEF GraphInv, Shape
<1> QED BY <1>1, <1>2
        DEF GraphInv, MoreInv, More, ExtensionInv, OutageInv, NewInv, FoundInv, SufficientIsCovered

LEMMA PrepareKeeps ==
  ASSUME GraphInv, NEW mode, NEW locked, PrepareResearchMore(mode, locked)
  PROVE  GraphInv'
<1>1. /\ next' = "reflect" /\ waiting' = FALSE
      /\ st' = [st EXCEPT !.feedback = TRUE, !.loop = 0, !.continue = FALSE, !.active = FALSE,
                      !.base = None, !.round = None, !.raw = FALSE, !.judged = None,
                      !.improved = FALSE, !.personalized = FALSE, !.outcome = "searching",
                      !.eval = NotEvaluated, !.stop = "none", !.started = FALSE,
                      !.exhausted = FALSE, !.mode = mode, !.locked = locked]
  BY CommandIs DEF PrepareResearchMore
<1>2. /\ DOMAIN turn' = DOMAIN NoTurn /\ turn'.kind = "more" /\ turn'.before = DOMAIN st.acts
      /\ turn'.rounds = 0 /\ turn'.raised = FALSE
  BY CommandIs DEF PrepareResearchMore
<1>3. /\ DOMAIN st' = DOMAIN InitialState(FALSE) /\ st'.acts = st.acts /\ st'.base = None
      /\ st'.judged = None /\ st'.round = None /\ st'.feedback = TRUE /\ st'.active = FALSE
      /\ st'.hard = st.hard /\ st'.research = st.research /\ st'.loop = 0
      /\ st'.eval = NotEvaluated /\ st'.stop = "none" /\ st'.exhausted = FALSE
      /\ st'.improved = FALSE /\ st'.outcome = "searching" /\ st'.locked = locked
  BY <1>1 DEF GraphInv, Shape, InitialState
<1>4. NotEvaluated.failure = "none" /\ NotEvaluated.covered = {}
  BY DEF NotEvaluated
<1>5. DOMAIN st.acts \in SUBSET Titles
  BY DEF GraphInv, Shape, Truthful
<1>6. Shape'
  <2>1. Truthful(st.acts)' /\ Truthful(st.base)' /\ Truthful(st.judged)' /\ Truthful(st.round)'
    BY <1>3, NoneIsEmpty DEF GraphInv, Shape
  <2>2. turn'.rounds \in Nat /\ turn'.before \in SUBSET Titles
    BY <1>2, <1>5
  <2> QED BY <1>2, <1>3, <2>1, <2>2 DEF GraphInv, Shape
<1>7. MoreInv'
  BY <1>1, <1>2, <1>3, <1>4 DEF MoreInv, MoreAsked
<1>8. ExtensionInv'
  BY <1>2, <1>3, <1>5, KeepsWhole DEF ExtensionInv
<1>9. OutageInv' /\ NewInv'
  BY <1>2, <1>3 DEF OutageInv, NewInv
<1>10. FoundInv' /\ SufficientIsCovered'
  BY <1>1, <1>2, <1>3, <1>4, NoneIsEmpty DEF FoundInv, SufficientIsCovered
<1> QED BY <1>6, <1>7, <1>8, <1>9, <1>10 DEF GraphInv

LEMMA ContinueKeeps == ASSUME GraphInv, Continue PROVE GraphInv'
<1>1. UNCHANGED <<st, turn>> /\ next' = next /\ waiting' = waiting /\ (st.feedback \/ st.active)
  BY DEF Continue
<1>2. More => ~waiting
  BY <1>1 DEF GraphInv, MoreInv, MoreAsked, MoreSearching, MoreOver
<1> QED BY <1>1, <1>2, QuietKeeps

-----------------------------------------------------------------------------
(* Rounds of research.                                                      *)

\* A turn that searches for more measures its rounds against the plan it began
\* with.
LEMMA BaselineIsBefore ==
  ASSUME GraphInv, More, next = "research"
  PROVE  /\ turn.before = {} \/ turn.before = DOMAIN Baseline
         /\ st.active /\ ~st.feedback /\ ~Outage /\ ~waiting
<1>1. MoreSearching
  BY DEF GraphInv, MoreInv, MoreAsked, MoreOver, Later
<1>2. ~waiting
  BY DEF GraphInv, MoreInv
<1> QED BY <1>1, <1>2 DEF MoreSearching, BaseIsBefore, Baseline

LEMMA BaselineIs ==
  ASSUME GraphInv
  PROVE  Truthful(Baseline) /\ Truthful(Fallback) /\ DOMAIN Fallback \subseteq DOMAIN Baseline
BY NoneIsEmpty DEF GraphInv, Shape, Baseline, Fallback

\* What holds of every round, whatever it brought.
LEMMA RoundCounts ==
  ASSUME GraphInv, At("research"), NEW raised, CountRound(raised), next' = "reflect", Stay,
         DOMAIN st' = DOMAIN InitialState(FALSE),
         DOMAIN st'.research = {"provider", "live", "sources"},
         Truthful(st'.acts), Truthful(st'.judged), Truthful(st'.round), st'.base = st.base,
         st'.feedback = st.feedback, st'.active = st.active, st'.hard = st.hard,
         st'.stop = st.stop
  PROVE  /\ Shape' /\ MoreInv' /\ SufficientIsCovered'
         /\ turn'.kind = turn.kind /\ turn'.before = turn.before /\ turn'.raised = raised
         /\ turn.kind \in {"start", "more"} => st'.stop # "quality_sufficient"
<1>1. next = "research" /\ live /\ waiting' = waiting
  BY DEF At, Stay
<1>2. /\ DOMAIN turn' = DOMAIN NoTurn /\ turn'.kind = turn.kind /\ turn'.before = turn.before
      /\ turn'.raised = raised /\ turn'.rounds \in Nat /\ turn'.rounds > 0
  <2>1. turn' = [turn EXCEPT !.rounds = IF turn.rounds > MaxLoops + 1 THEN turn.rounds
                                        ELSE turn.rounds + 1, !.raised = raised]
    BY DEF CountRound
  <2>2. DOMAIN turn = {"n", "kind", "before", "rounds", "raised"} /\ turn.rounds \in Nat
    BY DEF GraphInv, Shape, NoTurn
  <2> QED BY <2>1, <2>2, GraphAssumption DEF NoTurn
<1>3. Truthful(st.base)'
  BY DEF GraphInv, Shape
<1>4. Shape'
  <2>1. Truthful(st.acts)' /\ Truthful(st.judged)' /\ Truthful(st.round)'
    OBVIOUS
  <2> QED BY <1>2, <1>3, <2>1 DEF GraphInv, Shape
<1>5. MoreInv'
  <2> SUFFICES ASSUME More' PROVE MoreInv'
    BY DEF MoreInv
  <2>1. More
    BY <1>2 DEF More
  <2>2. MoreSearching /\ ~waiting
    BY <1>1, <2>1 DEF GraphInv, MoreInv, MoreAsked, MoreOver, Later
  <2>3. BaseIsBefore'
    BY <1>2, <2>2 DEF MoreSearching, BaseIsBefore
  <2>4. MoreSearching'
    BY <1>2, <2>2, <2>3 DEF MoreSearching
  <2> QED BY <1>1, <2>2, <2>4 DEF MoreInv
<1>6. turn.kind \in {"start", "more"} => st'.stop # "quality_sufficient"
  BY <1>1 DEF GraphInv, FoundInv, Later
<1>7. SufficientIsCovered'
  BY <1>2, <1>6 DEF SufficientIsCovered
<1> QED BY <1>2, <1>4, <1>5, <1>6, <1>7

LEMMA UnavailableKeeps == ASSUME GraphInv, ResearchUnavailable PROVE GraphInv'
<1>1. /\ st' = [st EXCEPT !.acts = Baseline, !.round = None, !.raw = FALSE, !.judged = None,
                      !.improved = FALSE, !.personalized = FALSE,
                      !.eval = [NotEvaluated EXCEPT !.failure = "provider_unavailable"],
                      !.outcome = "provider_unavailable",
                      !.research = [@ EXCEPT !.provider = "unavailable", !.live = TRUE],
                      !.started = TRUE, !.exhausted = FALSE, !.continue = FALSE]
      /\ At("research") /\ next' = "reflect" /\ CountRound(FALSE) /\ Stay
  BY DEF ResearchUnavailable
<1>2. /\ DOMAIN st' = DOMAIN InitialState(FALSE) /\ st'.acts = Baseline /\ st'.round = None
      /\ st'.judged = None /\ st'.base = st.base /\ st'.feedback = st.feedback
      /\ st'.active = st.active /\ st'.hard = st.hard /\ st'.stop = st.stop
      /\ st'.mode = st.mode /\ st'.locked = st.locked /\ st'.improved = FALSE
      /\ st'.outcome = "provider_unavailable"
      /\ st'.eval = [NotEvaluated EXCEPT !.failure = "provider_unavailable"]
      /\ st'.research = [st.research EXCEPT !.provider = "unavailable", !.live = TRUE]
  BY <1>1 DEF GraphInv, Shape, InitialState
<1>3. /\ DOMAIN st'.research = {"provider", "live", "sources"}
      /\ st'.research.provider = "unavailable" /\ st'.eval.covered = {}
  BY <1>2 DEF GraphInv, Shape, NotEvaluated
<1>4. /\ Shape' /\ MoreInv' /\ SufficientIsCovered'
      /\ turn'.kind = turn.kind /\ turn'.before = turn.before /\ turn'.raised = FALSE
      /\ turn.kind \in {"start", "more"} => st'.stop # "quality_sufficient"
  BY <1>1, <1>2, <1>3, BaselineIs, NoneIsEmpty, RoundCounts, ZenonT(40)
<1>5. next = "research" /\ turn.before \in SUBSET Titles /\ DOMAIN Baseline \in SUBSET Titles
  BY <1>1, BaselineIs DEF At, GraphInv, Shape, Truthful
<1>6. More => turn.before \subseteq DOMAIN st'.acts
  BY <1>2, <1>5, BaselineIsBefore
<1>7. ExtensionInv' /\ OutageInv' /\ NewInv'
  <2>1. More' = More
    BY <1>4 DEF More
  <2>2. More => Keeps(turn.before, st.locked, DOMAIN st'.acts)
    BY <1>2, <1>5, <1>6, KeepsWhole
  <2> QED BY <1>2, <1>4, <1>6, <2>1, <2>2 DEF ExtensionInv, OutageInv, NewInv
<1>8. Outage'
  BY <1>3 DEF Outage
<1>9. FoundInv'
  BY <1>1, <1>3, <1>4, <1>8 DEF FoundInv
<1> QED BY <1>4, <1>7, <1>9 DEF GraphInv

LEMMA RaiseKeeps == ASSUME GraphInv, ResearchRaises PROVE GraphInv'
<1>1. At("research") /\ next' = "reflect" /\ CountRound(TRUE) /\ Stay
  BY DEF ResearchRaises
<1>2. PICK deep : st' = [st EXCEPT !.acts = Fallback, !.improved = FALSE, !.personalized = FALSE,
                        !.outcome = "searching",
                        !.started = @ \/ deep # "skipped",
                        !.exhausted = @ \/ deep \in {"spent", "timeout"}]
  BY DEF ResearchRaises
<1>3. /\ DOMAIN st' = DOMAIN InitialState(FALSE) /\ st'.acts = Fallback /\ st'.round = st.round
      /\ st'.judged = st.judged /\ st'.base = st.base /\ st'.feedback = st.feedback
      /\ st'.active = st.active /\ st'.hard = st.hard /\ st'.stop = st.stop
      /\ st'.mode = st.mode /\ st'.locked = st.locked /\ st'.improved = FALSE
      /\ st'.outcome = "searching" /\ st'.eval = st.eval /\ st'.research = st.research
  BY <1>2 DEF GraphInv, Shape, InitialState
<1>4. /\ Shape' /\ MoreInv' /\ SufficientIsCovered'
      /\ turn'.kind = turn.kind /\ turn'.before = turn.before /\ turn'.raised = TRUE
      /\ turn.kind \in {"start", "more"} => st'.stop # "quality_sufficient"
  <2>1. DOMAIN st'.research = {"provider", "live", "sources"} /\ Truthful(st'.judged) /\ Truthful(st'.round)
    BY <1>3 DEF GraphInv, Shape
  <2> QED BY <1>1, <1>3, <2>1, BaselineIs, RoundCounts
<1>5. next = "research"
  BY <1>1 DEF At
<1>6. More' = More /\ Outage' = Outage
  BY <1>3, <1>4 DEF More, Outage
<1>7. ExtensionInv' /\ NewInv'
  BY <1>3, <1>4 DEF ExtensionInv, NewInv
<1>8. OutageInv'
  BY <1>3, <1>5, <1>6, BaselineIsBefore DEF OutageInv
<1>9. FoundInv'
  <2> SUFFICES ASSUME turn.kind \in {"start", "more"} PROVE FoundInv'
    BY <1>4 DEF FoundInv
  <2>1. DOMAIN st'.acts \cup DOMAIN st'.base \subseteq turn'.before \cup DOMAIN st'.judged
    <3>1. DOMAIN Baseline \subseteq DOMAIN st.acts \cup DOMAIN st.base
      BY DEF Baseline
    <3> QED BY <1>3, <1>4, <1>5, <3>1, BaselineIs DEF GraphInv, FoundInv
  <2>2. \A g \in st'.eval.covered :
          g \in Goals /\ Cardinality(Holding(turn'.before \cup DOMAIN st'.judged, g)) >= TargetCount[g]
    BY <1>3, <1>4 DEF GraphInv, FoundInv
  <2> QED BY <1>4, <2>1, <2>2 DEF FoundInv, Holding
<1> QED BY <1>4, <1>7, <1>8, <1>9 DEF GraphInv

\* A round's plan and its evaluation, from what was found and judged.
JudgedOf(found, outcome) ==
  Distinct(st.judged, Ranked(Fresh(found), outcome.heard, st.hard, Goals))
EvalOf(found, outcome) ==
  CollectionEvaluation(Distinct(Baseline, JudgedOf(found, outcome)), Goals,
                       BatchEvaluation(Fresh(found), outcome, Goals))

LEMMA RoundOf ==
  ASSUME GraphInv, ResearchRound
  PROVE  \E deep, sources : \E found \in SUBSET Titles : \E outcome \in JudgeOutcomes(Fresh(found)) :
         \E c \in SelectPlan(st.mode, Baseline, Eligible(JudgedOf(found, outcome)), st.locked) :
           st' = RoundResult(deep, found, sources, outcome, c, JudgedOf(found, outcome),
                             EvalOf(found, outcome))
<1>1. PICK deep \in DeepOutcomes \ {"unavailable"}, sources \in BOOLEAN :
        \E found \in SUBSET (IF DeepRan(deep) THEN Titles ELSE Dated) :
        \E outcome \in JudgeOutcomes(Fresh(found)) :
        \E c \in SelectPlan(st.mode, Baseline, Eligible(JudgedOf(found, outcome)), st.locked) :
          st' = RoundResult(deep, found, sources, outcome, c, JudgedOf(found, outcome),
                            EvalOf(found, outcome))
  BY DEF ResearchRound, JudgedOf, EvalOf
<1>2. (IF DeepRan(deep) THEN Titles ELSE Dated) \subseteq Titles
  BY DEF Dated
<1>3. PICK found \in SUBSET Titles : \E outcome \in JudgeOutcomes(Fresh(found)) :
        \E c \in SelectPlan(st.mode, Baseline, Eligible(JudgedOf(found, outcome)), st.locked) :
          st' = RoundResult(deep, found, sources, outcome, c, JudgedOf(found, outcome),
                            EvalOf(found, outcome))
  BY <1>1, <1>2
<1> QED BY <1>3

\* What is judged, and measured, was there before or is judged now.
LEMMA JudgedIs ==
  ASSUME GraphInv, NEW found \in SUBSET Titles, NEW outcome \in JudgeOutcomes(Fresh(found))
  PROVE  /\ Truthful(JudgedOf(found, outcome))
         /\ DOMAIN st.judged \subseteq DOMAIN JudgedOf(found, outcome)
         /\ EvalOf(found, outcome).failure # "provider_unavailable"
         /\ \A g \in EvalOf(found, outcome).covered :
              /\ g \in Goals
              /\ Cardinality(Holding(DOMAIN Baseline \cup DOMAIN JudgedOf(found, outcome), g))
                   >= TargetCount[g]
<1> DEFINE ranked == Ranked(Fresh(found), outcome.heard, st.hard, Goals)
           judged == JudgedOf(found, outcome)
           all == Distinct(Baseline, judged)
           batch == BatchEvaluation(Fresh(found), outcome, Goals)
<1>1. Fresh(found) \in SUBSET Titles /\ outcome.heard \in SUBSET Fresh(found)
  BY DEF Fresh, JudgeOutcomes
<1>2. Truthful(ranked) /\ \A t \in outcome.heard : Meets[t] # {} => t \in DOMAIN ranked
  BY <1>1, RankedIs DEF GraphInv, Shape
<1> HIDE DEF ranked
<1>3. Truthful(judged) /\ DOMAIN judged = DOMAIN st.judged \cup DOMAIN ranked
  <2>1. judged = Distinct(st.judged, ranked)
    BY DEF JudgedOf, ranked
  <2> HIDE DEF judged
  <2> QED BY <1>2, <2>1, DistinctIs DEF GraphInv, Shape
<1>4. Truthful(all) /\ DOMAIN all = DOMAIN Baseline \cup DOMAIN judged
  <2> HIDE DEF judged
  <2> QED BY <1>3, BaselineIs, DistinctIs
<1>5. \A t \in outcome.heard : Meets[t] # {} => t \in DOMAIN all
  BY <1>2, <1>3, <1>4
<1>6. EvalOf(found, outcome) = CollectionEvaluation(all, Goals, batch)
  BY DEF EvalOf
<1>7. batch.failure # "provider_unavailable"
  BY DEF BatchEvaluation, NotEvaluated
<1>8. EvalOf(found, outcome).failure # "provider_unavailable"
  <2> HIDE DEF all, batch
  <2> QED BY <1>6, <1>7 DEF CollectionEvaluation
<1>9. ASSUME NEW g \in EvalOf(found, outcome).covered
      PROVE  g \in Goals /\ Cardinality(Holding(DOMAIN all, g)) >= TargetCount[g]
  <2>1. g \in CollectionEvaluation(all, Goals, BatchEvaluation(Fresh(found), outcome, Goals)).covered
    BY <1>6, <1>9
  <2> HIDE DEF all
  <2> QED BY <1>1, <1>4, <1>5, <2>1, CoverageHolds
<1> QED BY <1>3, <1>4, <1>8, <1>9

LEMMA EligibleIs ==
  ASSUME NEW judged, Truthful(judged)
  PROVE  /\ Truthful(Eligible(judged)) /\ DOMAIN Eligible(judged) \subseteq DOMAIN judged
         /\ Iterative /\ st.mode # "extend" =>
              DOMAIN Eligible(judged) \cap DOMAIN Baseline = {}
<1> DEFINE seen == DOMAIN Baseline \cup st.shownTitles
<1>1. Truthful(Excluding(judged, seen)) /\ DOMAIN Excluding(judged, seen) = DOMAIN judged \ seen
  <2> HIDE DEF seen
  <2> QED BY ExcludingIs
<1> QED BY <1>1 DEF Eligible

LEMMA RoundKeeps == ASSUME GraphInv, ResearchRound PROVE GraphInv'
<1>1. At("research") /\ next' = "reflect" /\ CountRound(FALSE) /\ Stay /\ next = "research"
  BY DEF ResearchRound, At
<1>2. PICK deep, sources : \E found \in SUBSET Titles : \E outcome \in JudgeOutcomes(Fresh(found)) :
        \E c \in SelectPlan(st.mode, Baseline, Eligible(JudgedOf(found, outcome)), st.locked) :
           st' = RoundResult(deep, found, sources, outcome, c, JudgedOf(found, outcome),
                             EvalOf(found, outcome))
  BY RoundOf
<1>3. PICK found \in SUBSET Titles : \E outcome \in JudgeOutcomes(Fresh(found)) :
        \E c \in SelectPlan(st.mode, Baseline, Eligible(JudgedOf(found, outcome)), st.locked) :
           st' = RoundResult(deep, found, sources, outcome, c, JudgedOf(found, outcome),
                             EvalOf(found, outcome))
  BY <1>2
<1>4. PICK outcome \in JudgeOutcomes(Fresh(found)) :
        \E c \in SelectPlan(st.mode, Baseline, Eligible(JudgedOf(found, outcome)), st.locked) :
           st' = RoundResult(deep, found, sources, outcome, c, JudgedOf(found, outcome),
                             EvalOf(found, outcome))
  BY <1>3
<1> DEFINE judged == JudgedOf(found, outcome)
           eval == EvalOf(found, outcome)
<1>5. PICK c \in SelectPlan(st.mode, Baseline, Eligible(judged), st.locked) :
        st' = RoundResult(deep, found, sources, outcome, c, judged, eval)
  BY <1>4
<1>6. /\ Truthful(judged) /\ DOMAIN st.judged \subseteq DOMAIN judged
      /\ eval.failure # "provider_unavailable"
      /\ \A g \in eval.covered :
           g \in Goals /\ Cardinality(Holding(DOMAIN Baseline \cup DOMAIN judged, g)) >= TargetCount[g]
  BY JudgedIs
<1> HIDE DEF judged, eval
<1>7. /\ Truthful(Eligible(judged)) /\ DOMAIN Eligible(judged) \subseteq DOMAIN judged
      /\ Iterative /\ st.mode # "extend" => DOMAIN Eligible(judged) \cap DOMAIN Baseline = {}
  BY <1>6, EligibleIs
<1>8. /\ Truthful(c.plan) /\ Truthful(c.fresh)
      /\ DOMAIN c.plan \subseteq DOMAIN Baseline \cup DOMAIN Eligible(judged)
      /\ DOMAIN c.fresh \subseteq DOMAIN Eligible(judged)
      /\ st.mode # "extend" => c.plan = c.fresh
      /\ st.mode = "extend" => Keeps(DOMAIN Baseline, st.locked, DOMAIN c.plan)
      /\ c.fresh # None => c.plan # None
  <2> DEFINE eligible == Eligible(judged)
  <2>1. Truthful(eligible) /\ c \in SelectPlan(st.mode, Baseline, eligible, st.locked)
    BY <1>7
  <2> HIDE DEF eligible
  <2>2. /\ Truthful(c.plan) /\ Truthful(c.fresh)
        /\ DOMAIN c.plan \subseteq DOMAIN Baseline \cup DOMAIN eligible
        /\ DOMAIN c.fresh \subseteq DOMAIN eligible
        /\ st.mode # "extend" => c.plan = c.fresh
        /\ st.mode = "extend" => Keeps(DOMAIN Baseline, st.locked, DOMAIN c.plan)
        /\ c.fresh # None => c.plan # None
    BY <2>1, BaselineIs, SelectedIs
  <2> QED BY <2>2 DEF eligible
<1> DEFINE improved == (c.fresh # None /\ ~st.hard)
                         \/ \E t \in DOMAIN c.fresh : c.fresh[t].status = "matched"
<1> DEFINE unverified == /\ c.fresh # None
                         /\ \/ eval.failure # "none"
                            \/ \E t \in DOMAIN c.fresh : c.fresh[t].status = "unknown"
           raw == st.raw \/ Fresh(found) # {}
           personalized == Iterative /\ c.fresh # None /\ eval.matched /\ st.active
           stillLive == st.research.live \/ deep = "spent"
           research == IF DeepRan(deep)
                       THEN [provider |-> "ok", live |-> TRUE, sources |-> sources]
                       ELSE [st.research EXCEPT !.live = stillLive]
           started == st.started \/ deep # "skipped"
           exhausted == st.exhausted \/ deep \in {"spent", "timeout"}
<1>23. st' = [st EXCEPT
              !.acts = IF c.plan # None THEN c.plan ELSE Fallback,
              !.round = c.fresh, !.raw = raw, !.judged = judged, !.improved = improved,
              !.personalized = personalized, !.eval = eval,
              !.outcome = IF unverified THEN "partial_unverified"
                          ELSE IF ~Iterative THEN "initial"
                          ELSE IF improved THEN "improved" ELSE "searching",
              !.research = research, !.started = started, !.exhausted = exhausted]
  BY <1>5 DEF RoundResult
<1> HIDE DEF raw, personalized, stillLive, started, exhausted
<1>24. /\ DOMAIN research = {"provider", "live", "sources"}
       /\ research.provider \in {"ok", st.research.provider}
  BY DEF GraphInv, Shape
<1> HIDE DEF research
<1> HIDE DEF unverified, improved
<1>9. /\ DOMAIN st' = DOMAIN InitialState(FALSE)
      /\ st'.acts = (IF c.plan # None THEN c.plan ELSE Fallback) /\ st'.round = c.fresh
      /\ st'.judged = judged /\ st'.base = st.base /\ st'.feedback = st.feedback
      /\ st'.active = st.active /\ st'.hard = st.hard /\ st'.stop = st.stop
      /\ st'.mode = st.mode /\ st'.locked = st.locked /\ st'.eval = eval
      /\ st'.improved = improved /\ st'.research = research
      /\ st'.outcome \in {"partial_unverified", "initial", "improved", "searching"}
      /\ st'.outcome = "improved" => improved
  BY <1>23 DEF GraphInv, Shape, InitialState
<1>10. improved => c.fresh # None
  BY NoneIsEmpty DEF improved
<1>11. /\ DOMAIN st'.research = {"provider", "live", "sources"}
       /\ st'.research.provider \in {"ok", st.research.provider}
  BY <1>9, <1>24
<1>12. Truthful(st'.acts) /\ Truthful(st'.judged) /\ Truthful(st'.round)
  BY <1>6, <1>8, <1>9, BaselineIs
<1>13. /\ Shape' /\ MoreInv' /\ SufficientIsCovered'
       /\ turn'.kind = turn.kind /\ turn'.before = turn.before /\ turn'.raised = FALSE
       /\ turn.kind \in {"start", "more"} => st'.stop # "quality_sufficient"
  BY <1>1, <1>9, <1>11, <1>12, RoundCounts
<1>14. More' = More
  BY <1>13 DEF More
<1>15. /\ turn.before \in SUBSET Titles /\ DOMAIN Baseline \in SUBSET Titles
       /\ DOMAIN st'.acts \in SUBSET Titles
  BY <1>12, BaselineIs DEF GraphInv, Shape, Truthful
<1>16. ASSUME More, st.mode = "extend" PROVE Keeps(turn.before, st.locked, DOMAIN st'.acts)
  <2>1. CASE turn.before = {}
    BY <1>15, <2>1, KeepsWhole
  <2>2. CASE turn.before = DOMAIN Baseline /\ c.plan # None
    BY <1>8, <1>9, <1>16, <2>2
  <2>3. CASE turn.before = DOMAIN Baseline /\ c.plan = None
    <3>1. Keeps(turn.before, st.locked, DOMAIN None)
      BY <1>8, <1>16, <2>3
    <3>2. DOMAIN None \in SUBSET Titles /\ DOMAIN None \subseteq DOMAIN st'.acts
      BY NoneIsEmpty
    <3> QED BY <1>15, <3>1, <3>2, KeepsMore
  <2> QED BY <1>1, <1>16, <2>1, <2>2, <2>3, BaselineIsBefore
<1>17. ExtensionInv'
  BY <1>9, <1>13, <1>14, <1>16 DEF ExtensionInv
<1>18. More => ~Outage'
  BY <1>1, <1>6, <1>9, <1>11, BaselineIsBefore DEF Outage
<1>19. OutageInv'
  BY <1>9, <1>14, <1>18 DEF OutageInv
<1>20. ASSUME More, st.mode # "extend", improved PROVE ~(DOMAIN st'.acts \subseteq turn.before)
  <2>1. /\ st'.acts = c.fresh /\ DOMAIN c.fresh # {}
    BY <1>8, <1>9, <1>10, <1>20, NoneIsEmpty
  <2>2. Iterative
    BY <1>1, <1>20, BaselineIsBefore DEF Iterative
  <2>3. DOMAIN c.fresh \cap DOMAIN Baseline = {}
    BY <1>7, <1>8, <1>20, <2>2
  <2> QED BY <1>1, <1>20, <2>1, <2>3, BaselineIsBefore
<1>21. NewInv'
  BY <1>9, <1>13, <1>14, <1>20 DEF NewInv
<1>22. FoundInv'
  <2> SUFFICES ASSUME turn.kind \in {"start", "more"} PROVE FoundInv'
    BY <1>13 DEF FoundInv
  <2>1. DOMAIN Baseline \subseteq turn.before \cup DOMAIN st.judged
    BY <1>1 DEF GraphInv, FoundInv, Baseline
  <2>2. DOMAIN st.base \subseteq turn.before \cup DOMAIN st.judged
    BY <1>1 DEF GraphInv, FoundInv
  <2>3. DOMAIN st'.acts \subseteq DOMAIN Baseline \cup DOMAIN judged
    BY <1>7, <1>8, <1>9, BaselineIs
  <2>4. DOMAIN st'.acts \cup DOMAIN st'.base \subseteq turn'.before \cup DOMAIN st'.judged
    BY <1>6, <1>9, <1>13, <2>1, <2>2, <2>3
  <2>5. ASSUME NEW g \in st'.eval.covered
        PROVE  /\ g \in Goals
               /\ Cardinality(Holding(turn'.before \cup DOMAIN st'.judged, g)) >= TargetCount[g]
    <3> DEFINE small == Holding(DOMAIN Baseline \cup DOMAIN judged, g)
               large == Holding(turn.before \cup DOMAIN judged, g)
    <3>1. g \in Goals /\ Cardinality(small) >= TargetCount[g]
      BY <1>6, <1>9, <2>5
    <3>2. small \in SUBSET large /\ large \in SUBSET Titles
      BY <1>6, <1>15, <2>1 DEF Holding, Truthful
    <3> HIDE DEF small, large
    <3>3. Cardinality(small) <= Cardinality(large)
      BY <3>2, TitlesFinite, FS_Subset
    <3>4. Cardinality(small) \in Nat /\ Cardinality(large) \in Nat /\ TargetCount[g] \in Nat
      BY <3>1, <3>2, TitlesFinite, FS_Subset, JudgeAssumption
    <3>5. Cardinality(large) >= TargetCount[g]
      BY <3>1, <3>3, <3>4
    <3> QED BY <1>9, <1>13, <3>1, <3>5 DEF large
  <2> QED BY <1>13, <2>4, <2>5 DEF FoundInv, Holding
<1> QED BY <1>13, <1>17, <1>19, <1>21, <1>22 DEF GraphInv

-----------------------------------------------------------------------------
(* Reflection.                                                              *)

\* What no way to reflect changes, and what the ways have in common.
ReflectShape ==
  /\ next = "reflect" /\ UNCHANGED <<turn, live, waiting>>
  /\ DOMAIN st' = DOMAIN InitialState(FALSE)
  /\ st'.judged = st.judged /\ st'.eval = st.eval /\ st'.research = st.research
  /\ st'.hard = st.hard /\ st'.mode = st.mode /\ st'.locked = st.locked
  /\ Truthful(st'.acts) /\ Truthful(st'.base) /\ Truthful(st'.round)
  /\ st'.feedback \in BOOLEAN /\ st'.active \in BOOLEAN

LEMMA ReflectCases ==
  ASSUME GraphInv, More, next = "reflect"
  PROVE  (MoreAsked \/ MoreSearching) /\ ~waiting
BY DEF GraphInv, MoreInv, MoreOver, Later

\* A way that ends the research of the turn.
LEMMA EndKeeps ==
  ASSUME GraphInv, ReflectShape, next' = "transport",
         ~st'.feedback, ~st'.active,
         More => MoreSearching \/ st.research.provider = "unavailable",
         (More /\ st.mode = "extend" /\ ~turn.raised) =>
           Keeps(turn.before, st.locked, DOMAIN st'.acts),
         (More /\ st'.outcome = "provider_unavailable") => turn.before \subseteq DOMAIN st'.acts,
         (More /\ st.mode # "extend" /\ st'.outcome = "improved") =>
           ~(DOMAIN st'.acts \subseteq turn.before),
         (st.hard /\ st'.stop = "quality_sufficient" /\ turn.kind \in {"start", "more"}) =>
           \A g \in Goals : g \in st.eval.covered
  PROVE  GraphInv'
<1>1. Shape'
  <2>1. Truthful(st.acts)' /\ Truthful(st.base)' /\ Truthful(st.judged)' /\ Truthful(st.round)'
    BY DEF GraphInv, Shape, ReflectShape
  <2> QED BY <2>1 DEF GraphInv, Shape, ReflectShape
<1>2. turn' = turn /\ More' = More /\ "transport" \in Later
  BY DEF ReflectShape, More, Later, Nodes
<1>3. MoreInv'
  <2> SUFFICES ASSUME More PROVE MoreInv'
    BY <1>2 DEF MoreInv
  <2>1. ~waiting
    BY ReflectCases DEF ReflectShape
  <2>2. MoreOver'
    BY <1>2 DEF MoreOver, MoreSearching, ReflectShape
  <2> QED BY <2>1, <2>2 DEF MoreInv, ReflectShape
<1>4. ExtensionInv' /\ OutageInv' /\ NewInv'
  BY <1>2 DEF ExtensionInv, OutageInv, NewInv, ReflectShape
<1>5. FoundInv'
  BY <1>2 DEF GraphInv, FoundInv, ReflectShape, Holding
<1>6. SufficientIsCovered'
  BY <1>2 DEF GraphInv, FoundInv, SufficientIsCovered, ReflectShape, Holding
<1> QED BY <1>1, <1>3, <1>4, <1>5, <1>6 DEF GraphInv

\* A way that goes on to another round.
LEMMA AgainKeeps ==
  ASSUME GraphInv, ReflectShape, next' = "research", ~Outage,
         st'.acts = st.acts, st'.base \in {st.base, st.acts}, st'.outcome = st.outcome,
         st'.stop = "continue_for_gap",
         More => ~st'.feedback /\ st'.active /\ BaseIsBefore'
  PROVE  GraphInv'
<1>1. Shape'
  <2>1. Truthful(st.acts)' /\ Truthful(st.base)' /\ Truthful(st.judged)' /\ Truthful(st.round)'
    BY DEF GraphInv, Shape, ReflectShape
  <2> QED BY <2>1 DEF GraphInv, Shape, ReflectShape
<1>2. turn' = turn /\ More' = More /\ Outage' = Outage
  BY DEF ReflectShape, More, Outage
<1>3. MoreInv'
  <2> SUFFICES ASSUME More PROVE MoreInv'
    BY <1>2 DEF MoreInv
  <2>1. ~waiting
    BY ReflectCases DEF ReflectShape
  <2>2. MoreSearching'
    BY <1>2 DEF MoreSearching
  <2> QED BY <2>1, <2>2 DEF MoreInv, ReflectShape
<1>4. ExtensionInv' /\ OutageInv' /\ NewInv'
  BY <1>2 DEF GraphInv, ExtensionInv, OutageInv, NewInv, ReflectShape
<1>5. FoundInv'
  <2> SUFFICES ASSUME turn.kind \in {"start", "more"} PROVE FoundInv'
    BY <1>2 DEF FoundInv
  <2>1. DOMAIN st'.acts \cup DOMAIN st'.base \subseteq turn'.before \cup DOMAIN st'.judged
    BY <1>2 DEF GraphInv, FoundInv, ReflectShape
  <2> QED BY <1>2, <2>1 DEF GraphInv, FoundInv, ReflectShape, Holding
<1>6. SufficientIsCovered'
  BY DEF SufficientIsCovered
<1> QED BY <1>1, <1>3, <1>4, <1>5, <1>6 DEF GraphInv

LEMMA DecidingIs ==
  ASSUME Deciding
  PROVE  next = "reflect" /\ UNCHANGED <<turn, live, waiting>>
BY DEF Deciding, At, Stay

LEMMA OutageKeeps == ASSUME GraphInv, ReflectOutage PROVE GraphInv'
<1>1. /\ Deciding /\ Outage /\ next' = "transport"
      /\ st' = [st EXCEPT !.continue = FALSE, !.feedback = FALSE, !.active = FALSE,
                      !.base = None, !.round = None, !.outcome = "provider_unavailable",
                      !.stop = "provider_unavailable"]
  BY DEF ReflectOutage, Ends
<1>2. /\ ReflectShape /\ st'.acts = st.acts /\ ~st'.feedback /\ ~st'.active
      /\ st'.outcome = "provider_unavailable" /\ st'.stop = "provider_unavailable"
  BY <1>1, DecidingIs, NoneIsEmpty DEF ReflectShape, GraphInv, Shape, InitialState
<1>3. next = "reflect"
  BY <1>1, DecidingIs
<1>4. More => MoreSearching \/ st.research.provider = "unavailable"
  BY <1>1, <1>3, ReflectCases DEF MoreAsked, Outage
<1> QED BY <1>1, <1>2, <1>3, <1>4, EndKeeps DEF GraphInv, ExtensionInv, OutageInv

\* The first reflect of a turn for more goes on to its feedback.
LEMMA AskedGoesOn ==
  ASSUME GraphInv, More, MoreAsked, ~Outage
  PROVE  ~Unverified /\ ~st.exhausted /\ ~NoGain /\ ~Enough /\ st.loop < MaxLoops
BY GraphAssumption DEF MoreAsked, Unverified, NoGain, Enough

LEMMA UnverifiedKeeps == ASSUME GraphInv, ReflectUnverified PROVE GraphInv'
<1>1. /\ Deciding /\ ~Outage /\ Unverified /\ next' = "transport"
      /\ st' = [st EXCEPT !.continue = FALSE, !.feedback = FALSE, !.active = FALSE,
                      !.base = None, !.improved = FALSE, !.outcome = "partial_unverified",
                      !.shownIds = Shown.ids, !.shownTitles = Shown.titles,
                      !.stop = st.eval.failure]
  BY DEF ReflectUnverified, Ends
<1>2. /\ ReflectShape /\ st'.acts = st.acts /\ ~st'.feedback /\ ~st'.active
      /\ st'.outcome = "partial_unverified" /\ st'.stop = st.eval.failure
  BY <1>1, DecidingIs, NoneIsEmpty DEF ReflectShape, GraphInv, Shape, InitialState
<1>3. st'.stop # "quality_sufficient"
  BY <1>1, <1>2 DEF Unverified
<1>4. More => MoreSearching
  BY <1>1, DecidingIs, ReflectCases, AskedGoesOn
<1> QED BY <1>1, <1>2, <1>3, <1>4, EndKeeps DEF GraphInv, ExtensionInv

LEMMA SpentKeeps == ASSUME GraphInv, ReflectSpent PROVE GraphInv'
<1>1. /\ Deciding /\ ~Outage /\ ~Unverified /\ st.exhausted /\ next' = "transport"
      /\ st' = [st EXCEPT !.continue = FALSE, !.feedback = FALSE, !.active = FALSE,
                      !.stop = "budget_exhausted"]
  BY DEF ReflectSpent, Ends
<1>2. /\ ReflectShape /\ st'.acts = st.acts /\ ~st'.feedback /\ ~st'.active
      /\ st'.outcome = st.outcome /\ st'.stop = "budget_exhausted"
  BY <1>1, DecidingIs, NoneIsEmpty DEF ReflectShape, GraphInv, Shape, InitialState
<1>3. More => MoreSearching
  BY <1>1, DecidingIs, ReflectCases, AskedGoesOn
<1> QED BY <1>1, <1>2, <1>3, EndKeeps DEF GraphInv, ExtensionInv, OutageInv, NewInv

LEMMA RerankedKeeps == ASSUME GraphInv, ReflectReranked PROVE GraphInv'
<1>1. /\ Deciding /\ ~Outage /\ NoGain /\ next' = "transport"
      /\ st' = [st EXCEPT !.continue = FALSE, !.active = FALSE, !.base = None, !.round = None,
                      !.outcome = "reranked", !.stop = "personalized_rerank",
                      !.shownIds = Shown.ids, !.shownTitles = Shown.titles]
  BY DEF ReflectReranked, Judging, Ends
<1>2. /\ ReflectShape /\ st'.acts = st.acts /\ ~st'.feedback /\ ~st'.active
      /\ st'.outcome = "reranked" /\ st'.stop = "personalized_rerank"
  BY <1>1, DecidingIs, NoneIsEmpty DEF ReflectShape, GraphInv, Shape, InitialState, NoGain
<1>3. More => MoreSearching
  BY <1>1, DecidingIs, ReflectCases, AskedGoesOn
<1> QED BY <1>1, <1>2, <1>3, EndKeeps DEF GraphInv, ExtensionInv

\* The plan the turn began with satisfies what an extension owes.
LEMMA BaseKeeps ==
  ASSUME GraphInv, MoreSearching, st.base # None \/ turn.before = {}, NEW titles \in SUBSET Titles,
         titles = DOMAIN st.base \/ turn.before = {}
  PROVE  Keeps(turn.before, st.locked, titles)
<1>1. turn.before \in SUBSET Titles
  BY DEF GraphInv, Shape
<1>2. turn.before \subseteq titles
  BY DEF MoreSearching, BaseIsBefore
<1> QED BY <1>1, <1>2, KeepsWhole

LEMMA NoBetterKeeps == ASSUME GraphInv, ReflectNoBetter PROVE GraphInv'
<1>1. /\ Deciding /\ ~Outage /\ NoGain /\ next' = "transport"
      /\ st' = [st EXCEPT !.acts = IF st.base # None THEN st.base ELSE @,
                      !.continue = FALSE, !.active = FALSE, !.base = None, !.round = None,
                      !.outcome = "no_better_alternatives", !.stop = "max_loops",
                      !.shownIds = Shown.ids, !.shownTitles = Shown.titles]
  BY DEF ReflectNoBetter, Judging, Ends
<1>2. /\ DOMAIN st' = DOMAIN InitialState(FALSE)
      /\ st'.acts = (IF st.base # None THEN st.base ELSE st.acts)
      /\ st'.base = None /\ st'.round = None /\ st'.feedback = st.feedback /\ st'.active = FALSE
      /\ st'.judged = st.judged /\ st'.eval = st.eval /\ st'.research = st.research
      /\ st'.hard = st.hard /\ st'.mode = st.mode /\ st'.locked = st.locked
      /\ st'.outcome = "no_better_alternatives" /\ st'.stop = "max_loops"
  BY <1>1 DEF GraphInv, Shape, InitialState
<1>3. Truthful(st'.acts) /\ st'.feedback = FALSE
  BY <1>1, <1>2 DEF GraphInv, Shape, NoGain
<1>4. ReflectShape
  BY <1>1, <1>2, <1>3, DecidingIs, NoneIsEmpty DEF ReflectShape
<1>5. More => MoreSearching
  BY <1>1, DecidingIs, ReflectCases, AskedGoesOn
<1>6. More => Keeps(turn.before, st.locked, DOMAIN st'.acts)
  <2>1. DOMAIN st'.acts \in SUBSET Titles
    BY <1>3 DEF Truthful
  <2> QED BY <1>2, <1>5, <2>1, BaseKeeps DEF MoreSearching, BaseIsBefore
<1> QED BY <1>1, <1>2, <1>3, <1>4, <1>5, <1>6, EndKeeps

LEMMA RetryKeeps == ASSUME GraphInv, ReflectRetry PROVE GraphInv'
<1>1. /\ Deciding /\ ~Outage /\ NoGain /\ next' = "research"
      /\ st' = [st EXCEPT !.continue = TRUE, !.loop = @ + 1, !.followUp = TRUE,
                      !.stop = "continue_for_gap"]
  BY DEF ReflectRetry, Judging
<1>2. /\ ReflectShape /\ st'.acts = st.acts /\ st'.base = st.base /\ st'.outcome = st.outcome
      /\ st'.stop = "continue_for_gap" /\ st'.feedback = st.feedback /\ st'.active = st.active
  BY <1>1, DecidingIs DEF ReflectShape, GraphInv, Shape, InitialState
<1>3. More => MoreSearching
  BY <1>1, DecidingIs, ReflectCases, AskedGoesOn
<1>4. More => ~st'.feedback /\ st'.active /\ BaseIsBefore'
  BY <1>2, <1>3 DEF MoreSearching, BaseIsBefore, ReflectShape
<1> QED BY <1>1, <1>2, <1>4, AgainKeeps

LEMMA SufficientKeeps == ASSUME GraphInv, ReflectSufficient PROVE GraphInv'
<1>1. /\ Deciding /\ ~Outage /\ ~NoGain /\ Enough /\ next' = "transport"
      /\ st' = [st EXCEPT !.continue = FALSE, !.active = FALSE, !.base = None, !.round = None,
                      !.outcome = IF st.active THEN "improved" ELSE @,
                      !.stop = "quality_sufficient",
                      !.shownIds = Shown.ids, !.shownTitles = Shown.titles]
  BY DEF ReflectSufficient, Judging, Ends
<1>2. /\ ReflectShape /\ st'.acts = st.acts /\ ~st'.feedback /\ ~st'.active
      /\ st'.outcome = (IF st.active THEN "improved" ELSE st.outcome)
      /\ st'.stop = "quality_sufficient"
  BY <1>1, DecidingIs, NoneIsEmpty DEF ReflectShape, GraphInv, Shape, InitialState, Enough
<1>3. More => MoreSearching
  BY <1>1, DecidingIs, ReflectCases, AskedGoesOn
<1>4. st.active => st.improved
  BY <1>1 DEF NoGain, Enough
<1>5. (st.hard /\ turn.kind \in {"start", "more"}) => \A g \in Goals : g \in st.eval.covered
  BY <1>1 DEF Enough, Sufficient, Goal
<1>6. next = "reflect"
  BY <1>1, DecidingIs
<1> QED BY <1>1, <1>2, <1>3, <1>4, <1>5, <1>6, EndKeeps
        DEF GraphInv, ExtensionInv, OutageInv, NewInv, MoreSearching

LEMMA MaxLoopsKeeps == ASSUME GraphInv, ReflectMaxLoops PROVE GraphInv'
<1>1. /\ Deciding /\ ~Outage /\ ~NoGain /\ ~Enough /\ st.loop >= MaxLoops /\ next' = "transport"
      /\ st' = [st EXCEPT !.acts = IF st.mode = "extend" THEN @
                               ELSE IF st.personalized /\ st.round = None THEN @
                               ELSE IF st.round # None THEN st.round
                               ELSE IF st.base # None THEN st.base ELSE @,
                      !.continue = FALSE, !.feedback = FALSE, !.active = FALSE,
                      !.base = None, !.round = None,
                      !.outcome = IF ~st.active THEN @
                                  ELSE IF st.personalized THEN "reranked"
                                  ELSE "no_better_alternatives",
                      !.stop = "max_loops",
                      !.shownIds = Shown.ids, !.shownTitles = Shown.titles]
  BY DEF ReflectMaxLoops, Judging, Ends
<1>2. /\ DOMAIN st' = DOMAIN InitialState(FALSE)
      /\ st'.acts \in {st.acts, st.round, st.base}
      /\ st.mode = "extend" => st'.acts = st.acts
      /\ st'.base = None /\ st'.round = None /\ st'.feedback = FALSE /\ st'.active = FALSE
      /\ st'.judged = st.judged /\ st'.eval = st.eval /\ st'.research = st.research
      /\ st'.hard = st.hard /\ st'.mode = st.mode /\ st'.locked = st.locked
      /\ st.active => st'.outcome \in {"reranked", "no_better_alternatives"}
      /\ st'.stop = "max_loops"
  BY <1>1 DEF GraphInv, Shape, InitialState
<1>3. Truthful(st'.acts)
  BY <1>2 DEF GraphInv, Shape
<1>4. ReflectShape
  BY <1>1, <1>2, <1>3, DecidingIs, NoneIsEmpty DEF ReflectShape
<1>5. More => MoreSearching
  BY <1>1, DecidingIs, ReflectCases, AskedGoesOn, GraphAssumption DEF MoreAsked
<1> QED BY <1>1, <1>2, <1>3, <1>4, <1>5, EndKeeps DEF GraphInv, ExtensionInv, MoreSearching

LEMMA FollowUpKeeps == ASSUME GraphInv, ReflectFollowUp PROVE GraphInv'
<1>1. /\ Deciding /\ ~Outage /\ ~NoGain /\ next' = "research"
      /\ st' = [st EXCEPT !.loop = @ + 1, !.followUp = TRUE, !.continue = TRUE,
                      !.feedback = FALSE, !.active = @ \/ st.feedback,
                      !.base = IF st.feedback THEN st.acts ELSE @,
                      !.round = IF st.feedback THEN None ELSE @,
                      !.stop = "continue_for_gap",
                      !.shownIds = Shown.ids, !.shownTitles = Shown.titles]
  BY DEF ReflectFollowUp, Judging
<1>2. /\ DOMAIN st' = DOMAIN InitialState(FALSE) /\ st'.acts = st.acts
      /\ st'.base = (IF st.feedback THEN st.acts ELSE st.base)
      /\ st'.round \in {None, st.round} /\ st'.feedback = FALSE
      /\ st'.active = (st.active \/ st.feedback)
      /\ st'.judged = st.judged /\ st'.eval = st.eval /\ st'.research = st.research
      /\ st'.hard = st.hard /\ st'.mode = st.mode /\ st'.locked = st.locked
      /\ st'.outcome = st.outcome /\ st'.stop = "continue_for_gap"
  BY <1>1 DEF GraphInv, Shape, InitialState
<1>3. Truthful(st'.acts) /\ Truthful(st'.base) /\ Truthful(st'.round) /\ st'.active \in BOOLEAN
  BY <1>2, NoneIsEmpty DEF GraphInv, Shape
<1>4. ReflectShape
  BY <1>1, <1>2, <1>3, DecidingIs DEF ReflectShape
<1>5. More => ~st'.feedback /\ st'.active /\ BaseIsBefore'
  <2> SUFFICES ASSUME More PROVE ~st'.feedback /\ st'.active /\ BaseIsBefore'
    OBVIOUS
  <2>1. CASE MoreAsked
    BY <1>1, <1>2, <2>1, DecidingIs, NoneIsEmpty, ZenonT(40) DEF MoreAsked, BaseIsBefore
  <2>2. CASE MoreSearching
    BY <1>1, <1>2, <2>2, DecidingIs, ZenonT(40) DEF MoreSearching, BaseIsBefore
  <2> QED BY <1>1, <2>1, <2>2, DecidingIs, ReflectCases
<1> QED BY <1>1, <1>2, <1>4, <1>5, AgainKeeps

-----------------------------------------------------------------------------
(* The whole graph.                                                         *)

\* The nodes after the research, and what may befall them.
LEMMA LaterKeeps ==
  ASSUME GraphInv,
         \/ Parse \/ Discover \/ Transport \/ Hotel \/ Mobility \/ Dining \/ Weather \/ Timeline
         \/ Validate \/ Compose \/ AwaitBooking \/ Booked \/ GateRefuses \/ Crash \/ Elapse
  PROVE  GraphInv'
<1>1. UNCHANGED <<st, turn>>
  BY DEF Parse, Discover, Transport, Hotel, Mobility, Dining, Weather, Timeline, Step, Validate,
         Compose, AwaitBooking, Booked, GateRefuses, Crash, Elapse
<1>2. \/ next' = next \/ (next = "parse" /\ next' = "discover")
      \/ (next = "discover" /\ next' = "research") \/ (next \in Later /\ next' \in Later)
  <2>1. CASE Parse \/ Discover \/ AwaitBooking \/ GateRefuses \/ Crash \/ Elapse
    BY <2>1 DEF Parse, Discover, AwaitBooking, GateRefuses, Crash, Elapse, At
  <2>2. CASE Transport \/ Hotel \/ Mobility \/ Dining \/ Weather \/ Timeline
    BY <2>2 DEF Transport, Hotel, Mobility, Dining, Weather, Timeline, Step, At, Edges, Later, Nodes
  <2>3. CASE Validate \/ Compose \/ Booked
    BY <2>3 DEF Validate, RouteAfterValidate, Compose, Booked, At, Later, Nodes
  <2> QED BY <2>1, <2>2, <2>3
<1>3. More /\ waiting' => next' = "await_booking" /\ ~live'
  <2> SUFFICES ASSUME More, waiting' PROVE next' = "await_booking" /\ ~live'
    OBVIOUS
  <2>1. CASE AwaitBooking
    BY <2>1 DEF AwaitBooking, At
  <2>2. CASE ~AwaitBooking
    <3>1. waiting' = waiting
      BY <2>2 DEF Parse, Discover, Transport, Hotel, Mobility, Dining, Weather, Timeline, Step, Stay,
                  Validate, Compose, Booked, GateRefuses, Crash, Elapse
    <3>2. next = "await_booking" /\ ~live
      BY <3>1 DEF GraphInv, MoreInv
    <3> QED BY <2>2, <3>2
            DEF Parse, Discover, Transport, Hotel, Mobility, Dining, Weather, Timeline, Step, Stay,
                At, Validate, Compose, Booked, GateRefuses, Crash, Elapse
  <2> QED BY <2>1, <2>2
<1> QED BY <1>1, <1>2, <1>3, QuietKeeps

LEMMA GraphKeeps == ASSUME GraphInv, [Next]_vars PROVE GraphInv'
<1>1. CASE Research
  BY <1>1, UnavailableKeeps, RaiseKeeps, RoundKeeps DEF Research
<1>2. CASE Reflect
  BY <1>2, OutageKeeps, UnverifiedKeeps, SpentKeeps, RerankedKeeps, NoBetterKeeps, RetryKeeps,
     SufficientKeeps, MaxLoopsKeeps, FollowUpKeeps DEF Reflect
<1>3. CASE Node /\ ~Research /\ ~Reflect
  BY <1>3, LaterKeeps DEF Node
<1>4. CASE Commands
  BY <1>4, StartKeeps, ReplanKeeps, PrepareKeeps, ContinueKeeps DEF Commands
<1>5. CASE GateRefuses \/ Crash \/ Elapse
  BY <1>5, LaterKeeps
<1>6. CASE UNCHANGED vars
  <2>1. UNCHANGED <<st, turn, next, waiting, live>>
    BY <1>6 DEF vars
  <2>2. More /\ waiting' => next' = "await_booking" /\ ~live'
    BY <2>1 DEF GraphInv, MoreInv
  <2> QED BY <2>1, <2>2, QuietKeeps
<1> QED BY <1>1, <1>2, <1>3, <1>4, <1>5, <1>6 DEF Next

LEMMA GraphInvariant == Spec => []GraphInv
BY InitGraph, GraphKeeps, PTL DEF Spec

-----------------------------------------------------------------------------
\* A request for more research reaches the pause that presents the next plan
\* only after a round, or after an outage (prepare_research_more in graph.py).
THEOREM FeedbackIsServed == Spec => []FeedbackIsSearched
<1>1. GraphInv => FeedbackIsSearched
  BY DEF GraphInv, MoreInv, More, MoreAsked, MoreSearching, MoreOver, FeedbackIsSearched, Paused
<1> QED BY <1>1, GraphInvariant, PTL

\* An extension keeps the titles the user locked, or as many as are kept by
\* default, through rounds that find nothing, time out or lose the provider
\* (_select_plan_candidates in nodes.py).
THEOREM ExtensionsKeepThePlan == Spec => []ExtensionKeepsPlan
<1>1. GraphInv => ExtensionKeepsPlan
  BY DEF GraphInv, ExtensionInv, More, Keeps, ExtensionKeepsPlan, Paused
<1> QED BY <1>1, GraphInvariant, PTL

\* A turn that ends in an outage of the provider shows every activity it began
\* with (research_node and reflect_node in nodes.py).
THEOREM OutagesKeepThePlan == Spec => []OutageKeepsPlan
<1>1. GraphInv => OutageKeepsPlan
  BY DEF GraphInv, OutageInv, More, OutageKeepsPlan, Paused
<1> QED BY <1>1, GraphInvariant, PTL

\* What is reported as improved shows an activity the plan did not have
\* (research_node's eligible candidates in nodes.py).
THEOREM ImprovementsAreNew == Spec => []ImprovementIsNew
<1>1. GraphInv => ImprovementIsNew
  BY DEF GraphInv, NewInv, More, ImprovementIsNew, Paused
<1> QED BY <1>1, GraphInvariant, PTL

\* Research that stops as sufficient has for every required subgoal its number
\* of candidates the judge accepted, in the plan the turn began with or among
\* those it judged (evaluate_collection in semantics.py).
THEOREM SufficientMeansCovered == Spec => []SufficientIsCovered
<1>1. GraphInv => SufficientIsCovered
  BY DEF GraphInv
<1> QED BY <1>1, GraphInvariant, PTL
-----------------------------------------------------------------------------
(* The types of the channels, and how often one turn may search.            *)

\* The rounds of a turn are counted by the loop that allows them; before a
\* round the count still has room for it.
RoundsFit ==
  /\ st.loop \in Nat /\ st.loop <= MaxLoops /\ turn.rounds <= st.loop + 1
  /\ next \in {"parse", "discover", "research"} => turn.rounds <= st.loop

TypeInv ==
  /\ next \in Nodes \cup {"none", "end"} /\ live \in BOOLEAN
  /\ waiting \in BOOLEAN /\ answered \in BOOLEAN
  /\ waiting => next = "await_booking" /\ ~answered
  /\ st.raw \in BOOLEAN /\ st.eval \in Evaluation
  /\ DOMAIN trip = DOMAIN InitialTrip /\ trip.timeline \subseteq Dated /\ over \subseteq Dated

WorkInv == TypeInv /\ RoundsFit

\* A trip begins without a timeline.
LEMMA NoDates == InitialTrip.timeline = {}
BY DEF InitialTrip

LEMMA LoopsAre == MaxLoops \in Nat
BY GraphAssumption

\* What the steps below use of the shapes.
LEMMA ShapesAre ==
  ASSUME GraphInv
  PROVE  /\ DOMAIN st = DOMAIN InitialState(FALSE) /\ turn.rounds \in Nat
         /\ "rounds" \in DOMAIN turn
BY DEF GraphInv, Shape, NoTurn

LEMMA NothingEvaluated ==
  /\ NotEvaluated \in Evaluation
  /\ [NotEvaluated EXCEPT !.failure = "semantic_judge_unavailable"] \in Evaluation
  /\ [NotEvaluated EXCEPT !.failure = "provider_unavailable"] \in Evaluation
BY DEF NotEvaluated, Evaluation, Failures

\* Whatever the judge answers, and whatever was remembered, is an evaluation.
LEMMA EvaluationIs ==
  ASSUME NEW found \in SUBSET Titles, NEW o \in JudgeOutcomes(found), NEW c
  PROVE  CollectionEvaluation(c, Goals, BatchEvaluation(found, o, Goals)) \in Evaluation
<1> DEFINE batch == BatchEvaluation(found, o, Goals)
<1>1. batch \in Evaluation
  <2>1. CoveredBy(o.heard, Goals) \subseteq Goals
    BY DEF CoveredBy
  <2>2. o.failed \in BOOLEAN
    BY DEF JudgeOutcomes
  <2> DEFINE matched == \E t \in o.heard : Matched(t, Goals)
             covered == CoveredBy(o.heard, Goals)
             failure == IF o.failed THEN "semantic_judge_partial" ELSE "none"
  <2>3. matched \in BOOLEAN /\ covered \in SUBSET Goals /\ failure \in Failures
    BY <2>1 DEF Failures
  <2>4. \/ batch = NotEvaluated
        \/ batch = [NotEvaluated EXCEPT !.failure = "semantic_judge_unavailable"]
        \/ batch = [evaluated |-> TRUE, matched |-> matched, covered |-> covered, failure |-> failure]
    BY DEF BatchEvaluation
  <2> HIDE DEF batch, matched, covered, failure
  <2>5. [evaluated |-> TRUE, matched |-> matched, covered |-> covered, failure |-> failure] \in Evaluation
    BY <2>3 DEF Evaluation
  <2> QED BY <2>4, <2>5, NothingEvaluated
<1> DEFINE matched == {t \in DOMAIN c : c[t].status = "matched"}
           some == matched # {}
           evaluated == batch.evaluated \/ some
           covered == {g \in Goals : Cardinality({t \in matched : g \in c[t].goals}) >= TargetCount[g]}
<1>2. \/ CollectionEvaluation(c, Goals, batch) = batch
      \/ CollectionEvaluation(c, Goals, batch)
           = [evaluated |-> evaluated, matched |-> some, covered |-> covered, failure |-> batch.failure]
  <2> HIDE DEF batch
  <2> QED BY DEF CollectionEvaluation
<1>3. evaluated \in BOOLEAN /\ some \in BOOLEAN /\ covered \in SUBSET Goals /\ batch.failure \in Failures
  <2>1. batch.failure \in Failures
    BY <1>1 DEF Evaluation
  <2> QED BY <2>1
<1> HIDE DEF batch, evaluated, some, covered
<1>4. CollectionEvaluation(c, Goals, batch) \in Evaluation
  BY <1>1, <1>2, <1>3 DEF Evaluation
<1> QED BY <1>4 DEF batch

LEMMA InitWork == Init => WorkInv
<1> SUFFICES ASSUME Init PROVE WorkInv
  OBVIOUS
<1>1. /\ next = "none" /\ turn.rounds = 0 /\ st.loop = 0 /\ st.raw = FALSE /\ st.eval = NotEvaluated
      /\ live = FALSE /\ waiting = FALSE /\ answered = FALSE /\ trip = InitialTrip /\ over = {}
  BY DEF Init, InitialState, NoTurn
<1>2. TypeInv
  BY <1>1, NothingEvaluated, NoDates DEF TypeInv
<1>3. RoundsFit
  BY <1>1, LoopsAre DEF RoundsFit
<1> QED BY <1>2, <1>3 DEF WorkInv

\* The edges of the graph, and where a replan goes on.
LEMMA AfterIs ==
  ASSUME NEW node \in ReplanFrom
  PROVE  After(node) \in Nodes \cup {"end"}
<1>1. node \in Nodes
  BY ReplanAssumption
<1> QED BY <1>1 DEF Nodes, After, Edges, RouteAfterReflect, RouteAfterValidate

LEMMA CommandsWork ==
  ASSUME GraphInv, WorkInv, Commands
  PROVE  WorkInv'
<1> USE DEF WorkInv
<1>1. ASSUME NEW hard \in BOOLEAN, Start(hard) PROVE WorkInv'
  <2>1. /\ next' = "parse" /\ live' = TRUE /\ turn'.rounds = 0 /\ waiting' = FALSE /\ answered' = FALSE
        /\ st' = InitialState(hard) /\ trip' = InitialTrip /\ over' = over
    BY <1>1 DEF Start, Command
  <2>2. st'.loop = 0 /\ st'.raw = FALSE /\ st'.eval = NotEvaluated
    BY <2>1 DEF InitialState
  <2>3. TypeInv'
    BY <2>1, <2>2, NothingEvaluated, NoDates DEF TypeInv, Nodes
  <2>4. RoundsFit'
    BY <2>1, <2>2, LoopsAre DEF RoundsFit
  <2> QED BY <2>3, <2>4
<1>2. ASSUME Resume \/ \E node \in ReplanFrom : Replan(node) PROVE WorkInv'
  <2>1. /\ next' \in Nodes \cup {"none", "end"} /\ live' \in BOOLEAN /\ turn'.rounds = 0
        /\ waiting' = FALSE /\ answered' \in BOOLEAN /\ st' = st /\ over' = over
    <3>1. CASE Resume
      BY <1>2, <3>1 DEF Resume, Command, TypeInv
    <3>2. ASSUME NEW node \in ReplanFrom, Replan(node)
          PROVE  /\ next' \in Nodes \cup {"none", "end"} /\ live' \in BOOLEAN /\ turn'.rounds = 0
                 /\ waiting' = FALSE /\ answered' \in BOOLEAN /\ st' = st /\ over' = over
      BY <3>2, AfterIs DEF Replan, Command
    <3> QED BY <1>2, <3>1, <3>2
  <2>2. trip'.timeline = trip.timeline /\ DOMAIN trip' = DOMAIN trip
    BY <1>2 DEF Resume, Replan, TypeInv, InitialTrip
  <2>3. TypeInv'
    BY <2>1, <2>2 DEF TypeInv
  <2>4. RoundsFit'
    BY <2>1 DEF RoundsFit
  <2> QED BY <2>3, <2>4
<1>3. ASSUME NEW mode, NEW locked, PrepareResearchMore(mode, locked) PROVE WorkInv'
  <2>1. /\ next' = "reflect" /\ live' = TRUE /\ turn'.rounds = 0 /\ waiting' = FALSE
        /\ answered' = FALSE /\ trip' = trip /\ over' = over
    BY <1>3 DEF PrepareResearchMore, Command
  <2>2. st'.loop = 0 /\ st'.raw = FALSE /\ st'.eval = NotEvaluated
    BY <1>3, ShapesAre DEF PrepareResearchMore, InitialState
  <2>3. TypeInv'
    BY <2>1, <2>2, NothingEvaluated DEF TypeInv, Nodes
  <2>4. RoundsFit'
    BY <2>1, <2>2, LoopsAre DEF RoundsFit
  <2> QED BY <2>3, <2>4
<1>4. ASSUME Continue PROVE WorkInv'
  BY <1>4 DEF Continue, TypeInv, RoundsFit
<1> QED BY <1>1, <1>2, <1>3, <1>4 DEF Commands

\* A round counts one, and leaves the loop as it is.
LEMMA RoundWorks ==
  ASSUME GraphInv, WorkInv, At("research"), next' = "reflect", NEW raised, CountRound(raised), Stay,
         trip' = trip, st'.loop = st.loop, st'.raw \in BOOLEAN, st'.eval \in Evaluation
  PROVE  WorkInv'
<1>1. next = "research" /\ live /\ UNCHANGED <<live, waiting, answered, over>>
  BY DEF At, Stay
<1>2. turn.rounds \in Nat /\ turn.rounds <= st.loop /\ st.loop \in Nat /\ st.loop <= MaxLoops /\ MaxLoops \in Nat
  BY <1>1, LoopsAre, ShapesAre DEF WorkInv, RoundsFit
<1>3. turn'.rounds = turn.rounds + 1
  <2>1. turn' = [turn EXCEPT !.rounds = IF turn.rounds > MaxLoops + 1 THEN turn.rounds
                                        ELSE turn.rounds + 1, !.raised = raised]
    BY DEF CountRound
  <2>2. "rounds" \in DOMAIN turn
    BY ShapesAre
  <2>3. ~ turn.rounds > MaxLoops + 1
    BY <1>2
  <2> QED BY <2>1, <2>2, <2>3
<1>4. TypeInv'
  BY <1>1 DEF WorkInv, TypeInv, Nodes
<1>5. RoundsFit'
  BY <1>2, <1>3 DEF RoundsFit
<1> QED BY <1>4, <1>5 DEF WorkInv

LEMMA ResearchWorks ==
  ASSUME GraphInv, WorkInv, Research
  PROVE  WorkInv'
<1>0. DOMAIN st = DOMAIN InitialState(FALSE)
  BY ShapesAre
<1>1. CASE ResearchUnavailable
  <2>1. /\ At("research") /\ next' = "reflect" /\ CountRound(FALSE) /\ Stay /\ trip' = trip
        /\ st'.loop = st.loop /\ st'.raw = FALSE
        /\ st'.eval = [NotEvaluated EXCEPT !.failure = "provider_unavailable"]
    BY <1>0, <1>1 DEF ResearchUnavailable, InitialState
  <2> QED BY <2>1, NothingEvaluated, RoundWorks
<1>2. CASE ResearchRaises
  <2>1. /\ At("research") /\ next' = "reflect" /\ CountRound(TRUE) /\ Stay /\ trip' = trip
        /\ st'.loop = st.loop /\ st'.raw = st.raw /\ st'.eval = st.eval
    BY <1>0, <1>2 DEF ResearchRaises, InitialState
  <2> QED BY <2>1, RoundWorks DEF WorkInv, TypeInv
<1>3. CASE ResearchRound
  <2>1. At("research") /\ next' = "reflect" /\ CountRound(FALSE) /\ Stay /\ trip' = trip
    BY <1>3 DEF ResearchRound
  <2>2. PICK deep, sources : \E found \in SUBSET Titles : \E outcome \in JudgeOutcomes(Fresh(found)) :
          \E c \in SelectPlan(st.mode, Baseline, Eligible(JudgedOf(found, outcome)), st.locked) :
             st' = RoundResult(deep, found, sources, outcome, c, JudgedOf(found, outcome),
                               EvalOf(found, outcome))
    BY <1>3, RoundOf
  <2>3. PICK found \in SUBSET Titles : \E outcome \in JudgeOutcomes(Fresh(found)) :
          \E c \in SelectPlan(st.mode, Baseline, Eligible(JudgedOf(found, outcome)), st.locked) :
             st' = RoundResult(deep, found, sources, outcome, c, JudgedOf(found, outcome),
                               EvalOf(found, outcome))
    BY <2>2
  <2>4. PICK outcome \in JudgeOutcomes(Fresh(found)) :
          \E c \in SelectPlan(st.mode, Baseline, Eligible(JudgedOf(found, outcome)), st.locked) :
             st' = RoundResult(deep, found, sources, outcome, c, JudgedOf(found, outcome),
                               EvalOf(found, outcome))
    BY <2>3
  <2> DEFINE judged == JudgedOf(found, outcome)
             eval == EvalOf(found, outcome)
             raw == st.raw \/ Fresh(found) # {}
  <2>5. PICK c : st' = RoundResult(deep, found, sources, outcome, c, judged, eval)
    BY <2>4
  <2>6. eval \in Evaluation
    <3>1. Fresh(found) \in SUBSET Titles
      BY DEF Fresh
    <3> QED BY <3>1, EvaluationIs DEF EvalOf
  <2> HIDE DEF judged, eval
  <2>7. st'.loop = st.loop /\ st'.eval = eval /\ st'.raw = raw
    BY <1>0, <2>5 DEF RoundResult, InitialState
  <2>8. raw \in BOOLEAN
    OBVIOUS
  <2> HIDE DEF raw
  <2> QED BY <2>1, <2>6, <2>7, <2>8, RoundWorks
<1> QED BY <1>1, <1>2, <1>3 DEF Research

\* Reflect lets another round begin only by counting it.
LEMMA ReflectWorks ==
  ASSUME GraphInv, WorkInv, Reflect
  PROVE  WorkInv'
<1>0. /\ DOMAIN st = DOMAIN InitialState(FALSE) /\ turn.rounds \in Nat
      /\ st.loop \in Nat /\ st.loop <= MaxLoops /\ MaxLoops \in Nat
  BY LoopsAre, ShapesAre DEF WorkInv, RoundsFit
<1>1. Deciding
  BY DEF Reflect, ReflectOutage, ReflectUnverified, ReflectSpent, ReflectReranked, ReflectNoBetter,
         ReflectRetry, ReflectSufficient, ReflectMaxLoops, ReflectFollowUp, Judging
<1>2. /\ next = "reflect" /\ live /\ turn' = turn /\ trip' = trip
      /\ UNCHANGED <<live, waiting, answered, over>>
  BY <1>1 DEF Deciding, At, Stay
<1>3. st'.raw = st.raw /\ st'.eval = st.eval
  <2>1. CASE ReflectOutage
    BY <1>0, <2>1 DEF ReflectOutage, InitialState
  <2>2. CASE ReflectUnverified
    BY <1>0, <2>2 DEF ReflectUnverified, InitialState
  <2>3. CASE ReflectSpent
    BY <1>0, <2>3 DEF ReflectSpent, InitialState
  <2>4. CASE ReflectReranked
    BY <1>0, <2>4 DEF ReflectReranked, InitialState
  <2>5. CASE ReflectNoBetter
    BY <1>0, <2>5 DEF ReflectNoBetter, InitialState
  <2>6. CASE ReflectRetry
    BY <1>0, <2>6 DEF ReflectRetry, InitialState
  <2>7. CASE ReflectSufficient
    BY <1>0, <2>7 DEF ReflectSufficient, InitialState
  <2>8. CASE ReflectMaxLoops
    BY <1>0, <2>8 DEF ReflectMaxLoops, InitialState
  <2>9. CASE ReflectFollowUp
    BY <1>0, <2>9 DEF ReflectFollowUp, InitialState
  <2> QED BY <2>1, <2>2, <2>3, <2>4, <2>5, <2>6, <2>7, <2>8, <2>9 DEF Reflect
<1>4. CASE ReflectRetry \/ ReflectFollowUp
  <2>1. next' = "research" /\ st'.loop = st.loop + 1 /\ st.loop < MaxLoops
    BY <1>0, <1>4 DEF ReflectRetry, ReflectFollowUp, InitialState
  <2>2. TypeInv'
    BY <1>2, <1>3, <2>1 DEF WorkInv, TypeInv, Nodes
  <2>3. RoundsFit'
    <3>1. turn.rounds <= st.loop + 1
      BY DEF WorkInv, RoundsFit
    <3>2. turn'.rounds = turn.rounds
      BY <1>2
    <3>3. turn.rounds \in Nat /\ st.loop \in Nat /\ MaxLoops \in Nat
      BY <1>0
    <3>4. st'.loop = st.loop + 1 /\ st.loop < MaxLoops
      BY <2>1
    <3>5. /\ st'.loop \in Nat /\ st'.loop <= MaxLoops
          /\ turn'.rounds <= st'.loop + 1 /\ turn'.rounds <= st'.loop
      BY <3>1, <3>2, <3>3, <3>4
    <3> QED BY <3>5 DEF RoundsFit
  <2> QED BY <2>2, <2>3 DEF WorkInv
<1>5. CASE ~ReflectRetry /\ ~ReflectFollowUp
  <2>1. next' = "transport" /\ st'.loop = st.loop
    <3>1. CASE ReflectOutage
      BY <1>0, <3>1 DEF ReflectOutage, InitialState, Ends
    <3>2. CASE ReflectUnverified
      BY <1>0, <3>2 DEF ReflectUnverified, InitialState, Ends
    <3>3. CASE ReflectSpent
      BY <1>0, <3>3 DEF ReflectSpent, InitialState, Ends
    <3>4. CASE ReflectReranked
      BY <1>0, <3>4 DEF ReflectReranked, InitialState, Ends
    <3>5. CASE ReflectNoBetter
      BY <1>0, <3>5 DEF ReflectNoBetter, InitialState, Ends
    <3>6. CASE ReflectSufficient
      BY <1>0, <3>6 DEF ReflectSufficient, InitialState, Ends
    <3>7. CASE ReflectMaxLoops
      BY <1>0, <3>7 DEF ReflectMaxLoops, InitialState, Ends
    <3> QED BY <1>5, <3>1, <3>2, <3>3, <3>4, <3>5, <3>6, <3>7 DEF Reflect
  <2>2. TypeInv'
    BY <1>2, <1>3, <2>1 DEF WorkInv, TypeInv, Nodes
  <2>3. RoundsFit'
    <3>1. turn.rounds <= st.loop + 1
      BY DEF WorkInv, RoundsFit
    <3> QED BY <1>0, <1>2, <2>1, <3>1 DEF RoundsFit
  <2> QED BY <2>2, <2>3 DEF WorkInv
<1> QED BY <1>4, <1>5

LEMMA LaterWorks ==
  ASSUME GraphInv, WorkInv,
         \/ Parse \/ Discover \/ Transport \/ Hotel \/ Mobility \/ Dining \/ Weather \/ Timeline
         \/ Validate \/ Compose \/ AwaitBooking \/ Booked \/ GateRefuses \/ Crash \/ Elapse
  PROVE  WorkInv'
<1>1. UNCHANGED <<st, turn>>
  BY DEF Parse, Discover, Transport, Hotel, Mobility, Dining, Weather, Timeline, Step, Validate,
         Compose, AwaitBooking, Booked, GateRefuses, Crash, Elapse
<1>2. /\ next' \in Nodes \cup {"none", "end"}
      /\ next' = next \/ (next = "parse" /\ next' = "discover")
         \/ (next = "discover" /\ next' = "research")
         \/ (next \notin {"parse", "discover", "research"} /\ next' \notin {"parse", "discover", "research"})
  <2>1. CASE Parse \/ Discover \/ AwaitBooking \/ GateRefuses \/ Crash \/ Elapse
    BY <2>1 DEF Parse, Discover, AwaitBooking, GateRefuses, Crash, Elapse, At, WorkInv, TypeInv, Nodes
  <2>2. CASE Transport \/ Hotel \/ Mobility \/ Dining \/ Weather \/ Timeline
    BY <2>2 DEF Transport, Hotel, Mobility, Dining, Weather, Timeline, Step, At, Edges, Nodes
  <2>3. CASE Validate \/ Compose \/ Booked
    BY <2>3 DEF Validate, RouteAfterValidate, Compose, Booked, At, Nodes
  <2> QED BY <2>1, <2>2, <2>3
<1>3. RoundsFit'
  BY <1>1, <1>2 DEF WorkInv, RoundsFit
<1>4. live' \in BOOLEAN /\ waiting' \in BOOLEAN /\ answered' \in BOOLEAN
  BY DEF WorkInv, TypeInv, Parse, Discover, Transport, Hotel, Mobility, Dining, Weather, Timeline, Step,
         Stay, Validate, Compose, AwaitBooking, Booked, GateRefuses, Crash, Elapse
<1>5. waiting' => next' = "await_booking" /\ ~answered'
  BY DEF WorkInv, TypeInv, Parse, Discover, Transport, Hotel, Mobility, Dining, Weather, Timeline, Step,
         Stay, At, Validate, Compose, AwaitBooking, Booked, GateRefuses, Crash, Elapse
<1>6. DOMAIN trip' = DOMAIN InitialTrip /\ trip'.timeline \subseteq Dated /\ over' \subseteq Dated
  <2>1. CASE Timeline
    <3>1. PICK T \in SUBSET ((DOMAIN st.acts \cap Dated) \ over) : trip' = [trip EXCEPT !.timeline = T]
      BY <2>1 DEF Timeline
    <3>2. over' = over
      BY <2>1 DEF Timeline, Step, Stay
    <3> QED BY <3>1, <3>2 DEF WorkInv, TypeInv, InitialTrip
  <2>2. CASE Elapse
    <3>1. PICK t \in Dated \ over : over' = over \cup {t}
      BY <2>2 DEF Elapse
    <3>2. trip' = trip
      BY <2>2 DEF Elapse
    <3> QED BY <3>1, <3>2 DEF WorkInv, TypeInv
  <2>3. CASE ~Timeline /\ ~Elapse
    <3>1. over' = over /\ DOMAIN trip' = DOMAIN trip /\ trip'.timeline = trip.timeline
      BY <2>3
         DEF WorkInv, TypeInv, InitialTrip, Parse, Discover, Transport, Hotel, Mobility, Dining, Weather,
             Step, Stay, Validate, Compose, AwaitBooking, Booked, GateRefuses, Crash
    <3> QED BY <3>1 DEF WorkInv, TypeInv
  <2> QED BY <2>1, <2>2, <2>3
<1> QED BY <1>1, <1>2, <1>3, <1>4, <1>5, <1>6 DEF WorkInv, TypeInv

LEMMA WorkKeeps == ASSUME GraphInv, WorkInv, [Next]_vars PROVE WorkInv'
<1>1. CASE Research
  BY <1>1, ResearchWorks
<1>2. CASE Reflect
  BY <1>2, ReflectWorks
<1>3. CASE Node /\ ~Research /\ ~Reflect
  BY <1>3, LaterWorks DEF Node
<1>4. CASE Commands
  BY <1>4, CommandsWork
<1>5. CASE GateRefuses \/ Crash \/ Elapse
  BY <1>5, LaterWorks
<1>6. CASE UNCHANGED vars
  BY <1>6 DEF vars, WorkInv, TypeInv, RoundsFit
<1> QED BY <1>1, <1>2, <1>3, <1>4, <1>5, <1>6 DEF Next

LEMMA WorkInvariant == Spec => []WorkInv
<1>1. GraphInv /\ WorkInv /\ [Next]_vars => WorkInv'
  BY WorkKeeps
<1> QED BY InitWork, <1>1, GraphInvariant, PTL DEF Spec

\* The channels of the checkpoint keep their shapes through every command,
\* every node and every lost stream, and a plan waits for bookings only before
\* the node that takes them.
THEOREM TypeCorrect == Spec => []TypeOK
<1>1. \A c : Truthful(c) => IsCollection(c)
  <2> SUFFICES ASSUME NEW c, Truthful(c) PROVE IsCollection(c)
    OBVIOUS
  <2>1. DOMAIN c \subseteq Titles /\ c = [t \in DOMAIN c |-> c[t]] /\ \A t \in DOMAIN c : c[t] \in Candidate
    BY DEF Truthful
  <2>2. [t \in DOMAIN c |-> c[t]] \in [DOMAIN c -> Candidate]
    BY <2>1
  <2> QED BY <2>1, <2>2 DEF IsCollection
<1>2. GraphInv /\ WorkInv => TypeOK
  <2> SUFFICES ASSUME GraphInv, WorkInv PROVE TypeOK
    OBVIOUS
  <2>1. \A c \in {st.acts, st.base, st.judged, st.round} : IsCollection(c)
    BY <1>1 DEF GraphInv, Shape
  <2>2. st.loop \in 0 .. MaxLoops
    BY LoopsAre DEF WorkInv, RoundsFit
  <2> QED BY <2>1, <2>2 DEF WorkInv, TypeInv, TypeOK
<1> QED BY <1>2, GraphInvariant, WorkInvariant, PTL

\* No command makes the graph search more than MaxLoops times again, however
\* the provider and the judge fail, whatever feedback it begins with, and when
\* a lost stream is driven on or a user replans from any node: what a turn can
\* cost is bounded, and its end does not hang on luck
\* (_REFLECT_MAX_LOOPS in nodes.py).
SearchesAreBounded == turn.rounds <= MaxLoops + 1
THEOREM TurnsSearchBounded == Spec => []SearchesAreBounded
<1>1. GraphInv /\ WorkInv => SearchesAreBounded
  <2> SUFFICES ASSUME GraphInv, WorkInv PROVE SearchesAreBounded
    OBVIOUS
  <2>1. /\ turn.rounds \in Nat /\ st.loop \in Nat /\ MaxLoops \in Nat
        /\ turn.rounds <= st.loop + 1 /\ st.loop <= MaxLoops
    BY LoopsAre, ShapesAre DEF WorkInv, RoundsFit
  <2> QED BY <2>1 DEF SearchesAreBounded
<1> QED BY <1>1, GraphInvariant, WorkInvariant, PTL
=============================================================================
