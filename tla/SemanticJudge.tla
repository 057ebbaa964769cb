---------------------------- MODULE SemanticJudge ----------------------------
(***************************************************************************)
(* The semantic judge of research/semantics.py: a language model is asked, *)
(* in batches, which candidates meet the user's subgoals; its silence is   *)
(* not a verdict.  Candidates are known by their titles; a collection of   *)
(* candidates is a function from titles to what the plan knows of each:    *)
(* where it came from, the verdict, and the subgoals it is filed under.    *)
(* What the model would answer of a candidate is a constant; whether it    *)
(* answers is chosen at every call.                                        *)
(***************************************************************************)
EXTENDS Naturals, FiniteSets

CONSTANTS
  Titles,        \* the candidates that exist
  Goals,         \* the required subgoals of the user's request
  Open,          \* the open candidates, found on the web: the others are rows of activities
  Suggests,      \* [Titles -> SUBSET Goals]: what the extractor files a candidate under
  Meets,         \* [Titles -> SUBSET Goals]: what the judge finds it to satisfy
  Needs,         \* [Goals -> SUBSET criteria]: the acceptance criteria of a subgoal
  Proves,        \* [Titles -> SUBSET criteria]: the criteria its evidence supports
  TargetCount,   \* [Goals -> 1..20]: how many candidates a subgoal asks for
  JudgeBatch     \* deep_research_semantic_judge_batch_size

ASSUME JudgeAssumption ==
  /\ IsFiniteSet(Titles) /\ Open \subseteq Titles
  /\ Suggests \in [Titles -> SUBSET Goals] /\ Meets \in [Titles -> SUBSET Goals]
  /\ TargetCount \in [Goals -> 1 .. 20]
  /\ JudgeBatch \in 1 .. 40

Statuses == {"matched", "rejected", "unknown"}
Origins == {"baseline", "current_research"}
Candidate == [origin : Origins, status : Statuses, goals : SUBSET Goals]
IsCollection(c) == DOMAIN c \subseteq Titles /\ c \in [DOMAIN c -> Candidate]
None == [t \in {} |-> {}]

Failures == {"none", "semantic_judge_unavailable", "semantic_judge_partial",
             "provider_unavailable"}
Evaluation == [evaluated : BOOLEAN, matched : BOOLEAN, covered : SUBSET Goals,
               failure : Failures]
NotEvaluated == [evaluated |-> FALSE, matched |-> FALSE, covered |-> {}, failure |-> "none"]

(* What the batches may leave of a set of candidates: those a verdict came *)
(* back for, and whether a batch failed.  A failed batch judges nobody, so *)
(* a single batch that fails leaves no verdict at all.                     *)
JudgeOutcomes(found) ==
  {o \in [heard : SUBSET found, failed : BOOLEAN] :
     /\ o.failed => o.heard # found
     /\ (o.failed /\ Cardinality(found) <= JudgeBatch) => o.heard = {}}

Matched(t, goals) == Meets[t] \cap goals # {}

(* A judged candidate keeps the subgoals the extractor suggested, whatever *)
(* the verdict, and gains those the judge matched.                         *)
Judged(t, heard, goals) ==
  [origin |-> "current_research",
   status |-> IF t \notin heard THEN "unknown"
              ELSE IF Matched(t, goals) THEN "matched" ELSE "rejected",
   goals |-> Suggests[t] \cup (IF t \in heard THEN Meets[t] \cap goals ELSE {})]

(* In strict mode a rejected candidate is dropped, and one without verdict *)
(* stays only when a source backs it: rows recalled from the database may  *)
(* be there for another reason.                                            *)
Kept(found, heard, strict, goals) ==
  {t \in found : \/ ~strict
                 \/ t \in heard /\ Matched(t, goals)
                 \/ t \notin heard /\ t \in Open}

Ranked(found, heard, strict, goals) ==
  [t \in Kept(found, heard, strict, goals) |-> Judged(t, heard, goals)]

(* A subgoal is covered when enough candidates match it and between them   *)
(* support each of its criteria.                                           *)
CoveredBy(heard, goals) ==
  {g \in goals : LET those == {t \in heard : g \in Meets[t]}
                 IN  /\ Cardinality(those) >= TargetCount[g]
                     /\ Needs[g] \subseteq UNION {Proves[t] : t \in those}}

BatchEvaluation(found, o, goals) ==
  IF found = {} THEN NotEvaluated
  ELSE IF o.heard = {}
       THEN [NotEvaluated EXCEPT !.failure = "semantic_judge_unavailable"]
       ELSE [evaluated |-> TRUE,
             matched |-> \E t \in o.heard : Matched(t, goals),
             covered |-> CoveredBy(o.heard, goals),
             failure |-> IF o.failed THEN "semantic_judge_partial" ELSE "none"]
=============================================================================
