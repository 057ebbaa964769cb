---------------------------- MODULE PlanSelection ----------------------------
(***************************************************************************)
(* How a research round becomes a plan: orchestration/nodes.py merges the  *)
(* candidates of the rounds, measures which subgoals they cover, chooses   *)
(* the plan among the old commitments and the new finds, and judges        *)
(* whether that is enough.  The code's lists keep the first entry of a     *)
(* title; a limit keeps the first entries of a list, here any of them.     *)
(***************************************************************************)
EXTENDS SemanticJudge, FiniteSetsExt

CONSTANTS
  PlanLimit,     \* cards of a plan (10)
  KeptByDefault, \* baseline items kept when nothing is locked (4)
  MinEntities    \* distinct entities a plan without subgoals needs (3)

ASSUME SelectionAssumption ==
  PlanLimit \in Nat \ {0} /\ KeptByDefault \in Nat /\ MinEntities \in Nat

Modes == {"initial", "alternative", "replace", "extend"}

(* The first entry of a title wins. *)
Distinct(old, new) ==
  [t \in DOMAIN old \cup DOMAIN new |-> IF t \in DOMAIN old THEN old[t] ELSE new[t]]
Excluding(c, seen) == [t \in DOMAIN c \ seen |-> c[t]]
Only(c, S) == [t \in S |-> c[t]]
Limited(c, n) ==
  LET size == Cardinality(DOMAIN c)
  IN  {Only(c, S) : S \in kSubset(IF size < n THEN size ELSE n, DOMAIN c)}
From(c, origin) ==
  [t \in DOMAIN c |-> [origin |-> origin, status |-> c[t].status, goals |-> c[t].goals]]

\* Mutant: a suggested subgoal counts without a verdict.
CollectionEvaluationUnjudged(c, goals, batch) ==
  IF goals = {} \/ \A t \in DOMAIN c : c[t].status = "unknown"
  THEN batch
  ELSE [evaluated |-> TRUE, matched |-> TRUE,
        covered |-> {g \in goals :
                       Cardinality({t \in DOMAIN c : g \in c[t].goals}) >= TargetCount[g]},
        failure |-> batch.failure]

(* Coverage over the whole collection: baseline and every round.  Without  *)
(* a single verdict in it the evaluation of the batch stands.              *)
CollectionEvaluation(c, goals, batch) ==
  LET matched == {t \in DOMAIN c : c[t].status = "matched"}
  IN  IF goals = {} \/ \A t \in DOMAIN c : c[t].status = "unknown"
      THEN batch
      ELSE [evaluated |-> batch.evaluated \/ matched # {},
            matched |-> matched # {},
            covered |-> {g \in goals :
                           Cardinality({t \in matched : g \in c[t].goals}) >= TargetCount[g]},
            failure |-> batch.failure]

\* Mutant: what the user locked is forgotten.
BaselineHead(baseline, locked) ==
  {From(c, "baseline") : c \in Limited(baseline, KeptByDefault)}

(* What an extension must preserve: the titles the user locked, or the     *)
(* head of the plan when none of them is in it.                            *)
BaselineToPreserve(baseline, locked) ==
  IF locked \cap DOMAIN baseline # {}
  THEN {From(Only(baseline, locked \cap DOMAIN baseline), "baseline")}
  ELSE {From(c, "baseline") : c \in Limited(baseline, KeptByDefault)}

FreshCapacity(kept) ==
  LET room == IF PlanLimit > kept THEN PlanLimit - kept ELSE 0
  IN  IF room > 2 THEN room ELSE 2

(* The plans a round may select, each with the fresh candidates in it.     *)
Alternatives(fresh) == {[plan |-> f, fresh |-> f] : f \in Limited(fresh, PlanLimit)}

Extensions(baseline, fresh, locked) ==
  UNION {{[plan |-> IF f = None THEN From(baseline, "baseline") ELSE Distinct(kept, f),
           fresh |-> f] :
            f \in Limited(Excluding(fresh, DOMAIN kept),
                          FreshCapacity(Cardinality(DOMAIN kept)))} :
           kept \in BaselineToPreserve(baseline, locked)}

SelectPlan(mode, baseline, eligible, locked) ==
  LET fresh == From(eligible, "current_research")
  IN  IF mode = "extend" THEN Extensions(baseline, fresh, locked) ELSE Alternatives(fresh)

(* Enough entities, live sources, and -- when the user set subgoals --     *)
(* every one of them covered.  Candidates are taken to carry evidence, as  *)
(* every constructor of them does.                                         *)
RequiredCount(goals) ==
  LET exact == MapThenSumSet(LAMBDA g : TargetCount[g], goals)
  IN  IF exact > 1 THEN exact ELSE 1

Sufficient(plan, research, evaluation, goals) ==
  /\ Cardinality(DOMAIN plan) >= (IF goals = {} THEN MinEntities ELSE RequiredCount(goals))
  /\ research.live => research.sources
  /\ goals # {} => evaluation.evaluated /\ evaluation.matched /\ evaluation.covered = goals
=============================================================================
