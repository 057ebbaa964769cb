------------------------------ MODULE DraftRepair -----------------------------
(***************************************************************************)
(* The itinerary of a reply (copilot/respond.py): the fallback itinerary,  *)
(* the one a model drafts, and the repair of what the model left out.  A   *)
(* behaviour composes one reply.  Activities are numbered in the order of  *)
(* the candidates, and so are the goals; an itinerary is a sequence of     *)
(* activities.                                                             *)
(***************************************************************************)
EXTENDS Naturals, Sequences, FiniteSets, SequencesExt

CONSTANTS
    Candidates,     \* what activities may serve: sequences of sets of goals
    GoalLists,      \* sequences of goals, [target, required]
    MaxFallback,    \* entries of the fallback itinerary (12)
    MaxItinerary,   \* entries of the itinerary that is kept (20)
    MaxReply        \* bound: entries of what the model drafts

Goal == [target : 1..20, required : BOOLEAN]
ASSUME CandidatesAssumption == Candidates \subseteq Seq(SUBSET Nat)
ASSUME GoalsAssumption == GoalLists \subseteq Seq(Goal)
ASSUME CutsAssumption == MaxFallback \in Nat /\ MaxItinerary \in Nat \ {0} /\ MaxReply \in Nat

VARIABLE draft   \* the candidates and the goals, the itineraries and the goal at work

Cut(itinerary, n) == IF Len(itinerary) <= n THEN itinerary ELSE SubSeq(itinerary, 1, n)
Serving(itinerary, goal) == {i \in DOMAIN itinerary : goal \in draft.serves[itinerary[i]]}
Count(itinerary, goal) == Cardinality(Serving(itinerary, goal))
Target == draft.goals[draft.at].target

\* "cut" remembers that an itinerary was too long.
DraftInit ==
    \E s \in Candidates, g \in GoalLists :
        draft = [stage |-> "offering", serves |-> s, goals |-> g, at |-> 1, given |-> 0,
                 fallback |-> <<>>, itinerary |-> <<>>, cut |-> FALSE]

AtGoal(stage) == draft.stage = stage /\ draft.at <= Len(draft.goals)
AllServed(stage) == draft.stage = stage /\ draft.at > Len(draft.goals)
NextGoal == draft' = [draft EXCEPT !.at = @ + 1, !.given = 0]

-----------------------------------------------------------------------------
(* _fallback_response: for each goal the first candidates not taken yet.   *)

Offerable ==
    {id \in DOMAIN draft.serves : draft.at \in draft.serves[id] /\ id \notin ToSet(draft.fallback)}

Offer ==
    /\ AtGoal("offering") /\ draft.given < Target
    /\ \E id \in Offerable :
         /\ \A other \in Offerable : id <= other
         /\ draft' = [draft EXCEPT !.fallback = Append(@, id), !.given = @ + 1]

Offered ==
    /\ AtGoal("offering")
    /\ draft.given >= Target \/ Offerable = {}
    /\ NextGoal

\* Without any candidate for a goal the first eight are offered.
FallBack ==
    LET ids == [id \in DOMAIN draft.serves |-> id]
        chosen == IF draft.fallback = <<>> THEN Cut(ids, 8) ELSE draft.fallback
    IN  /\ AllServed("offering")
        /\ draft' = [draft EXCEPT !.stage = "drafting", !.fallback = Cut(chosen, MaxFallback),
                                  !.cut = Len(chosen) > MaxFallback]

-----------------------------------------------------------------------------
(* The model's draft and its repair.                                       *)

\* Titles that are no candidate's have been dropped; a candidate may be named
\* twice.
Reply ==
    /\ draft.stage = "drafting"
    /\ \E n \in 0..MaxReply : \E reply \in [1..n -> DOMAIN draft.serves] :
         draft' = [draft EXCEPT !.stage = "repairing", !.itinerary = reply, !.at = 1]

\* No model, or no reply.
Silence ==
    /\ draft.stage = "drafting"
    /\ draft' = [draft EXCEPT !.stage = "kept", !.itinerary = draft.fallback]

Repairs ==
    {k \in Serving(draft.fallback, draft.at) : draft.fallback[k] \notin ToSet(draft.itinerary)}

Lacking == draft.goals[draft.at].required /\ Count(draft.itinerary, draft.at) < Target

\* Mutant: one addition is taken to be enough for a goal.
RepairOnce ==
    /\ AtGoal("repairing") /\ Lacking
    /\ \E k \in Repairs :
         /\ \A other \in Repairs : k <= other
         /\ draft' = [draft EXCEPT !.itinerary = Append(@, draft.fallback[k]), !.at = @ + 1]

\* _ensure_subgoal_target_coverage: the fallback's candidates for a required
\* goal are added until it has enough.
Repair ==
    /\ AtGoal("repairing") /\ Lacking
    /\ \E k \in Repairs :
         /\ \A other \in Repairs : k <= other
         /\ draft' = [draft EXCEPT !.itinerary = Append(@, draft.fallback[k])]

Repaired ==
    /\ AtGoal("repairing")
    /\ ~ Lacking \/ Repairs = {}
    /\ NextGoal

\* A reply without any entry falls back as a whole.
Keep ==
    /\ AllServed("repairing")
    /\ draft' = [draft EXCEPT !.stage = "kept",
                              !.itinerary = IF @ = <<>> THEN draft.fallback ELSE Cut(@, MaxItinerary),
                              !.cut = @ \/ Len(draft.itinerary) > MaxItinerary]

DraftNext == Offer \/ Offered \/ FallBack \/ Reply \/ Silence \/ Repair \/ Repaired \/ Keep
DraftSpec == DraftInit /\ [][DraftNext]_draft

-----------------------------------------------------------------------------
(* Properties.                                                             *)

\* As many as the goal asks for, or all there are.
Enough(itinerary, goal) ==
    \/ Count(itinerary, goal) >= draft.goals[goal].target
    \/ \A id \in DOMAIN draft.serves : goal \in draft.serves[id] => id \in ToSet(itinerary)

\* Whatever itinerary the model drafts, with activities forgotten or named
\* twice, or if it drafts none, the one that is kept serves every required
\* goal with as many activities as it asks for, or with all there are
\* (copilot/respond.py).  Only what the code cuts off may be missing.
DraftsServe ==
    draft.stage = "kept" /\ ~ draft.cut =>
        \A g \in DOMAIN draft.goals : draft.goals[g].required => Enough(draft.itinerary, g)
=============================================================================
