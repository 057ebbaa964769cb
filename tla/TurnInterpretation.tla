------------------------- MODULE TurnInterpretation -------------------------
(***************************************************************************)
(* What one chat message means, copilot/interpreter.py and handle_turn.py: *)
(* the reading of the model, or the rules when the model is out, bound to  *)
(* the question that was asked before, turned into a patch of the          *)
(* constraints, a set of acts and one legacy intent.                       *)
(*                                                                         *)
(* A message is a record of what its words show: found (the constraints    *)
(* the rules extract), rule (the intent they guess), bare (the city that   *)
(* is all of it), wish (its text as a requirement), and whether it asks    *)
(* for a route, names anchors, is a question, gives an order, or forbids   *)
(* a search.  A reading is what the model returned, or NoReading.          *)
(***************************************************************************)
EXTENDS SequencesExt

CONSTANT None   \* no city, no wish

(* goal stands for research_goal and acceptance_criteria, target for the   *)
(* name and the code of the city.                                          *)
Listed == {"origins", "requirements", "subgoals", "soft"}
RouteFields == {"origins", "target"}

Nothing == <<>>
NoReading == [intent |-> "none"]
Over(old, new) ==
  [f \in DOMAIN old \cup DOMAIN new |-> IF f \in DOMAIN new THEN new[f] ELSE old[f]]
With(patch, field, value) == Over(patch, [f \in {field} |-> value])
Without(patch, fields) == Restrict(patch, DOMAIN patch \ fields)
Has(c, field) == field \in DOMAIN c /\ c[field] \notin {None, {}}
Missing(c) == ~Has(c, "origins")
Route(c) == [f \in {f \in RouteFields : Has(c, f)} |-> c[f]]

------------------------------------------------------------------------------
(* interpret_turn *)

ActOf == [deep_research |-> {"research_more"}, ask_info |-> {"answer_info"},
          confirm_booking |-> {"submit_booking"}, weather |-> {"weather_replan"},
          chitchat |-> {"chitchat"}, clarify_answer |-> {"clarify"},
          provide_constraints |-> {"clarify"}, refine_field |-> {}, design_itinerary |-> {}]

ActsFor(primary, patch) ==
  ActOf[primary] \cup (IF patch = Nothing THEN {} ELSE {"update_constraints"})

ByModel(m, reading) ==
  [primary |-> IF reading.intent \in DOMAIN ActOf \ {"design_itinerary"} THEN reading.intent ELSE m.rule,
   patch |-> Over(m.found, reading.patch), acts |-> reading.acts, ops |-> reading.ops,
   goal |-> reading.goal, draft |-> reading.draft]

(* With the model out, a ban on searching wins over the guessed intent;    *)
(* a correction or a wish for more is kept in the user's own words.  The   *)
(* draft is the latest one, which the chat falls back on anyway.           *)
ByRules(m, slot, results) ==
  LET kept == results /\ m.noSearch
      primary == IF kept THEN "ask_info" ELSE m.rule
      wishes == primary \in {"refine_field", "deep_research"}
  IN  [primary |-> primary,
       patch |-> IF kept THEN Nothing
                 ELSE IF primary = "refine_field" THEN With(m.found, "requirements", {m.wish})
                 ELSE m.found,
       acts |-> IF kept THEN {"recompose_plan"} ELSE {},
       ops |-> <<>>,
       goal |-> IF wishes \/ (primary = "provide_constraints" /\ m.found # Nothing /\ slot = "none")
                THEN m.wish ELSE None,
       draft |-> FALSE]

(* A short answer is the answer to the question that was asked.            *)
BoundTo(m, patch, slot) ==
  IF slot = "origins" /\ m.bare # None
  THEN Without(With(patch, "origins", {m.bare}), {"target"})
  ELSE IF slot = "destination" /\ m.bare # None
  THEN Without(With(patch, "target", m.bare), {"origins"})
  ELSE IF slot = "interests"
  THEN With(With(patch, "requirements", {m.wish}), "goal", m.wish)
  ELSE patch

(* An operation starts from what the patch holds, and only then from the   *)
(* memory.                                                                 *)
Operated(memory, patch, op) ==
  LET known == Over(memory, patch)
      current == IF op.field \in Listed /\ Has(known, op.field) THEN known[op.field] ELSE {}
  IN  CASE op.op = "set" -> With(patch, op.field, op.value)
        [] op.op = "clear" -> With(patch, op.field, IF op.field \in Listed THEN {} ELSE None)
        [] op.op = "add" -> With(patch, op.field, current \cup op.value)
        [] op.op = "remove" /\ op.field \in Listed -> With(patch, op.field, current \ op.value)
        [] OTHER -> patch

WithSubgoals(patch) ==
  IF "requirements" \in DOMAIN patch /\ "subgoals" \notin DOMAIN patch
  THEN With(patch, "subgoals", patch["requirements"]) ELSE patch

Interpreted(m, reading, memory, slot, results) ==
  LET raw == IF reading = NoReading THEN ByRules(m, slot, results) ELSE ByModel(m, reading)
      bound == BoundTo(m, raw.patch, slot)
      told == IF raw.goal = None THEN bound ELSE With(bound, "goal", raw.goal)
      patch == FoldLeft(LAMBDA p, op : Operated(memory, p, op), told, raw.ops)
  IN  [primary |-> raw.primary, patch |-> WithSubgoals(patch), draft |-> raw.draft,
       acts |-> raw.acts \cup ActsFor(raw.primary, told)
                \cup (IF raw.ops = <<>> THEN {} ELSE ActsFor(raw.primary, patch))]

------------------------------------------------------------------------------
(* handle_turn *)

(* A city that is the destination is not an origin as well.                *)
Placed(patch) ==
  IF ~(Has(patch, "target") /\ Has(patch, "origins")) THEN patch
  ELSE LET left == patch["origins"] \ {patch["target"]}
       IN  IF left = {} THEN Without(patch, {"origins"}) ELSE With(patch, "origins", left)

SaysTrip(patch) == \E f \in {"origins", "target", "requirements", "goal"} : Has(patch, f)
SaysPlace(patch) == \E f \in RouteFields : Has(patch, f)

IntentOf(m, primary, patch) ==
  IF m.route THEN "design_itinerary"
  ELSE IF primary \in {"chitchat", "ask_info"} /\ SaysTrip(patch) /\ (SaysPlace(patch) \/ ~m.question)
  THEN "provide_constraints" ELSE primary

Collects == {"provide_constraints", "clarify_answer"}

(* A bare city said while only the origin is missing is the origin.        *)
Corrected(m, intent, memory, patch) ==
  IF intent \in Collects /\ Has(patch, "target") /\ ~Has(patch, "origins")
     /\ Has(memory, "target") /\ ~Has(memory, "origins") /\ ~m.orders
  THEN Without(With(patch, "origins", {patch["target"]}), {"target"})
  ELSE patch

(* Named anchors are answered by a route card alone, with no commands.     *)
HandleTurn(m, reading, memory, slot, results) ==
  LET said == Interpreted(m, reading, memory, slot, results)
      placed == Placed(said.patch)
      intent == IntentOf(m, said.primary, placed)
      card == intent = "design_itinerary" /\ m.anchors
      patch == IF card THEN Placed(Over(placed, m.found)) ELSE Corrected(m, intent, memory, placed)
      acts == said.acts \cup (IF placed = Nothing THEN {} ELSE {"update_constraints"})
  IN  [intent |-> intent, acts |-> acts, patch |-> patch, draft |-> said.draft,
       feedback |-> ~card /\ (intent = "deep_research" \/ "research_more" \in acts),
       weather |-> ~card /\ "weather_replan" \in acts,
       slot |-> IF intent \in Collects /\ Missing(Over(memory, patch)) THEN "origins" ELSE "none"]
=============================================================================
