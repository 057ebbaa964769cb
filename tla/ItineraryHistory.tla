-------------------------- MODULE ItineraryHistory --------------------------
(***************************************************************************)
(* What the version table of a room promises: a history of itineraries, at *)
(* most Keep of them, that a save extends and an undo cuts back by one.    *)
(* What the members see is the end of that history.                        *)
(***************************************************************************)
EXTENDS Naturals, Sequences

CONSTANTS
    Payloads,  \* itineraries
    Keep       \* how many versions are kept

VARIABLES
    history,   \* the itineraries that can still be shown or returned to
    shown      \* the itinerary the members see

Nothing == "nothing"

Latest(h) == IF Len(h) = 0 THEN Nothing ELSE h[Len(h)]

\* The last Keep elements of h.
Kept(h) == IF Len(h) > Keep THEN SubSeq(h, Len(h) - Keep + 1, Len(h)) ELSE h

Become(h) == history' = h /\ shown' = Latest(h)

Init == history = <<>> /\ shown = Nothing

Save == \E p \in Payloads : Become(Kept(Append(history, p)))

Undo == Len(history) > 1 /\ Become(SubSeq(history, 1, Len(history) - 1))

Next == Save \/ Undo

Spec == Init /\ [][Next]_<<history, shown>>
=============================================================================
