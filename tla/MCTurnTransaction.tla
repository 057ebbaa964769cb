-------------------------- MODULE MCTurnTransaction -------------------------
(* Instances of TurnTransaction for TLC.                                    *)
EXTENDS TurnTransaction, TLC

CONSTANTS r1, r2, r3, k1, k2

ThreeRequests == {r1, r2, r3}
TwoKeys == {k1, k2}

\* The second request repeats the first.
Retry == [r \in ThreeRequests |-> IF r = r3 THEN k2 ELSE k1]

Proposals ==
    {{"answer"}, {"research", "transport_search"}, {"compose_itinerary"}}

Changes == {{}, {"target"}, {"origin", "start_location"}}
=============================================================================
