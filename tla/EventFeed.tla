------------------------------ MODULE EventFeed -----------------------------
(***************************************************************************)
(* What the event stream of a run promises its readers: events are         *)
(* numbered 1, 2, 3, ... in the order they become visible, and a reader    *)
(* receives every event after the one it began with, in order, none of     *)
(* them twice.                                                             *)
(***************************************************************************)
EXTENDS Naturals

CONSTANT Readers

VARIABLES
    published,  \* the numbers of the visible events
    following,  \* the readers that have begun
    reached     \* the last event each reader has received

Init ==
    /\ published = {}
    /\ following = {}
    /\ reached = [c \in Readers |-> 0]

\* The next number becomes visible.
Publish ==
    /\ \E n \in published' :
         /\ published = 1..(n - 1)
         /\ published' = 1..n
    /\ UNCHANGED <<following, reached>>

\* A reader begins after some visible event, or at the beginning.
Follow(c) ==
    /\ c \notin following
    /\ following' = following \cup {c}
    /\ \E k \in published \cup {0} : reached' = [reached EXCEPT ![c] = k]
    /\ UNCHANGED published

\* A reader receives the event after the last one it received.
Receive(c) ==
    /\ c \in following
    /\ reached[c] + 1 \in published
    /\ reached' = [reached EXCEPT ![c] = @ + 1]
    /\ UNCHANGED <<published, following>>

Next == Publish \/ \E c \in Readers : Follow(c) \/ Receive(c)

Spec == Init /\ [][Next]_<<published, following, reached>>
=============================================================================
