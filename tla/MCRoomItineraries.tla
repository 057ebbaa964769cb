-------------------------- MODULE MCRoomItineraries -------------------------
(* Instances of RoomItineraries for TLC.  The requests that publish are     *)
(* alike, and so are the others: each of those modifies or undoes.          *)
EXTENDS RoomItineraries, TLC

CONSTANTS p1, p2, q1, q2, q3, q4

TwoPublications == {p1, p2}
Many == {p1, p2, q1, q2, q3, q4}

Alike == Permutations(Publications) \cup Permutations(Requests \ Publications)
=============================================================================
