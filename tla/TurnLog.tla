------------------------------- MODULE TurnLog ------------------------------
(***************************************************************************)
(* What the turns of a conversation promise their clients: a message is    *)
(* numbered 1, 2, 3, ... in the order it is accepted, a key is accepted at *)
(* most once, and every answer to a key names the turn accepted for it.    *)
(***************************************************************************)
EXTENDS Naturals

CONSTANTS Requests, KeyOf

VARIABLES
    log,     \* the accepted turns, as <<number, key>>
    answer   \* the turn each request was answered with; 0 is none yet

LogNumbers(l) == {e[1] : e \in l}

Init ==
    /\ log = {}
    /\ answer = [r \in Requests |-> 0]

Unanswered(r) == answer[r] = 0

\* The message of r becomes the next turn.
Accept(r) ==
    /\ Unanswered(r)
    /\ \A e \in log : e[2] # KeyOf[r]
    /\ \E n \in LogNumbers(log') :
         /\ LogNumbers(log) = 1..(n - 1)
         /\ log' = log \cup {<<n, KeyOf[r]>>}
         /\ answer' = [answer EXCEPT ![r] = n]

\* The key of r is known.
Repeat(r) ==
    /\ Unanswered(r)
    /\ \E e \in log :
         /\ e[2] = KeyOf[r]
         /\ answer' = [answer EXCEPT ![r] = e[1]]
    /\ UNCHANGED log

Next == \E r \in Requests : Accept(r) \/ Repeat(r)

Spec == Init /\ [][Next]_<<log, answer>>
=============================================================================
