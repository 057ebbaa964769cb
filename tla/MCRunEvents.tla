---------------------------- MODULE MCRunEvents -----------------------------
(* Instances of RunEvents for TLC.                                          *)
EXTENDS RunEvents, TLC

CONSTANTS w1, w2, b1, b2

TwoWriters == {w1, w2}
TwoBrowsers == {b1, b2}
=============================================================================
