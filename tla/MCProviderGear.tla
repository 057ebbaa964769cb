---------------------------- MODULE MCProviderGear ----------------------------
(* Instances of ProviderGear for TLC: threads as model values. *)
EXTENDS ProviderGear, TLC

CONSTANTS c1, c2
TwoCallers == {c1, c2}
=============================================================================
