------------------------- MODULE MCSessionLifecycle -------------------------
(* Small instances of SessionLifecycle for TLC. *)
EXTENDS SessionLifecycle, TLC

CONSTANTS i1, i2, h1, h2, w1, w2

TwoKinds == <<"primary", "progress">>
Symmetry == Permutations(Workers) \cup Permutations(Hosts)
=============================================================================
