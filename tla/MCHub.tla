------------------------------- MODULE MCHub -------------------------------
(* Instances of RealtimeHub for TLC.                                       *)
EXTENDS RealtimeHub, TLC

Symmetry == Permutations(Clients) \cup Permutations(Publishers)
=============================================================================
