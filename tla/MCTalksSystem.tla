--------------------------- MODULE MCTalksSystem ---------------------------
(* Small instances of TalksSystem for TLC.                                 *)
EXTENDS TalksSystem, TLC

Symmetry == Permutations(Ids) \cup Permutations(AppReqs)
=============================================================================
