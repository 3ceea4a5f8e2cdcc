---------------------------- MODULE MCTalkDetail ----------------------------
(* A small instance of TalkDetail for TLC.                                 *)
EXTENDS TalkDetail, TLC

Symmetry == Permutations(Texts) \cup Permutations(Dates)
=============================================================================
