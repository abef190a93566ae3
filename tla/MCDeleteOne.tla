----------------------------- MODULE MCDeleteOne -----------------------------
(* DeleteOne for TLC: two contents, so that two deletions of one second may  *)
(* be of one content or of two.                                             *)
EXTENDS DeleteOne, TLC

ContentsSymmetry == Permutations(Contents)
=============================================================================
