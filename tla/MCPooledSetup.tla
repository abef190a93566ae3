---------------------------- MODULE MCPooledSetup ----------------------------
(* PooledSetup for TLC: two sessions, two connections, one of which may die.  *)
EXTENDS PooledSetup, TLC

CONSTANT ip1
MCIPs == {ip1}
MCRemoteIPs == <<ip1>>
MCSymmetry == Permutations(Sessions) \cup Permutations(Paths)
=============================================================================
