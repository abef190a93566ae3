---------------------------- MODULE MCSetupFiles ----------------------------
(* SetupFiles for TLC: two contents and two sessions at a time.  With      *)
(* LimitN = 2 a list can hold every content, with LimitN = 1 it can miss one. *)
EXTENDS SetupFiles

\* Hot, cold, hot: the shortest pattern with both kinds and a repetition.
MCShortQueue == <<TRUE, FALSE, TRUE>>
=============================================================================
