---------------------------- MODULE MCFuseHandle ----------------------------
(* FuseHandle for TLC: two requests at a time on a file of three bytes.    *)
EXTENDS FuseHandle
=============================================================================
