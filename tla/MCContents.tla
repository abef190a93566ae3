----------------------------- MODULE MCContents -----------------------------
(* Contents for TLC: a center and a local node; deliveries start in two     *)
(* seconds, so that two loops may choose one name.                         *)
EXTENDS Contents

MCHotQueue == <<TRUE, FALSE, FALSE, TRUE, FALSE, FALSE, TRUE, FALSE, FALSE, FALSE>>
=============================================================================
