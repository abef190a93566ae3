-------------------------- MODULE PositionalReads ---------------------------
(***************************************************************************)
(* What the kernel expects of an open file: a read names its offset, and   *)
(* its answer depends on nothing else.  It is an error, nothing, or the    *)
(* bytes of the file from the offset on, never other bytes.                *)
(* FuseHandle implements it as long as the reads of a handle do not        *)
(* overlap.                                                                *)
(***************************************************************************)
EXTENDS Naturals, Sequences

CONSTANTS Servers, FileSize, MaxLen

VARIABLES
  stage,              \* "idle", "asked", "answered"
  offset, len,        \* the request
  got                 \* the bytes the reader gets, up to the end of the file

readVars == <<stage, offset, len, got>>

Bytes(o, n) == SubSeq([p \in 1 .. FileSize |-> p], o + 1, IF o + n < FileSize THEN o + n ELSE FileSize)

ReadsInit ==
  /\ stage = [s \in Servers |-> "idle"]
  /\ offset = [s \in Servers |-> 0]
  /\ len = [s \in Servers |-> 1]
  /\ got = [s \in Servers |-> <<>>]

Ask(s) ==
  /\ stage[s] # "asked"
  /\ \E o \in 0 .. FileSize, n \in 1 .. MaxLen :
       offset' = [offset EXCEPT ![s] = o] /\ len' = [len EXCEPT ![s] = n]
  /\ stage' = [stage EXCEPT ![s] = "asked"]
  /\ got' = [got EXCEPT ![s] = <<>>]

Answer(s) ==
  /\ stage[s] = "asked"
  /\ stage' = [stage EXCEPT ![s] = "answered"]
  /\ got' \in {[got EXCEPT ![s] = b] : b \in {<<>>, Bytes(offset[s], len[s])}}
  /\ UNCHANGED <<offset, len>>

ReadsSpec == ReadsInit /\ [][\E s \in Servers : Ask(s) \/ Answer(s)]_readVars
=============================================================================
