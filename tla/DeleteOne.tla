----------------------------- MODULE DeleteOne -----------------------------
(***************************************************************************)
(* Deleting contents (src/kt-simul/ktsimul/delete.go) when several do it   *)
(* at a time: the loop processDeleteFile of a running kt-simul, and        *)
(* kt-simul -del-files started beside it (src/kt-simul/kt-simul.go), which *)
(* takes any names, one after the other.                                   *)
(*                                                                         *)
(* DeleteOne judges what adsadapter-client did by the last line of its     *)
(* log, and removes the row of the content if that line is a success.  The *)
(* log is named after the time with the layout 20060102150405235; after    *)
(* the seconds the layout repeats day, hour and second, so whoever starts  *)
(* in one second has one log, and "2>" empties it.                         *)
(*                                                                         *)
(* Contents has the one loop only, with a log of its own, and all that     *)
(* delivers meanwhile; here nothing is delivered.                          *)
(*                                                                         *)
(* External: adsadapter-client, which deletes node by node, logs a success *)
(* when all have acknowledged, and goes on when its SSH session breaks;    *)
(* the table; dummy-amoc.                                                  *)
(***************************************************************************)
EXTENDS Naturals

CONSTANTS
  Contents,           \* the contents there are
  Unknown,            \* what selectDeleteFile returns without a cold row: ""
  Loop, Manual,       \* the two that call DeleteOne
  Nodes,              \* the nodes of the configuration
  MaxNow,             \* bound: the clock, in seconds
  MaxBreaks           \* bound: the SSH sessions that break

Deleters == {Loop, Manual}
Files == Contents \cup {Unknown}
Seconds == 0 .. MaxNow
ASSUME NamesAssumption == Unknown \notin Contents /\ Loop # Manual
ASSUME NodesAssumption == Nodes # {}
ASSUME BoundsAssumption == MaxNow \in Nat /\ MaxBreaks \in Nat

VARIABLES
  now,
  rows,               \* the table: "absent", "hot" or "cold"
  stored,             \* stored[f]: the nodes that hold f
  log,                \* log[t]: "none", or its last line: "", "success", "other"
  del,                \* del[d]: [pc, file, at: its log, acks: the nodes that
                      \* acknowledged, shared: another client had its log, too]
  stray,              \* clients whose SSH session broke: <<file, second>>
  breaks,
  excused             \* history: contents whose deletion failed or shared a log

delVars == <<now, rows, stored, log, del, stray, breaks, excused>>

Idle == [pc |-> "idle", file |-> Unknown, at |-> 0, acks |-> {}, shared |-> FALSE]

DelTypeOK ==
  /\ now \in Seconds
  /\ rows \in [Files -> {"absent", "hot", "cold"}] /\ rows[Unknown] = "absent"
  /\ stored \in [Files -> SUBSET Nodes]
  /\ log \in [Seconds -> {"none", "", "success", "other"}]
  /\ del \in [Deleters -> [pc : {"idle", "client", "tail", "row", "rmlog"}, file : Files,
                           at : Seconds, acks : SUBSET Nodes, shared : BOOLEAN]]
  /\ stray \subseteq Files \X Seconds /\ breaks \in 0 .. MaxBreaks
  /\ excused \subseteq Files

DelInit ==
  /\ now = 0
  /\ rows \in [Files -> {"absent", "hot", "cold"}] /\ rows[Unknown] = "absent"
  /\ stored = [f \in Files |-> IF f \in Contents THEN Nodes ELSE {}]
  /\ log = [t \in Seconds |-> "none"]
  /\ del = [d \in Deleters |-> Idle]
  /\ stray = {} /\ breaks = 0 /\ excused = {}

-----------------------------------------------------------------------------
\* RunDeleteOne takes a cold row, and goes on with an empty name without one;
\* -del-files takes the names it is given.
Chosen(d) ==
  IF d = Manual THEN Contents
  ELSE LET cold == {f \in Files : rows[f] = "cold"}
       IN IF cold = {} THEN {Unknown} ELSE cold

UsesLog(d) == del[d].pc # "idle" /\ del[d].at = now
LogTaken(d) == (\E e \in Deleters \ {d} : UsesLog(e)) \/ \E s \in stray : s[2] = now

\* DeleteOne up to the start of the client, which empties the log.
StartClient(d) ==
  /\ del[d].pc = "idle"
  /\ \E f \in Chosen(d) :
       LET new == [pc |-> "client", file |-> f, at |-> now, acks |-> {}, shared |-> LogTaken(d)]
       IN del' = [e \in Deleters |->
                    IF e = d THEN new
                    ELSE [del[e] EXCEPT !.shared = @ \/ UsesLog(e)]]
  /\ log' = [log EXCEPT ![now] = ""]
  /\ UNCHANGED <<now, rows, stored, stray, breaks, excused>>

DelGoto(d, label) == del' = [del EXCEPT ![d].pc = label]
Finish(d) == del' = [del EXCEPT ![d] = Idle]
Excuse(d) == excused' = excused \cup {del[d].file}

ClientDeletes(d) ==
  /\ del[d].pc = "client"
  /\ \E n \in Nodes \ del[d].acks :
       /\ stored' = [stored EXCEPT ![del[d].file] = @ \ {n}]
       /\ del' = [del EXCEPT ![d].acks = @ \cup {n}]
  /\ UNCHANGED <<now, rows, log, stray, breaks, excused>>

\* The last line of a log that several write is the line that ends last in the
\* file, not the one that was written last.
WriteLog(t, line) ==
  \/ log' = [log EXCEPT ![t] = line]
  \/ log[t] \in {"success", "other"} /\ UNCHANGED log

\* The client ends, and remote.Run with it; a node may have refused.
ClientEnds(d) ==
  /\ del[d].pc = "client"
  /\ DelGoto(d, "tail")
  /\ \/ del[d].acks = Nodes /\ WriteLog(del[d].at, "success") /\ UNCHANGED excused
     \/ WriteLog(del[d].at, "other") /\ Excuse(d)
  /\ UNCHANGED <<now, rows, stored, stray, breaks>>

\* The SSH session breaks: the deletion has failed, its client goes on.
ClientLost(d) ==
  /\ del[d].pc = "client" /\ breaks < MaxBreaks
  /\ Finish(d) /\ Excuse(d)
  /\ stray' = stray \cup {<<del[d].file, del[d].at>>}
  /\ breaks' = breaks + 1
  /\ UNCHANGED <<now, rows, stored, log>>

StrayDeletes ==
  /\ \E s \in stray, n \in Nodes : stored' = [stored EXCEPT ![s[1]] = @ \ {n}]
  /\ UNCHANGED <<now, rows, log, del, stray, breaks, excused>>

StrayEnds ==
  /\ \E s \in stray :
       /\ stray' = stray \ {s}
       /\ \/ stored[s[1]] = {} /\ WriteLog(s[2], "success")
          \/ WriteLog(s[2], "other")
  /\ UNCHANGED <<now, rows, stored, del, breaks, excused>>

\* Mutant: a log that does not speak of an error is good enough.
TailSaysNoError(d) ==
  /\ del[d].pc = "tail" /\ log[del[d].at] \in {"", "success", "other"}
  /\ DelGoto(d, "row")
  /\ UNCHANGED <<now, rows, stored, log, stray, breaks, excused>>

TailSaysSuccess(d) ==
  /\ del[d].pc = "tail" /\ log[del[d].at] = "success"
  /\ DelGoto(d, "row")
  /\ UNCHANGED <<now, rows, stored, log, stray, breaks, excused>>

\* An empty log, one that is not there, or any other line.
TailSaysOther(d) ==
  /\ del[d].pc = "tail" /\ log[del[d].at] # "success"
  /\ Finish(d)
  /\ IF del[d].shared THEN Excuse(d) ELSE UNCHANGED excused
  /\ UNCHANGED <<now, rows, stored, log, stray, breaks>>

\* Mutant: the row of a hot content stays, as in selectDeleteFile.
DeleteColdRow(d) ==
  /\ del[d].pc = "row"
  /\ rows' = [rows EXCEPT ![del[d].file] = IF @ = "cold" THEN "absent" ELSE @]
  /\ DelGoto(d, "rmlog")
  /\ UNCHANGED <<now, stored, log, stray, breaks, excused>>

DeleteRow(d) ==
  /\ del[d].pc = "row"
  /\ rows' = [rows EXCEPT ![del[d].file] = "absent"]
  /\ DelGoto(d, "rmlog")
  /\ UNCHANGED <<now, stored, log, stray, breaks, excused>>

\* tail cannot be run, or the DELETE fails.
CommandFails(d) ==
  /\ del[d].pc \in {"tail", "row"}
  /\ Finish(d) /\ Excuse(d)
  /\ UNCHANGED <<now, rows, stored, log, stray, breaks>>

\* remote.Delete of the log, which may fail.
RemoveLog(d) ==
  /\ del[d].pc = "rmlog"
  /\ Finish(d)
  /\ log' \in {log, [log EXCEPT ![del[d].at] = "none"]}
  /\ UNCHANGED <<now, rows, stored, stray, breaks, excused>>

\* updateDB of dummy-amoc.
updateDB ==
  /\ \E f \in Files : /\ rows[f] # "absent"
                      /\ rows' = [rows EXCEPT ![f] = IF @ = "hot" THEN "cold" ELSE "hot"]
  /\ UNCHANGED <<now, stored, log, del, stray, breaks, excused>>

\* The loop sleeps before it starts again.
Tick ==
  /\ now < MaxNow
  /\ now' = now + 1
  /\ UNCHANGED <<rows, stored, log, del, stray, breaks, excused>>

Delete(d) ==
  \/ StartClient(d) \/ ClientDeletes(d) \/ ClientEnds(d) \/ ClientLost(d)
  \/ TailSaysSuccess(d) \/ TailSaysOther(d) \/ DeleteRow(d) \/ CommandFails(d) \/ RemoveLog(d)

DelNext == (\E d \in Deleters : Delete(d)) \/ StrayDeletes \/ StrayEnds \/ updateDB \/ Tick

DelSpec == DelInit /\ [][DelNext]_delVars

-----------------------------------------------------------------------------
(* Properties.                                                             *)

\* The row of a content some node still holds is removed only by a deletion that
\* shared its log with another client and took that one's success for its own
\* (delete.go l.39-43, l.92-105).
RemovedForReal ==
  DelTypeOK /\ \A d \in Deleters :
    del[d].pc = "row" /\ stored[del[d].file] # {} => del[d].shared

\* A content that no node holds and that still has its row, with nobody deleting
\* it, was given up for a reason: a failed command or node, or a shared log.
LeftoverExplained ==
  \A f \in Contents :
    rows[f] # "absent" /\ stored[f] = {} =>
      f \in excused \/ \E d \in Deleters : del[d].pc # "idle" /\ del[d].file = f
=============================================================================
