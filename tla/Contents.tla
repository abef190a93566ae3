------------------------------ MODULE Contents ------------------------------
(***************************************************************************)
(* The life of a content in the CDN under kt-simul: delivered, made known  *)
(* in the table service_content, found cold and deleted again              *)
(* (src/kt-simul/ktsimul: deliver.go, hbdeliver.go, delete.go), with       *)
(* dummy-amoc flipping is_hot meanwhile (src/dummy-amoc/dummy-amoc.go).    *)
(*                                                                         *)
(* Three loops run side by side, each doing one thing at a time.  The      *)
(* contents on the nodes and the rows of the table are two stores that no  *)
(* transaction ties together: every loop changes one, then the other, and  *)
(* may fail or die in between.  A holdback delivery inserts its row from a *)
(* goroutine ten seconds after its START, whatever became of it.           *)
(*                                                                         *)
(* A content is named after the second its delivery started in, so names   *)
(* are the seconds 0 .. MaxNow; each loop sleeps a second at least.        *)
(*                                                                         *)
(* External, known from the commands the code builds: adsadapter-client    *)
(* and hbdeliver-client, which store or delete a content node by node and  *)
(* log "completed" or "success to delete" only when every node has         *)
(* acknowledged; they go on by themselves when their SSH session breaks.   *)
(***************************************************************************)
EXTENDS Naturals, Sequences, FiniteSets

CONSTANTS
  Center, Frozen, Locals,  \* the nodes of the configuration
  hotQueue,                \* the pattern of hot and cold deliveries
  HBDelay,                 \* seconds from the start of a holdback delivery to its row
  NoFile,
  MaxNow, MaxCrashes       \* bounds: the clock, the crashes of kt-simul

ASSUME HotQueueAssumption == hotQueue \in Seq(BOOLEAN) /\ Len(hotQueue) > 0
ASSUME ClockAssumption == {HBDelay, MaxNow, MaxCrashes} \subseteq Nat /\ NoFile \notin Nat

Files == 0 .. MaxNow
AllNodes == Center \cup Frozen \cup Locals

VARIABLES
  now,          \* the clock, in seconds
  rows,         \* the table: "absent", "hot" or "cold"
  stored,       \* stored[f]: the nodes that hold f
  dl, hb, del,  \* the loops: [pc, file, hot, acks]
  dlNext, hbNext,    \* the first second in which the loop may start again
  hotQueueCurIdx,
  hbPending,    \* goroutines of HBDeliverOne that wait: <<file, second due>>
  crashes,
  \* history
  wasCold,      \* rows that were cold at some time since their insertion
  wanted,       \* wanted[f]: the nodes f was to be delivered to when inserted
  hbNames,      \* contents of holdback deliveries
  failed,       \* contents whose delivery or insertion failed or broke off
  zombie,       \* contents whose client goes on without kt-simul
  selected,     \* contents chosen for deletion at least once
  halfDeleted   \* contents whose deletion failed or broke off

history == <<wanted, hbNames, failed, zombie, selected, halfDeleted>>
clocks == <<now, dlNext, hbNext>>
table == <<rows, wasCold>>
vars == <<now, rows, stored, dl, hb, del, dlNext, hbNext, hotQueueCurIdx, hbPending,
          crashes, wasCold, history>>

Idle == [pc |-> "idle", file |-> NoFile, hot |-> FALSE, acks |-> {}]
Loops(pcs) == [pc : {"idle"} \cup pcs, file : Files \cup {NoFile}, hot : BOOLEAN,
               acks : SUBSET AllNodes]

TypeOK ==
  /\ now \in 0 .. MaxNow /\ dlNext \in 0 .. MaxNow + 1 /\ hbNext \in 0 .. MaxNow + 1
  /\ rows \in [Files -> {"absent", "hot", "cold"}] /\ wasCold \subseteq Files
  /\ stored \in [Files -> SUBSET AllNodes] /\ wanted \in [Files -> SUBSET AllNodes]
  /\ dl \in Loops({"run", "grep", "insert"}) /\ hb \in Loops({"run", "grep"})
  /\ del \in Loops({"run", "tail", "row"})
  /\ hotQueueCurIdx \in 0 .. Len(hotQueue) - 1
  /\ hbPending \subseteq Files \X (0 .. MaxNow + HBDelay)
  /\ crashes \in 0 .. MaxCrashes
  /\ hbNames \cup failed \cup zombie \cup selected \cup halfDeleted \subseteq Files

Init ==
  /\ now = 0 /\ dlNext = 0 /\ hbNext = 0 /\ hotQueueCurIdx = 0 /\ crashes = 0
  /\ rows = [f \in Files |-> "absent"] /\ wasCold = {}
  /\ stored = [f \in Files |-> {}] /\ wanted = [f \in Files |-> {}]
  /\ dl = Idle /\ hb = Idle /\ del = Idle /\ hbPending = {}
  /\ hbNames = {} /\ failed = {} /\ zombie = {} /\ selected = {} /\ halfDeleted = {}

-----------------------------------------------------------------------------
(* The table.                                                              *)

Present(f) == rows[f] # "absent"
Kind(isHot) == IF isHot THEN "hot" ELSE "cold"

\* addServiceContents, when the INSERT goes through.
addServiceContents(f, isHot, nodes) ==
  /\ rows' = [rows EXCEPT ![f] = Kind(isHot)]
  /\ wasCold' = IF isHot THEN wasCold ELSE wasCold \cup {f}
  /\ wanted' = [wanted EXCEPT ![f] = nodes]

\* deleteServiceContents.
deleteServiceContents(f) ==
  /\ rows' = [rows EXCEPT ![f] = "absent"]
  /\ wasCold' = wasCold \ {f}

\* updateDB of dummy-amoc: no row, no effect.
updateDB ==
  /\ \E f \in Files, isHot \in BOOLEAN :
       /\ Present(f)
       /\ rows' = [rows EXCEPT ![f] = Kind(isHot)]
       /\ wasCold' = IF isHot THEN wasCold ELSE wasCold \cup {f}
  /\ UNCHANGED <<clocks, stored, dl, hb, del, hotQueueCurIdx, hbPending, crashes, history>>

-----------------------------------------------------------------------------
(* RunDeliverOne and DeliverOne.                                           *)

DeliverNodes(isHot) == Center \cup (IF isHot THEN Locals ELSE {})

IsHotForDeliver == hotQueue[hotQueueCurIdx + 1]

DeliverStart ==
  /\ dl.pc = "idle" /\ dlNext <= now
  /\ dl' = [pc |-> "run", file |-> now, hot |-> IsHotForDeliver, acks |-> {}]
  /\ dlNext' = now + 1
  /\ hotQueueCurIdx' = (hotQueueCurIdx + 1) % Len(hotQueue)
  /\ UNCHANGED <<now, hbNext, table, stored, hb, del, hbPending, crashes, history>>

\* adsadapter-client: one node after the other acknowledges.
DeliverStore ==
  /\ dl.pc = "run"
  /\ \E n \in DeliverNodes(dl.hot) \ dl.acks :
       /\ stored' = [stored EXCEPT ![dl.file] = @ \cup {n}]
       /\ dl' = [dl EXCEPT !.acks = @ \cup {n}]
  /\ UNCHANGED <<clocks, table, hb, del, hotQueueCurIdx, hbPending, crashes, history>>

DeliverRan ==
  /\ dl.pc = "run"
  /\ dl' = [dl EXCEPT !.pc = "grep"]
  /\ UNCHANGED <<clocks, table, stored, hb, del, hotQueueCurIdx, hbPending, crashes, history>>

DeliverFails ==
  /\ dl' = Idle
  /\ failed' = failed \cup {dl.file}

\* The SSH session breaks; adsadapter-client does not notice.
DeliverBreaks ==
  /\ dl.pc = "run"
  /\ DeliverFails
  /\ zombie' = zombie \cup {dl.file}
  /\ UNCHANGED <<clocks, table, stored, hb, del, hotQueueCurIdx, hbPending, crashes, wanted,
                 hbNames, selected, halfDeleted>>

\* Mutant: "failed" in what grep prints is not looked for.
DeliverCompletedAnyway ==
  /\ dl.pc = "grep"
  /\ dl' = [dl EXCEPT !.pc = "insert"]
  /\ UNCHANGED <<clocks, table, stored, hb, del, hotQueueCurIdx, hbPending, crashes, history>>

DeliverCompleted ==
  /\ dl.pc = "grep" /\ dl.acks = DeliverNodes(dl.hot)
  /\ dl' = [dl EXCEPT !.pc = "insert"]
  /\ UNCHANGED <<clocks, table, stored, hb, del, hotQueueCurIdx, hbPending, crashes, history>>

\* grep could not be run or found nothing; what it found says "failed"; the
\* INSERT failed, always so when the row is there.
DeliverUnknown ==
  /\ dl.pc \in {"grep", "insert"}
  /\ DeliverFails
  /\ UNCHANGED <<clocks, table, stored, hb, del, hotQueueCurIdx, hbPending, crashes, wanted,
                 hbNames, zombie, selected, halfDeleted>>

DeliverInserted ==
  /\ dl.pc = "insert" /\ ~Present(dl.file)
  /\ addServiceContents(dl.file, dl.hot, DeliverNodes(dl.hot))
  /\ dl' = Idle
  /\ UNCHANGED <<clocks, stored, hb, del, hotQueueCurIdx, hbPending, crashes, hbNames,
                 failed, zombie, selected, halfDeleted>>

-----------------------------------------------------------------------------
(* RunHBDeliverOne and HBDeliverOne.                                       *)

HBNodes == Center \cup Locals

HBStart ==
  /\ hb.pc = "idle" /\ hbNext <= now
  /\ hb' = [pc |-> "run", file |-> now, hot |-> TRUE, acks |-> {}]
  /\ hbNext' = now + 1
  /\ hbPending' = hbPending \cup {<<now, now + HBDelay>>}
  /\ hbNames' = hbNames \cup {now}
  /\ UNCHANGED <<now, dlNext, table, stored, dl, del, hotQueueCurIdx, crashes, wanted, failed,
                 zombie, selected, halfDeleted>>

HBStore ==
  /\ hb.pc = "run"
  /\ \E n \in HBNodes \ hb.acks :
       /\ stored' = [stored EXCEPT ![hb.file] = @ \cup {n}]
       /\ hb' = [hb EXCEPT !.acks = @ \cup {n}]
  /\ UNCHANGED <<clocks, table, dl, del, hotQueueCurIdx, hbPending, crashes, history>>

HBRan ==
  /\ hb.pc = "run"
  /\ hb' = [hb EXCEPT !.pc = "grep"]
  /\ UNCHANGED <<clocks, table, stored, dl, del, hotQueueCurIdx, hbPending, crashes, history>>

HBBreaks ==
  /\ hb.pc = "run"
  /\ hb' = Idle
  /\ failed' = failed \cup {hb.file} /\ zombie' = zombie \cup {hb.file}
  /\ UNCHANGED <<clocks, table, stored, dl, del, hotQueueCurIdx, hbPending, crashes, wanted,
                 hbNames, selected, halfDeleted>>

\* The delivery is judged by the log as above, but a failure is only reported.
HBEnds ==
  /\ hb.pc = "grep"
  /\ hb' = Idle
  /\ \/ hb.acks = HBNodes /\ UNCHANGED failed
     \/ failed' = failed \cup {hb.file}
  /\ UNCHANGED <<clocks, table, stored, dl, del, hotQueueCurIdx, hbPending, crashes, wanted,
                 hbNames, zombie, selected, halfDeleted>>

\* The goroutine: it never looks at the delivery.  INSERT fails when the row is
\* there, or by itself, and the failure is only logged.
HBInsert ==
  /\ \E p \in hbPending :
       /\ p[2] <= now
       /\ hbPending' = hbPending \ {p}
       /\ \/ /\ ~Present(p[1])
             /\ addServiceContents(p[1], TRUE, HBNodes)
             /\ UNCHANGED failed
          \/ /\ failed' = failed \cup {p[1]}
             /\ UNCHANGED <<table, wanted>>
  /\ UNCHANGED <<clocks, stored, dl, hb, del, hotQueueCurIdx, crashes, hbNames, zombie,
                 selected, halfDeleted>>

-----------------------------------------------------------------------------
(* RunDeleteOne, DeleteOne and deleteOneInternal.                          *)

\* Mutant: the row to delete is chosen among all rows.
selectAnyFile == {f \in Files : Present(f)}

\* Without a cold row the loop goes on with an empty name and fails later.
selectDeleteFile == {f \in Files : rows[f] = "cold"}

DeleteStart ==
  /\ del.pc = "idle"
  /\ \E f \in selectDeleteFile :
       /\ del' = [pc |-> "run", file |-> f, hot |-> FALSE, acks |-> {}]
       /\ selected' = selected \cup {f}
  /\ UNCHANGED <<clocks, table, stored, dl, hb, hotQueueCurIdx, hbPending, crashes, wanted,
                 hbNames, failed, zombie, halfDeleted>>

\* Mutant: the local nodes are not among the nodes to delete from.
DeleteNodesNoLocals == Center \cup Frozen

DeleteNodes == Center \cup Frozen \cup Locals

DeleteUnstore ==
  /\ del.pc = "run"
  /\ \E n \in DeleteNodes \ del.acks :
       /\ stored' = [stored EXCEPT ![del.file] = @ \ {n}]
       /\ del' = [del EXCEPT !.acks = @ \cup {n}]
  /\ UNCHANGED <<clocks, table, dl, hb, hotQueueCurIdx, hbPending, crashes, history>>

DeleteRan ==
  /\ del.pc = "run"
  /\ del' = [del EXCEPT !.pc = "tail"]
  /\ UNCHANGED <<clocks, table, stored, dl, hb, hotQueueCurIdx, hbPending, crashes, history>>

\* Mutant: any line is taken for a success.
DeleteSucceededAnyway ==
  /\ del.pc = "tail"
  /\ del' = [del EXCEPT !.pc = "row"]
  /\ UNCHANGED <<clocks, table, stored, dl, hb, hotQueueCurIdx, hbPending, crashes, history>>

DeleteSucceeded ==
  /\ del.pc = "tail" /\ del.acks = DeleteNodes
  /\ del' = [del EXCEPT !.pc = "row"]
  /\ UNCHANGED <<clocks, table, stored, dl, hb, hotQueueCurIdx, hbPending, crashes, history>>

\* The command breaks, tail cannot be run, the log says anything else, or the
\* DELETE fails: the row stays.
DeleteFails ==
  /\ del.pc # "idle"
  /\ del' = Idle
  /\ halfDeleted' = halfDeleted \cup {del.file}
  /\ UNCHANGED <<clocks, table, stored, dl, hb, hotQueueCurIdx, hbPending, crashes, wanted,
                 hbNames, failed, zombie, selected>>

DeleteRow ==
  /\ del.pc = "row"
  /\ deleteServiceContents(del.file)
  /\ del' = Idle
  /\ UNCHANGED <<clocks, stored, dl, hb, hotQueueCurIdx, hbPending, crashes, history>>

-----------------------------------------------------------------------------
(* What goes on without kt-simul, time, and the end of the process.        *)

\* Clients whose SSH session is gone.
ZombieStep ==
  /\ \E f \in Files, n \in AllNodes :
       \/ f \in zombie /\ n \in HBNodes /\ stored' = [stored EXCEPT ![f] = @ \cup {n}]
       \/ f \in halfDeleted /\ stored' = [stored EXCEPT ![f] = @ \ {n}]
  /\ UNCHANGED <<clocks, table, dl, hb, del, hotQueueCurIdx, hbPending, crashes, history>>

Tick ==
  /\ now < MaxNow
  /\ now' = now + 1
  /\ UNCHANGED <<dlNext, hbNext, table, stored, dl, hb, del, hotQueueCurIdx, hbPending,
                 crashes, history>>

\* kt-simul dies (a panic of fileForSetup, say) and is started again: the loops
\* begin with a sleep, the goroutines that wait are gone for good.
Busy(loop) == IF loop.pc = "idle" THEN {} ELSE {loop.file}
Crash ==
  /\ crashes < MaxCrashes
  /\ crashes' = crashes + 1
  /\ dl' = Idle /\ hb' = Idle /\ del' = Idle
  /\ dlNext' = now + 1 /\ hbNext' = now + 1 /\ hotQueueCurIdx' = 0
  /\ hbPending' = {}
  /\ failed' = failed \cup Busy(dl) \cup Busy(hb) \cup {p[1] : p \in hbPending}
  /\ zombie' = zombie \cup Busy(dl) \cup Busy(hb)
  /\ halfDeleted' = halfDeleted \cup Busy(del)
  /\ UNCHANGED <<now, table, stored, wanted, hbNames, selected>>

Deliver ==
  \/ DeliverStart \/ DeliverStore \/ DeliverRan \/ DeliverBreaks \/ DeliverCompleted
  \/ DeliverUnknown \/ DeliverInserted
HBDeliver == HBStart \/ HBStore \/ HBRan \/ HBBreaks \/ HBEnds \/ HBInsert
Delete ==
  DeleteStart \/ DeleteUnstore \/ DeleteRan \/ DeleteSucceeded \/ DeleteFails \/ DeleteRow

Next == Deliver \/ HBDeliver \/ Delete \/ updateDB \/ ZombieStep \/ Tick \/ Crash

Spec == Init /\ [][Next]_vars

-----------------------------------------------------------------------------
(* Properties.                                                             *)

Working(loop, f) == loop.pc # "idle" /\ loop.file = f

\* A row without its content on the nodes it was delivered to has a reason:
\* the content is being deleted or its deletion broke off, or the row came from
\* the timer of a holdback delivery (hbdeliver.go l.74-81) that is still at
\* work, failed, or whose content was deleted before.  An ordinary delivery
\* that lost nothing never leaves a row without content.
RowBacked ==
  /\ TypeOK
  /\ \A f \in Files : Present(f) /\ ~(wanted[f] \subseteq stored[f]) =>
       \/ Working(del, f) \/ f \in halfDeleted
       \/ f \in hbNames /\ (Working(hb, f) \/ f \in failed \/ f \in selected)

\* When a row is removed no node holds the content any more (delete.go
\* l.93-109), unless a holdback delivery has the same name.
DeletedEverywhere ==
  [][\A f \in Files : Present(f) /\ rows'[f] = "absent" /\ f \notin hbNames
       => stored[f] = {}]_vars

\* A content that nodes hold without a row, and that nothing is being done
\* about, has a reason: its delivery failed, or it is a holdback delivery whose
\* row is still to come or was deleted under it.
OrphanExplained ==
  \A f \in Files :
    (stored[f] # {} /\ ~Present(f) /\ ~Working(dl, f) /\ ~Working(del, f)) =>
      \/ f \in failed
      \/ f \in hbNames /\ (f \in selected \/ \E p \in hbPending : p[1] = f)

\* What the table promises to those who read it: a row goes only after it was
\* cold, and an insertion never replaces a row.
Table == INSTANCE ServiceContent
TableImplemented == Table!TableSpec
=============================================================================
