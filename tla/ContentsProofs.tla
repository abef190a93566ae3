--------------------------- MODULE ContentsProofs ---------------------------
(***************************************************************************)
(* Proofs about the contents of the CDN and the table of them: for any     *)
(* nodes, any pattern of hot and cold deliveries, any delay of the         *)
(* holdback insertion, any number of deliveries and of crashes.            *)
(*                                                                         *)
(* And about what is put on the machines before there is any content:      *)
(* RemoteCopy, for any list of jobs, any number of starts and every        *)
(* outcome of the race for the pipe.                                       *)
(***************************************************************************)
EXTENDS Contents, RemoteCopy, TLAPS

\* A delivery has a name of its own.  Only a holdback delivery of the same second
\* shares it, and only then can the content of a delivery under way be in the
\* table, be written by a client left behind, or be chosen for deletion.
Names ==
  /\ dl.pc # "idle" => /\ dl.file \in Files /\ dl.file < dlNext
                       /\ Present(dl.file) \/ dl.file \in zombie \cup selected => dl.file \in hbNames
  /\ \A f \in Files : Present(f) \/ f \in zombie \cup selected => f \in hbNames \/ f < dlNext
  /\ \A f \in zombie : Present(f) => f \in hbNames
  /\ hb.pc # "idle" => hb.file \in hbNames
  /\ \A p \in hbPending : p[1] \in hbNames
  /\ dlNext <= now + 1

\* What is chosen for deletion was cold, and only its deletion removes a row.
Colds ==
  /\ \A f \in wasCold : Present(f)
  /\ \A f \in Files : rows[f] = "cold" => f \in wasCold
  /\ del.pc # "idle" => del.file \in wasCold /\ del.file \in selected
  /\ halfDeleted \subseteq selected /\ zombie \subseteq failed

\* What a node acknowledged to a delivery is there until somebody deletes it.
Delivered ==
  /\ dl.pc # "idle" => dl.acks \subseteq stored[dl.file] \/ dl.file \in selected
  /\ dl.pc = "insert" => dl.acks = DeliverNodes(dl.hot)
  /\ hb.pc # "idle" => hb.acks \subseteq stored[hb.file] \/ hb.file \in selected
  /\ \A f \in Files : wanted[f] \subseteq HBNodes

\* What a node acknowledged to a deletion stays away.
Undelivered ==
  /\ del.pc # "idle" /\ del.file \notin hbNames => stored[del.file] \cap del.acks = {}
  /\ del.pc = "row" => del.acks = DeleteNodes

\* A holdback delivery: its content, and its row.
HBContent(f) == Working(hb, f) \/ f \in failed \/ f \in selected \/ HBNodes \subseteq stored[f]
HBRow(f) == f \in failed \/ f \in selected \/ Present(f) \/ \E p \in hbPending : p[1] = f
HeldBack == \A f \in hbNames : HBContent(f) /\ HBRow(f)

ContentsInv ==
  TypeOK /\ Names /\ Colds /\ Delivered /\ Undelivered /\ HeldBack /\ RowBacked /\ OrphanExplained

-----------------------------------------------------------------------------
LEMMA ConstantsTyped ==
  /\ HBDelay \in Nat /\ MaxNow \in Nat /\ MaxCrashes \in Nat /\ NoFile \notin Nat
  /\ hotQueue \in Seq(BOOLEAN) /\ Len(hotQueue) \in Nat /\ Len(hotQueue) > 0
  /\ Files \subseteq Nat /\ NoFile \notin Files
BY ClockAssumption, HotQueueAssumption DEF Files

LEMMA NodesTyped ==
  /\ \A h \in BOOLEAN : DeliverNodes(h) \subseteq HBNodes
  /\ HBNodes \subseteq AllNodes /\ DeleteNodes = AllNodes
BY DEF DeliverNodes, HBNodes, DeleteNodes, AllNodes

LEMMA TypesUnfold ==
  ASSUME TypeOK
  PROVE  /\ dl.pc # "idle" => dl.file \in Files \cup {NoFile}
         /\ \A loop \in {dl, hb, del} :
              loop.file \in Files \cup {NoFile} /\ loop.hot \in BOOLEAN /\ loop.acks \subseteq AllNodes
         /\ \A f \in Files : /\ rows[f] \in {"absent", "hot", "cold"}
                             /\ stored[f] \subseteq AllNodes /\ wanted[f] \subseteq AllNodes
         /\ \A p \in hbPending : p[1] \in Files
         /\ now \in Nat /\ now \in Files /\ dlNext \in Nat /\ hbNext \in Nat
BY ConstantsTyped DEF TypeOK, Loops, Files

-----------------------------------------------------------------------------
(* What a step leaves alone.                                               *)

LEMMA TableChanges ==
  [Next]_vars => UNCHANGED <<rows, wasCold, wanted>>
                   \/ updateDB \/ DeliverInserted \/ HBInsert \/ DeleteRow
BY DEF Next, vars, history, table, clocks, Deliver, HBDeliver, Delete,
       DeliverStart, DeliverStore, DeliverRan, DeliverBreaks, DeliverCompleted, DeliverUnknown,
       HBStart, HBStore, HBRan, HBBreaks, HBEnds,
       DeleteStart, DeleteUnstore, DeleteRan, DeleteSucceeded, DeleteFails,
       ZombieStep, Tick, Crash

LEMMA StoredChanges ==
  [Next]_vars => stored' = stored \/ DeliverStore \/ HBStore \/ DeleteUnstore \/ ZombieStep
BY DEF Next, vars, history, table, clocks, Deliver, HBDeliver, Delete,
       DeliverStart, DeliverRan, DeliverBreaks, DeliverCompleted, DeliverUnknown, DeliverInserted,
       HBStart, HBRan, HBBreaks, HBEnds, HBInsert,
       DeleteStart, DeleteRan, DeleteSucceeded, DeleteFails, DeleteRow,
       updateDB, Tick, Crash

LEMMA DeliverChanges ==
  [Next]_vars => UNCHANGED <<dl, dlNext>>
                   \/ DeliverStart \/ DeliverStore \/ DeliverRan \/ DeliverBreaks
                   \/ DeliverCompleted \/ DeliverUnknown \/ DeliverInserted \/ Crash
BY DEF Next, vars, history, table, clocks, Deliver, HBDeliver, Delete,
       HBStart, HBStore, HBRan, HBBreaks, HBEnds, HBInsert,
       DeleteStart, DeleteUnstore, DeleteRan, DeleteSucceeded, DeleteFails, DeleteRow,
       updateDB, ZombieStep, Tick

LEMMA HBDeliverChanges ==
  [Next]_vars => UNCHANGED <<hb, hbPending, hbNames>>
                   \/ HBStart \/ HBStore \/ HBRan \/ HBBreaks \/ HBEnds \/ HBInsert \/ Crash
BY DEF Next, vars, history, table, clocks, Deliver, HBDeliver, Delete,
       DeliverStart, DeliverStore, DeliverRan, DeliverBreaks, DeliverCompleted, DeliverUnknown,
       DeliverInserted,
       DeleteStart, DeleteUnstore, DeleteRan, DeleteSucceeded, DeleteFails, DeleteRow,
       updateDB, ZombieStep, Tick

LEMMA DeleteChanges ==
  [Next]_vars => UNCHANGED <<del, selected, halfDeleted>>
                   \/ DeleteStart \/ DeleteUnstore \/ DeleteRan \/ DeleteSucceeded
                   \/ DeleteFails \/ DeleteRow \/ Crash
BY DEF Next, vars, history, table, clocks, Deliver, HBDeliver, Delete,
       DeliverStart, DeliverStore, DeliverRan, DeliverBreaks, DeliverCompleted, DeliverUnknown,
       DeliverInserted, HBStart, HBStore, HBRan, HBBreaks, HBEnds, HBInsert,
       updateDB, ZombieStep, Tick

\* What happened is not forgotten, and only an end that breaks off leaves a
\* client behind.
LEMMA HistoryGrows ==
  ASSUME [Next]_vars
  PROVE  /\ hbNames \subseteq hbNames' /\ failed \subseteq failed' /\ zombie \subseteq zombie'
         /\ selected \subseteq selected' /\ halfDeleted \subseteq halfDeleted'
         /\ zombie' \subseteq zombie \cup Busy(dl) \cup Busy(hb)
         /\ zombie' \ zombie \subseteq failed'
         /\ failed' \subseteq failed \cup Busy(dl) \cup Busy(hb) \cup {p[1] : p \in hbPending}
         /\ halfDeleted' \subseteq halfDeleted \cup Busy(del)
         /\ zombie' \subseteq zombie \cup Busy(hb) \/ dl' = Idle
         /\ DeliverInserted => zombie' = zombie
<1> SUFFICES /\ hbNames \subseteq hbNames' /\ failed \subseteq failed' /\ zombie \subseteq zombie'
             /\ selected \subseteq selected' /\ halfDeleted \subseteq halfDeleted'
             /\ zombie' \subseteq zombie \cup Busy(dl) \cup Busy(hb)
             /\ zombie' \ zombie \subseteq failed'
             /\ failed' \subseteq failed \cup Busy(dl) \cup Busy(hb) \cup {p[1] : p \in hbPending}
             /\ halfDeleted' \subseteq halfDeleted \cup Busy(del)
             /\ zombie' \subseteq zombie \cup Busy(hb) \/ dl' = Idle
  BY DEF DeliverInserted
<1>1. CASE Deliver
  BY <1>1 DEF Deliver, DeliverStart, DeliverStore, DeliverRan, DeliverBreaks, DeliverCompleted,
              DeliverUnknown, DeliverInserted, DeliverFails, history, Busy, Idle
<1>2. CASE HBDeliver
  BY <1>2 DEF HBDeliver, HBStart, HBStore, HBRan, HBBreaks, HBEnds, HBInsert, history, Busy
<1>3. CASE Delete
  BY <1>3 DEF Delete, DeleteStart, DeleteUnstore, DeleteRan, DeleteSucceeded, DeleteFails,
              DeleteRow, history, Busy
<1>4. CASE updateDB \/ ZombieStep \/ Tick \/ Crash \/ UNCHANGED vars
  BY <1>4 DEF updateDB, ZombieStep, Tick, Crash, vars, history, Busy
<1> QED BY <1>1, <1>2, <1>3, <1>4 DEF Next

-----------------------------------------------------------------------------
LEMMA ContentsStart == Init => ContentsInv
<1> SUFFICES ASSUME Init PROVE ContentsInv
  OBVIOUS
<1> USE ConstantsTyped DEF Init, Idle
<1>1. TypeOK
  <2>1. 0 \in 0 .. MaxNow /\ 0 \in 0 .. MaxNow + 1 /\ 0 \in 0 .. MaxCrashes
        /\ 0 \in 0 .. Len(hotQueue) - 1
    OBVIOUS
  <2> QED BY <2>1 DEF TypeOK, Loops
<1>2. Names /\ Colds
  BY DEF Names, Colds, Present
<1>3. Delivered /\ Undelivered /\ HeldBack
  BY DEF Delivered, Undelivered, HeldBack
<1>4. RowBacked /\ OrphanExplained
  BY <1>1 DEF RowBacked, OrphanExplained, Present
<1> QED BY <1>1, <1>2, <1>3, <1>4 DEF ContentsInv

-----------------------------------------------------------------------------
(* Types.                                                                  *)

LEMMA Acknowledge ==
  ASSUME NEW S, NEW r \in Loops(S), NEW n \in AllNodes
  PROVE  LET q == [r EXCEPT !.acks = @ \cup {n}] IN
           q \in Loops(S) /\ q.pc = r.pc /\ q.file = r.file /\ q.hot = r.hot
           /\ q.acks = r.acks \cup {n}
BY DEF Loops

LEMMA GoOn ==
  ASSUME NEW S, NEW r \in Loops(S), NEW p \in S
  PROVE  LET q == [r EXCEPT !.pc = p] IN
           q \in Loops(S) /\ q.pc = p /\ q.file = r.file /\ q.hot = r.hot /\ q.acks = r.acks
BY DEF Loops

LEMMA IdleLoop == \A S : Idle \in Loops(S) /\ Idle.pc = "idle"
BY DEF Idle, Loops

LEMMA StartLoop ==
  ASSUME NEW S, NEW p \in S, NEW f \in Files, NEW h \in BOOLEAN
  PROVE  LET q == [pc |-> p, file |-> f, hot |-> h, acks |-> {}] IN
           q \in Loops(S) /\ q.pc = p /\ q.file = f /\ q.hot = h /\ q.acks = {}
BY DEF Loops

LEMMA LoopsTyped ==
  TypeOK => /\ dl \in Loops({"run", "grep", "insert"}) /\ hb \in Loops({"run", "grep"})
            /\ del \in Loops({"run", "tail", "row"})
BY DEF TypeOK

\* How the loop of the deliveries goes on.
LEMMA DeliverSteps ==
  ASSUME TypeOK
  PROVE  /\ DeliverStart => /\ dl.pc = "idle" /\ dlNext <= now /\ dlNext' = now + 1
                            /\ dl'.pc = "run" /\ dl'.file = now /\ dl'.acks = {}
                            /\ dl' \in Loops({"run", "grep", "insert"})
         /\ DeliverStore => /\ dl.pc = "run" /\ dl'.pc = "run" /\ dl'.file = dl.file
                            /\ dl'.hot = dl.hot
                            /\ \E n \in DeliverNodes(dl.hot) :
                                 /\ dl'.acks = dl.acks \cup {n}
                                 /\ stored' = [stored EXCEPT ![dl.file] = @ \cup {n}]
                            /\ dl' \in Loops({"run", "grep", "insert"})
         /\ DeliverRan \/ DeliverCompleted =>
              /\ dl.pc # "idle" /\ dl'.pc # "idle" /\ dl'.file = dl.file
              /\ dl'.hot = dl.hot /\ dl'.acks = dl.acks
              /\ dl'.pc = "insert" => dl.acks = DeliverNodes(dl.hot)
              /\ dl' \in Loops({"run", "grep", "insert"})
         /\ DeliverBreaks \/ DeliverUnknown \/ DeliverInserted \/ Crash =>
              dl'.pc = "idle" /\ dl' \in Loops({"run", "grep", "insert"})
         /\ DeliverBreaks \/ DeliverUnknown \/ DeliverInserted => dl.pc # "idle"
<1> DEFINE S == {"run", "grep", "insert"}
<1>0. dl \in Loops(S)
  BY LoopsTyped
<1> HIDE DEF S
<1>1. DeliverStart => /\ dl.pc = "idle" /\ dlNext <= now /\ dlNext' = now + 1
                      /\ dl'.pc = "run" /\ dl'.file = now /\ dl'.acks = {} /\ dl' \in Loops(S)
  <2> SUFFICES ASSUME DeliverStart
               PROVE  /\ dl.pc = "idle" /\ dlNext <= now /\ dlNext' = now + 1
                      /\ dl'.pc = "run" /\ dl'.file = now /\ dl'.acks = {} /\ dl' \in Loops(S)
    OBVIOUS
  <2>1. IsHotForDeliver \in BOOLEAN
    <3>1. hotQueueCurIdx + 1 \in 1 .. Len(hotQueue)
      BY ConstantsTyped DEF TypeOK
    <3> QED BY <3>1, ConstantsTyped DEF IsHotForDeliver
  <2>2. now \in Files /\ "run" \in S
    BY TypesUnfold DEF S
  <2>3. dl' = [pc |-> "run", file |-> now, hot |-> IsHotForDeliver, acks |-> {}]
    BY DEF DeliverStart
  <2> QED BY <2>1, <2>2, <2>3, StartLoop DEF DeliverStart
<1>2. ASSUME DeliverStore
      PROVE  /\ dl.pc = "run" /\ dl'.pc = "run" /\ dl'.file = dl.file /\ dl'.hot = dl.hot
             /\ \E n \in DeliverNodes(dl.hot) :
                  /\ dl'.acks = dl.acks \cup {n}
                  /\ stored' = [stored EXCEPT ![dl.file] = @ \cup {n}]
             /\ dl' \in Loops(S)
  <2>1. PICK n \in DeliverNodes(dl.hot) :
          /\ stored' = [stored EXCEPT ![dl.file] = @ \cup {n}]
          /\ dl' = [dl EXCEPT !.acks = @ \cup {n}]
    BY <1>2 DEF DeliverStore
  <2>2. n \in AllNodes
    BY NodesTyped, TypesUnfold
  <2>3. dl.pc = "run"
    BY <1>2 DEF DeliverStore
  <2>4. /\ dl' \in Loops(S) /\ dl'.pc = dl.pc /\ dl'.file = dl.file /\ dl'.hot = dl.hot
        /\ dl'.acks = dl.acks \cup {n}
    BY <1>0, <2>1, <2>2, Acknowledge
  <2> QED BY <2>1, <2>2, <2>3, <2>4
<1>3. ASSUME DeliverRan \/ DeliverCompleted
      PROVE  /\ dl.pc # "idle" /\ dl'.pc # "idle" /\ dl'.file = dl.file
             /\ dl'.hot = dl.hot /\ dl'.acks = dl.acks
             /\ dl'.pc = "insert" => dl.acks = DeliverNodes(dl.hot)
             /\ dl' \in Loops(S)
  <2>1. "grep" \in S /\ "insert" \in S
    BY DEF S
  <2>2. CASE DeliverRan
    BY <1>0, <2>1, <2>2, GoOn DEF DeliverRan
  <2>3. CASE DeliverCompleted
    BY <1>0, <2>1, <2>3, GoOn DEF DeliverCompleted
  <2> QED BY <1>3, <2>2, <2>3
<1>4. DeliverBreaks \/ DeliverUnknown \/ DeliverInserted \/ Crash => dl' = Idle
  BY DEF DeliverBreaks, DeliverUnknown, DeliverInserted, Crash, DeliverFails
<1>5. DeliverBreaks \/ DeliverUnknown \/ DeliverInserted => dl.pc # "idle"
  BY DEF DeliverBreaks, DeliverUnknown, DeliverInserted
<1> QED BY <1>1, <1>2, <1>3, <1>4, <1>5, IdleLoop DEF S

\* How the loop of the holdback deliveries goes on.
LEMMA HBSteps ==
  ASSUME TypeOK
  PROVE  /\ HBStart => /\ hb.pc = "idle" /\ hb'.pc = "run" /\ hb'.file = now /\ hb'.acks = {}
                       /\ hbPending' = hbPending \cup {<<now, now + HBDelay>>}
                       /\ hbNames' = hbNames \cup {now}
                       /\ hb' \in Loops({"run", "grep"})
         /\ HBStore => /\ hb.pc = "run" /\ hb'.pc = "run" /\ hb'.file = hb.file
                       /\ hbPending' = hbPending /\ hbNames' = hbNames
                       /\ \E n \in HBNodes :
                            /\ hb'.acks = hb.acks \cup {n}
                            /\ stored' = [stored EXCEPT ![hb.file] = @ \cup {n}]
                       /\ hb' \in Loops({"run", "grep"})
         /\ HBRan => /\ hb.pc # "idle" /\ hb'.pc # "idle" /\ hb'.file = hb.file
                     /\ hb'.acks = hb.acks /\ hbPending' = hbPending /\ hbNames' = hbNames
                     /\ hb' \in Loops({"run", "grep"})
         /\ HBBreaks \/ HBEnds \/ Crash => hb'.pc = "idle" /\ hb' \in Loops({"run", "grep"})
                                           /\ hbNames' = hbNames
         /\ HBBreaks \/ HBEnds => hb.pc # "idle" /\ hbPending' = hbPending
         /\ HBInsert => hb' = hb /\ hbNames' = hbNames
<1> DEFINE S == {"run", "grep"}
<1>0. hb \in Loops(S)
  BY LoopsTyped
<1> HIDE DEF S
<1>1. ASSUME HBStart
      PROVE  /\ hb.pc = "idle" /\ hb'.pc = "run" /\ hb'.file = now /\ hb'.acks = {}
             /\ hb' \in Loops(S)
  <2>1. now \in Files /\ "run" \in S /\ TRUE \in BOOLEAN
    BY TypesUnfold DEF S
  <2>2. hb' = [pc |-> "run", file |-> now, hot |-> TRUE, acks |-> {}] /\ hb.pc = "idle"
    BY <1>1 DEF HBStart
  <2> QED BY <2>1, <2>2, StartLoop
<1>2. ASSUME HBStore
      PROVE  /\ hb.pc = "run" /\ hb'.pc = "run" /\ hb'.file = hb.file
             /\ hbPending' = hbPending /\ hbNames' = hbNames
             /\ \E n \in HBNodes :
                  /\ hb'.acks = hb.acks \cup {n}
                  /\ stored' = [stored EXCEPT ![hb.file] = @ \cup {n}]
             /\ hb' \in Loops(S)
  <2>1. PICK n \in HBNodes : /\ stored' = [stored EXCEPT ![hb.file] = @ \cup {n}]
                             /\ hb' = [hb EXCEPT !.acks = @ \cup {n}]
    BY <1>2 DEF HBStore
  <2>2. n \in AllNodes
    BY NodesTyped
  <2>3. hb.pc = "run" /\ hbPending' = hbPending /\ hbNames' = hbNames
    BY <1>2 DEF HBStore, history
  <2>4. /\ hb' \in Loops(S) /\ hb'.pc = hb.pc /\ hb'.file = hb.file
        /\ hb'.acks = hb.acks \cup {n}
    BY <1>0, <2>1, <2>2, Acknowledge
  <2> QED BY <2>1, <2>2, <2>3, <2>4
<1>3. ASSUME HBRan
      PROVE  /\ hb.pc # "idle" /\ hb'.pc # "idle" /\ hb'.file = hb.file
             /\ hb'.acks = hb.acks /\ hbPending' = hbPending /\ hbNames' = hbNames
             /\ hb' \in Loops(S)
  <2>1. "grep" \in S
    BY DEF S
  <2>2. hb.pc # "idle" /\ hb' = [hb EXCEPT !.pc = "grep"]
    BY <1>3 DEF HBRan
  <2>3. hbPending' = hbPending /\ hbNames' = hbNames
    BY <1>3 DEF HBRan, history
  <2> QED BY <1>0, <2>1, <2>2, <2>3, GoOn
<1>4. HBBreaks \/ HBEnds \/ Crash => hb' = Idle /\ hbNames' = hbNames
  BY DEF HBBreaks, HBEnds, Crash
<1>5. HBBreaks \/ HBEnds => hb.pc # "idle" /\ hbPending' = hbPending
  BY DEF HBBreaks, HBEnds
<1>6. HBInsert => hb' = hb /\ hbNames' = hbNames
  BY DEF HBInsert
<1>7. HBStart => hbPending' = hbPending \cup {<<now, now + HBDelay>>} /\ hbNames' = hbNames \cup {now}
  BY DEF HBStart
<1> QED BY <1>1, <1>2, <1>3, <1>4, <1>5, <1>6, <1>7, IdleLoop DEF S

\* How the loop of the deletions goes on.
LEMMA DeleteSteps ==
  ASSUME TypeOK
  PROVE  /\ DeleteStart => /\ del.pc = "idle" /\ del'.pc = "run" /\ del'.acks = {}
                           /\ del'.file \in Files /\ rows[del'.file] = "cold"
                           /\ selected' = selected \cup {del'.file}
                           /\ del' \in Loops({"run", "tail", "row"})
         /\ DeleteUnstore => /\ del.pc = "run" /\ del'.pc = "run" /\ del'.file = del.file
                             /\ selected' = selected
                             /\ \E n \in AllNodes :
                                  /\ del'.acks = del.acks \cup {n}
                                  /\ stored' = [stored EXCEPT ![del.file] = @ \ {n}]
                             /\ del' \in Loops({"run", "tail", "row"})
         /\ DeleteRan \/ DeleteSucceeded =>
              /\ del.pc # "idle" /\ del'.pc # "idle" /\ del'.file = del.file
              /\ del'.acks = del.acks /\ selected' = selected
              /\ del'.pc = "row" => del.acks = DeleteNodes
              /\ del' \in Loops({"run", "tail", "row"})
         /\ DeleteFails \/ DeleteRow \/ Crash =>
              /\ del'.pc = "idle" /\ selected' = selected
              /\ del' \in Loops({"run", "tail", "row"})
         /\ DeleteFails \/ DeleteRow => del.pc # "idle"
<1> DEFINE S == {"run", "tail", "row"}
<1>0. del \in Loops(S)
  BY LoopsTyped
<1> HIDE DEF S
<1>1. ASSUME DeleteStart
      PROVE  /\ del.pc = "idle" /\ del'.pc = "run" /\ del'.acks = {}
             /\ del'.file \in Files /\ rows[del'.file] = "cold"
             /\ selected' = selected \cup {del'.file}
             /\ del' \in Loops(S)
  <2>1. PICK f \in Files :
          /\ rows[f] = "cold" /\ selected' = selected \cup {f}
          /\ del' = [pc |-> "run", file |-> f, hot |-> FALSE, acks |-> {}]
    BY <1>1 DEF DeleteStart, selectDeleteFile
  <2>2. "run" \in S /\ FALSE \in BOOLEAN
    BY DEF S
  <2>3. del.pc = "idle"
    BY <1>1 DEF DeleteStart
  <2> QED BY <2>1, <2>2, <2>3, StartLoop
<1>2. ASSUME DeleteUnstore
      PROVE  /\ del.pc = "run" /\ del'.pc = "run" /\ del'.file = del.file
             /\ selected' = selected
             /\ \E n \in AllNodes :
                  /\ del'.acks = del.acks \cup {n}
                  /\ stored' = [stored EXCEPT ![del.file] = @ \ {n}]
             /\ del' \in Loops(S)
  <2>1. PICK n \in DeleteNodes : /\ stored' = [stored EXCEPT ![del.file] = @ \ {n}]
                                 /\ del' = [del EXCEPT !.acks = @ \cup {n}]
    BY <1>2 DEF DeleteUnstore
  <2>2. n \in AllNodes
    BY NodesTyped
  <2>3. del.pc = "run" /\ selected' = selected
    BY <1>2 DEF DeleteUnstore, history
  <2>4. /\ del' \in Loops(S) /\ del'.pc = del.pc /\ del'.file = del.file
        /\ del'.acks = del.acks \cup {n}
    BY <1>0, <2>1, <2>2, Acknowledge
  <2> QED BY <2>1, <2>2, <2>3, <2>4
<1>3. ASSUME DeleteRan \/ DeleteSucceeded
      PROVE  /\ del.pc # "idle" /\ del'.pc # "idle" /\ del'.file = del.file
             /\ del'.acks = del.acks /\ selected' = selected
             /\ del'.pc = "row" => del.acks = DeleteNodes
             /\ del' \in Loops(S)
  <2>1. "tail" \in S /\ "row" \in S
    BY DEF S
  <2>2. CASE DeleteRan
    BY <1>0, <2>1, <2>2, GoOn DEF DeleteRan, history
  <2>3. CASE DeleteSucceeded
    BY <1>0, <2>1, <2>3, GoOn DEF DeleteSucceeded, history
  <2> QED BY <1>3, <2>2, <2>3
<1>4. DeleteFails \/ DeleteRow \/ Crash => del' = Idle /\ selected' = selected
  BY DEF DeleteFails, DeleteRow, Crash, history
<1>5. DeleteFails \/ DeleteRow => del.pc # "idle"
  BY DEF DeleteFails, DeleteRow
<1> QED BY <1>1, <1>2, <1>3, <1>4, <1>5, IdleLoop DEF S

LEMMA Kinds == \A h \in BOOLEAN : Kind(h) \in {"hot", "cold"} /\ (Kind(h) = "cold" => ~h)
BY DEF Kind

\* A row is inserted by a delivery, or for the holdback delivery of its name.
Inserted(f) == \/ DeliverInserted /\ dl.pc = "insert" /\ f = dl.file
                  /\ wanted'[f] = DeliverNodes(dl.hot)
               \/ HBInsert /\ (\E p \in hbPending : p[1] = f) /\ wanted'[f] = HBNodes

\* What a step does to the table.
LEMMA TableSteps ==
  ASSUME TypeOK, [Next]_vars, NEW f \in Files
  PROVE  /\ Present(f)' => Present(f) \/ Inserted(f)
         /\ Present(f) => Present(f)' \/ (DeleteRow /\ f = del.file)
         /\ wanted'[f] = wanted[f] \/ (~Present(f) /\ Present(f)' /\ Inserted(f))
         /\ f \in wasCold' => f \in wasCold \/ Present(f)'
         /\ f \in wasCold => f \in wasCold' \/ (DeleteRow /\ f = del.file)
         /\ rows'[f] = "cold" => rows[f] = "cold" \/ f \in wasCold'
         /\ DeleteRow /\ f # del.file => (f \in wasCold' <=> f \in wasCold)
         /\ DeleteRow /\ f = del.file => ~Present(f)' /\ f \notin wasCold'
         /\ rows'[f] \in {"absent", "hot", "cold"} /\ wanted'[f] \subseteq AllNodes
<1>0. /\ rows \in [Files -> {"absent", "hot", "cold"}] /\ wanted \in [Files -> SUBSET AllNodes]
      /\ dl \in Loops({"run", "grep", "insert"}) /\ dl.hot \in BOOLEAN
      /\ \A h \in BOOLEAN : Kind(h) \in {"hot", "cold"} /\ (Kind(h) = "cold" => ~h)
      /\ \A h \in BOOLEAN : DeliverNodes(h) \subseteq AllNodes
      /\ HBNodes \subseteq AllNodes
  BY NodesTyped, Kinds, TypesUnfold DEF TypeOK
<1>1. CASE UNCHANGED <<rows, wasCold, wanted>> /\ ~DeleteRow
  BY <1>0, <1>1 DEF Present
<1>2. ASSUME updateDB, ~DeleteRow
      PROVE  /\ Present(f)' <=> Present(f)
             /\ wanted' = wanted
             /\ f \in wasCold' => f \in wasCold \/ Present(f)'
             /\ f \in wasCold => f \in wasCold'
             /\ rows'[f] = "cold" => rows[f] = "cold" \/ f \in wasCold'
             /\ rows'[f] \in {"absent", "hot", "cold"}
  <2>1. PICK g \in Files, h \in BOOLEAN :
          /\ Present(g) /\ rows' = [rows EXCEPT ![g] = Kind(h)]
          /\ wasCold' = IF h THEN wasCold ELSE wasCold \cup {g}
    BY <1>2 DEF updateDB
  <2>2. wanted' = wanted
    BY <1>2 DEF updateDB, history
  <2>3. CASE f = g
    <3>1. rows'[f] = Kind(h) /\ Kind(h) \in {"hot", "cold"} /\ (Kind(h) = "cold" => ~h)
      BY <1>0, <2>1, <2>3
    <3> QED BY <2>1, <2>2, <2>3, <3>1 DEF Present
  <2>4. CASE f # g
    BY <1>0, <2>1, <2>2, <2>4 DEF Present
  <2> QED BY <2>3, <2>4
<1>3. ASSUME NEW g, NEW h \in BOOLEAN, NEW N \in SUBSET AllNodes, ~Present(g),
             addServiceContents(g, h, N)
      PROVE  /\ f # g => /\ rows'[f] = rows[f] /\ wanted'[f] = wanted[f]
                         /\ f \in wasCold' <=> f \in wasCold
             /\ f = g => /\ ~Present(f) /\ Present(f)' /\ wanted'[f] = N
                         /\ rows'[f] \in {"hot", "cold"}
                         /\ f \in wasCold => f \in wasCold'
                         /\ rows'[f] = "cold" => f \in wasCold'
  <2>1. Kind(h) \in {"hot", "cold"} /\ (Kind(h) = "cold" => ~h)
    BY <1>0
  <2> QED BY <1>0, <1>3, <2>1 DEF addServiceContents, Present
<1>4. CASE DeliverInserted /\ ~DeleteRow
  <2>1. /\ dl.pc = "insert" /\ ~Present(dl.file)
        /\ addServiceContents(dl.file, dl.hot, DeliverNodes(dl.hot))
    BY <1>4 DEF DeliverInserted
  <2>2. CASE f = dl.file
    BY <1>0, <1>3, <1>4, <2>1, <2>2 DEF Inserted
  <2>3. CASE f # dl.file
    BY <1>0, <1>3, <1>4, <2>1, <2>3 DEF Present
  <2> QED BY <2>2, <2>3
<1>5. CASE HBInsert /\ ~DeleteRow
  <2>1. PICK p \in hbPending : \/ ~Present(p[1]) /\ addServiceContents(p[1], TRUE, HBNodes)
                               \/ UNCHANGED <<table, wanted>>
    BY <1>5 DEF HBInsert
  <2>2. CASE UNCHANGED <<table, wanted>>
    BY <1>0, <1>5, <2>2 DEF Present, table
  <2>3. CASE ~Present(p[1]) /\ addServiceContents(p[1], TRUE, HBNodes)
    <3> DEFINE g == p[1]
    <3>1. ~Present(g) /\ addServiceContents(g, TRUE, HBNodes) /\ HBNodes \in SUBSET AllNodes
      BY <1>0, <2>3
    <3>2. g = f => \E q \in hbPending : q[1] = f
      OBVIOUS
    <3> HIDE DEF g
    <3>3. /\ f # g => /\ rows'[f] = rows[f] /\ wanted'[f] = wanted[f]
                      /\ f \in wasCold' <=> f \in wasCold
          /\ f = g => /\ ~Present(f) /\ Present(f)' /\ wanted'[f] = HBNodes
                      /\ rows'[f] \in {"hot", "cold"}
                      /\ f \in wasCold => f \in wasCold'
                      /\ rows'[f] = "cold" => f \in wasCold'
      BY <3>1, <1>3
    <3>4. CASE f # g
      BY <1>0, <1>5, <3>3, <3>4 DEF Present
    <3>5. CASE f = g
      BY <1>0, <1>5, <3>2, <3>3, <3>5 DEF Inserted
    <3> QED BY <3>4, <3>5
  <2> QED BY <2>1, <2>2, <2>3
<1>6. CASE DeleteRow
  <2>1. /\ rows' = [rows EXCEPT ![del.file] = "absent"] /\ wasCold' = wasCold \ {del.file}
        /\ wanted' = wanted
    BY <1>6 DEF DeleteRow, deleteServiceContents, history
  <2> QED BY <1>0, <1>6, <2>1 DEF Present
<1>7. CASE updateDB /\ ~DeleteRow
  BY <1>0, <1>2, <1>7
<1> QED BY <1>1, <1>4, <1>5, <1>6, <1>7, TableChanges

\* What a step does to the contents on the nodes.
LEMMA StoredSteps ==
  ASSUME TypeOK, [Next]_vars
  PROVE  /\ stored' \in [Files -> SUBSET AllNodes]
         /\ \A f \in Files, n \in AllNodes :
              /\ n \in stored'[f] => \/ n \in stored[f] \/ f \in zombie
                                     \/ DeliverStore /\ f = dl.file
                                     \/ HBStore /\ f = hb.file
              /\ n \in stored[f] => \/ n \in stored'[f] \/ f \in halfDeleted
                                    \/ DeleteUnstore /\ f = del.file
<1>0. /\ stored \in [Files -> SUBSET AllNodes]
      /\ dl.hot \in BOOLEAN /\ DeliverNodes(dl.hot) \subseteq AllNodes /\ HBNodes \subseteq AllNodes
  BY NodesTyped, TypesUnfold DEF TypeOK
<1>1. CASE stored' = stored
  BY <1>0, <1>1
<1>2. CASE DeliverStore
  <2>1. PICK n \in AllNodes : stored' = [stored EXCEPT ![dl.file] = @ \cup {n}]
    BY <1>0, <1>2, DeliverSteps
  <2> QED BY <1>0, <1>2, <2>1
<1>3. CASE HBStore
  <2>1. PICK n \in AllNodes : stored' = [stored EXCEPT ![hb.file] = @ \cup {n}]
    BY <1>0, <1>3, HBSteps
  <2> QED BY <1>0, <1>3, <2>1
<1>4. CASE DeleteUnstore
  <2>1. PICK n \in AllNodes : stored' = [stored EXCEPT ![del.file] = @ \ {n}]
    BY <1>4, DeleteSteps
  <2> QED BY <1>0, <1>4, <2>1
<1>5. CASE ZombieStep
  <2>1. PICK f \in Files, n \in AllNodes :
          \/ f \in zombie /\ stored' = [stored EXCEPT ![f] = @ \cup {n}]
          \/ f \in halfDeleted /\ stored' = [stored EXCEPT ![f] = @ \ {n}]
    BY <1>5 DEF ZombieStep
  <2> QED BY <1>0, <2>1
<1> QED BY <1>1, <1>2, <1>3, <1>4, <1>5, StoredChanges

LEMMA BusyFiles ==
  ASSUME TypeOK, Names, Colds
  PROVE  /\ Busy(dl) \subseteq Files /\ Busy(hb) \subseteq Files /\ Busy(del) \subseteq Files
         /\ dl.pc # "idle" => dl.file \in Files
         /\ hb.pc # "idle" => hb.file \in Files
         /\ del.pc # "idle" => del.file \in Files
BY DEF TypeOK, Names, Colds, Busy

\* The clock, the bounds and the place in the pattern.
LEMMA CountersChange ==
  [Next]_vars =>
    /\ now' = now \/ (now < MaxNow /\ now' = now + 1)
    /\ hbNext' = hbNext \/ hbNext' = now + 1
    /\ \/ hotQueueCurIdx' = hotQueueCurIdx \/ hotQueueCurIdx' = 0
       \/ hotQueueCurIdx' = (hotQueueCurIdx + 1) % Len(hotQueue)
    /\ crashes' = crashes \/ (crashes < MaxCrashes /\ crashes' = crashes + 1)
BY DEF Next, vars, clocks, Deliver, HBDeliver, Delete,
       DeliverStart, DeliverStore, DeliverRan, DeliverBreaks, DeliverCompleted,
       DeliverUnknown, DeliverInserted,
       HBStart, HBStore, HBRan, HBBreaks, HBEnds, HBInsert,
       DeleteStart, DeleteUnstore, DeleteRan, DeleteSucceeded, DeleteFails, DeleteRow,
       updateDB, ZombieStep, Tick, Crash

LEMMA TypeStep == TypeOK /\ Names /\ Colds /\ [Next]_vars => TypeOK'
<1> SUFFICES ASSUME TypeOK, Names, Colds, [Next]_vars PROVE TypeOK'
  OBVIOUS
<1>1. /\ dl' \in Loops({"run", "grep", "insert"}) /\ hb' \in Loops({"run", "grep"})
      /\ del' \in Loops({"run", "tail", "row"})
  BY LoopsTyped, DeliverSteps, DeliverChanges, HBSteps, HBDeliverChanges, DeleteSteps, DeleteChanges
<1>2. /\ hbNames' \subseteq Files /\ selected' \subseteq Files
  <2>1. hbNames' \subseteq hbNames \cup {now}
    BY HBSteps, HBDeliverChanges
  <2>2. selected' \subseteq selected \cup Files
    BY DeleteSteps, DeleteChanges
  <2> QED BY <2>1, <2>2, TypesUnfold DEF TypeOK
<1>3. failed' \subseteq Files /\ zombie' \subseteq Files /\ halfDeleted' \subseteq Files
  BY HistoryGrows, BusyFiles, TypesUnfold DEF TypeOK
<1>4. stored' \in [Files -> SUBSET AllNodes]
  BY StoredSteps
<1>5. /\ rows' \in [Files -> {"absent", "hot", "cold"}]
      /\ wanted' \in [Files -> SUBSET AllNodes]
  <2>1. /\ rows \in [Files -> {"absent", "hot", "cold"}]
        /\ wanted \in [Files -> SUBSET AllNodes]
    BY DEF TypeOK
  <2>2. /\ \E r : rows' = [f \in Files |-> r[f]]
        /\ \E w : wanted' = [f \in Files |-> w[f]]
    <3>0. ASSUME NEW g, NEW h, NEW N, addServiceContents(g, h, N)
          PROVE  /\ \E r : rows' = [f \in Files |-> r[f]]
                 /\ \E w : wanted' = [f \in Files |-> w[f]]
      BY <2>1, <3>0 DEF addServiceContents
    <3>1. CASE UNCHANGED <<rows, wasCold, wanted>>
      BY <2>1, <3>1
    <3>2. CASE updateDB
      BY <2>1, <3>2 DEF updateDB, history
    <3>3. CASE DeliverInserted
      BY <3>0, <3>3 DEF DeliverInserted
    <3>4. CASE HBInsert
      <4>1. UNCHANGED <<table, wanted>> \/ \E g : addServiceContents(g, TRUE, HBNodes)
        BY <3>4 DEF HBInsert
      <4>2. CASE UNCHANGED <<table, wanted>>
        BY <2>1, <4>2 DEF table
      <4> QED BY <3>0, <4>1, <4>2
    <3>5. CASE DeleteRow
      BY <2>1, <3>5 DEF DeleteRow, deleteServiceContents, history
    <3> QED BY <3>1, <3>2, <3>3, <3>4, <3>5, TableChanges
  <2>3. \A f \in Files : rows'[f] \in {"absent", "hot", "cold"} /\ wanted'[f] \subseteq AllNodes
    BY TableSteps
  <2> QED BY <2>2, <2>3
<1>6. wasCold' \subseteq Files
  <2>1. wasCold \subseteq Files /\ (dl.pc = "insert" => dl.file \in Files)
    BY BusyFiles DEF TypeOK
  <2>2. CASE updateDB
    BY <2>1, <2>2 DEF updateDB
  <2>3. CASE DeliverInserted
    BY <2>1, <2>3 DEF DeliverInserted, addServiceContents
  <2>4. CASE HBInsert
    BY <2>1, <2>4, TypesUnfold DEF HBInsert, addServiceContents, table
  <2>5. CASE DeleteRow
    BY <2>1, <2>5 DEF DeleteRow, deleteServiceContents
  <2> QED BY <2>1, <2>2, <2>3, <2>4, <2>5, TableChanges
<1>7. now' \in 0 .. MaxNow /\ dlNext' \in 0 .. MaxNow + 1 /\ hbNext' \in 0 .. MaxNow + 1
  <2>1. now' = now \/ (now < MaxNow /\ now' = now + 1)
    BY CountersChange
  <2>2. dlNext' = dlNext \/ dlNext' = now + 1
    BY DeliverChanges
       DEF DeliverStart, DeliverStore, DeliverRan, DeliverBreaks, DeliverCompleted,
           DeliverUnknown, DeliverInserted, Crash, clocks
  <2>3. hbNext' = hbNext \/ hbNext' = now + 1
    BY CountersChange
  <2>4. now \in 0 .. MaxNow /\ dlNext \in 0 .. MaxNow + 1 /\ hbNext \in 0 .. MaxNow + 1
    BY DEF TypeOK
  <2> QED BY <2>1, <2>2, <2>3, <2>4, ConstantsTyped
<1>8. hotQueueCurIdx' \in 0 .. Len(hotQueue) - 1
  <2>1. \/ hotQueueCurIdx' = hotQueueCurIdx \/ hotQueueCurIdx' = 0
        \/ hotQueueCurIdx' = (hotQueueCurIdx + 1) % Len(hotQueue)
    BY CountersChange
  <2>2. hotQueueCurIdx \in 0 .. Len(hotQueue) - 1
    BY DEF TypeOK
  <2> QED BY <2>1, <2>2, ConstantsTyped
<1>9. hbPending' \subseteq Files \X (0 .. MaxNow + HBDelay)
  <2>1. hbPending \subseteq Files \X (0 .. MaxNow + HBDelay)
    BY DEF TypeOK
  <2>2. CASE HBStart
    <3>1. now \in Files /\ now + HBDelay \in 0 .. MaxNow + HBDelay
      BY ConstantsTyped DEF TypeOK, Files
    <3> QED BY <2>1, <2>2, <3>1, HBSteps
  <2>3. CASE HBInsert \/ Crash
    BY <2>1, <2>3 DEF HBInsert, Crash
  <2> QED BY <2>1, <2>2, <2>3, HBSteps, HBDeliverChanges
<1>10. crashes' \in 0 .. MaxCrashes
  <2>1. crashes' = crashes \/ (crashes < MaxCrashes /\ crashes' = crashes + 1)
    BY CountersChange
  <2>2. crashes \in 0 .. MaxCrashes
    BY DEF TypeOK
  <2> QED BY <2>1, <2>2, ConstantsTyped
<1> QED BY <1>1, <1>2, <1>3, <1>4, <1>5, <1>6, <1>7, <1>8, <1>9, <1>10 DEF TypeOK

-----------------------------------------------------------------------------
(* The parts of the invariant.                                             *)

LEMMA NamesStep == TypeOK /\ Names /\ Colds /\ [Next]_vars => Names'
<1> SUFFICES ASSUME TypeOK, Names, Colds, [Next]_vars PROVE Names'
  OBVIOUS
<1>0. /\ dl.pc # "idle" => dl.file \in Files /\ dl.file < dlNext
      /\ hb.pc # "idle" => hb.file \in hbNames
      /\ now \in Nat /\ dlNext \in Nat /\ dlNext <= now + 1 /\ now \in Files
      /\ hbNames \subseteq hbNames' /\ Files \subseteq Nat
  BY TypesUnfold, HistoryGrows, ConstantsTyped DEF Names
<1>1. dlNext <= dlNext' /\ dlNext' <= now' + 1 /\ dlNext' \in Nat
  <2>1. dlNext' = dlNext \/ dlNext' = now + 1
    BY DeliverChanges
       DEF DeliverStart, DeliverStore, DeliverRan, DeliverBreaks, DeliverCompleted,
           DeliverUnknown, DeliverInserted, Crash, clocks
  <2>2. now' = now \/ now' = now + 1
    BY CountersChange
  <2> QED BY <1>0, <2>1, <2>2
<1>2. ASSUME NEW f \in Files, f \notin hbNames'
      PROVE  /\ Present(f)' => Present(f) \/ (DeliverInserted /\ dl.pc = "insert" /\ f = dl.file)
             /\ f \in zombie' => f \in zombie \/ (dl' = Idle /\ dl.pc # "idle" /\ f = dl.file)
             /\ f \in selected' => f \in selected \/ Present(f)
  <2>1. f \notin hbNames
    BY <1>0, <1>2
  <2>2. Present(f)' => Present(f) \/ (DeliverInserted /\ dl.pc = "insert" /\ f = dl.file)
    BY <2>1, TableSteps DEF Inserted, Names
  <2>3. f \in zombie' => f \in zombie \/ (dl' = Idle /\ dl.pc # "idle" /\ f = dl.file)
    BY <1>0, <2>1, HistoryGrows DEF Busy
  <2>4. f \in selected' => f \in selected \/ Present(f)
    BY DeleteSteps, DeleteChanges DEF Present
  <2> QED BY <2>2, <2>3, <2>4
<1>3. ASSUME dl'.pc # "idle"
      PROVE  /\ dl'.file \in Files /\ dl'.file < dlNext'
             /\ rows'[dl'.file] # "absent" \/ dl'.file \in zombie' \cup selected'
                  => dl'.file \in hbNames'
  <2> PICK f : f = dl'.file
    OBVIOUS
  <2>1. CASE DeliverStart
    <3>1. f = now /\ dlNext' = now + 1 /\ dlNext <= now /\ dl.pc = "idle"
      BY <2>1, DeliverSteps
    <3>2. f \in Files /\ f < dlNext' /\ ~(f < dlNext)
      BY <1>0, <3>1
    <3>3. ASSUME f \notin hbNames' PROVE ~Present(f)' /\ f \notin zombie' \cup selected'
      <4>1. f \notin hbNames
        BY <1>0, <3>3
      <4>2. ~Present(f) /\ f \notin zombie \cup selected
        BY <3>2, <4>1 DEF Names
      <4> QED BY <1>2, <3>1, <3>2, <3>3, <4>2
    <3> QED BY <3>2, <3>3 DEF Present
  <2>2. CASE ~DeliverStart
    <3>1. dl.pc # "idle" /\ f = dl.file /\ dl' # Idle /\ ~DeliverInserted
      BY <1>3, <2>2, DeliverSteps, DeliverChanges, IdleLoop
    <3>2. f \in Files /\ f < dlNext'
      <4>1. f \in Files /\ f < dlNext /\ f \in Nat
        BY <1>0, <3>1
      <4> QED BY <1>0, <1>1, <4>1
    <3>3. ASSUME f \notin hbNames' PROVE ~Present(f)' /\ f \notin zombie' \cup selected'
      <4>1. f \notin hbNames
        BY <1>0, <3>3
      <4>2. ~Present(f) /\ f \notin zombie \cup selected
        BY <3>1, <4>1 DEF Names
      <4> QED BY <1>2, <3>1, <3>2, <3>3, <4>2
    <3> QED BY <3>2, <3>3 DEF Present
  <2> QED BY <2>1, <2>2
<1>4. ASSUME NEW f \in Files, Present(f)' \/ f \in zombie' \cup selected', f \notin hbNames'
      PROVE  f < dlNext'
  <2>1. \/ Present(f) \/ f \in zombie \cup selected
        \/ dl.pc # "idle" /\ f = dl.file
    BY <1>2, <1>4
  <2>2. f < dlNext
    BY <1>0, <1>4, <2>1 DEF Names
  <2> QED BY <1>0, <1>1, <2>2
<1>5. ASSUME NEW f \in Files, f \in zombie', Present(f)', f \notin hbNames'
      PROVE  FALSE
  <2>1. f \notin hbNames
    BY <1>0, <1>5
  <2>2. CASE f \in zombie
    <3>1. Present(f) \/ (DeliverInserted /\ dl.pc # "idle" /\ f = dl.file)
      BY <1>2, <1>5, <2>1
    <3> QED BY <2>1, <2>2, <3>1 DEF Names
  <2>3. CASE f \notin zombie
    <3>1. dl.pc # "idle" /\ f = dl.file /\ ~DeliverInserted
      BY <1>2, <1>5, <2>1, <2>3, HistoryGrows
    <3>2. Present(f)
      BY <1>2, <1>5, <2>1, <3>1
    <3> QED BY <2>1, <3>1, <3>2 DEF Names
  <2> QED BY <2>2, <2>3
<1>6. hb'.pc # "idle" => hb'.file \in hbNames'
  BY <1>0, HBSteps, HBDeliverChanges
<1>7. \A p \in hbPending' : p[1] \in hbNames'
  <2>1. \A p \in hbPending : p[1] \in hbNames'
    BY <1>0 DEF Names
  <2>2. CASE HBStart
    BY <2>1, <2>2, HBSteps
  <2>3. CASE HBInsert \/ Crash
    BY <2>1, <2>3 DEF HBInsert, Crash
  <2> QED BY <2>1, <2>2, <2>3, HBSteps, HBDeliverChanges
<1>8. zombie' \subseteq Files
  BY TypeStep DEF TypeOK
<1>9. \A f \in zombie' : Present(f)' => f \in hbNames'
  BY <1>5, <1>8
<1>10. \A f \in Files : Present(f)' \/ f \in zombie' \cup selected'
                          => f \in hbNames' \/ f < dlNext'
  BY <1>4
<1> QED BY <1>1, <1>3, <1>6, <1>7, <1>9, <1>10 DEF Names, Present

LEMMA ColdsStep == TypeOK /\ Names /\ Colds /\ [Next]_vars => Colds'
<1> SUFFICES ASSUME TypeOK, Names, Colds, [Next]_vars PROVE Colds'
  OBVIOUS
<1>0. TypeOK'
  BY TypeStep
<1>1. ASSUME NEW f \in wasCold' PROVE Present(f)'
  <2>1. f \in Files
    BY <1>0 DEF TypeOK
  <2> QED BY <1>1, <2>1, TableSteps DEF Colds
<1>2. ASSUME NEW f \in Files, rows'[f] = "cold" PROVE f \in wasCold'
  <2>1. Present(f)'
    BY <1>2 DEF Present
  <2> QED BY <1>2, <2>1, TableSteps DEF Colds
<1>3. ASSUME del'.pc # "idle" PROVE del'.file \in wasCold' /\ del'.file \in selected'
  <2>1. ~DeleteRow
    BY <1>3, DeleteSteps
  <2>2. del'.file \in wasCold /\ del'.file \in selected'
    <3>1. CASE DeleteStart
      BY <3>1, DeleteSteps DEF Colds
    <3>2. CASE ~DeleteStart
      BY <1>3, <3>2, DeleteSteps, DeleteChanges DEF Colds
    <3> QED BY <3>1, <3>2
  <2> QED BY <2>1, <2>2, TableSteps DEF TypeOK
<1>4. halfDeleted' \subseteq selected' /\ zombie' \subseteq failed'
  BY HistoryGrows DEF Colds, Busy
<1> QED BY <1>1, <1>2, <1>3, <1>4 DEF Colds

\* Only a deletion takes content away, of what was chosen for it.
LEMMA StoredStays ==
  ASSUME TypeOK, Names, Colds, [Next]_vars, NEW f \in Files, f \notin selected'
  PROVE  stored[f] \subseteq stored'[f]
<1>1. f \notin halfDeleted
  BY HistoryGrows DEF Colds
<1>2. ~(DeleteUnstore /\ f = del.file)
  BY HistoryGrows, DeleteSteps DEF Colds
<1> QED BY <1>1, <1>2, StoredSteps, TypesUnfold

LEMMA DeliveredStep == TypeOK /\ Names /\ Colds /\ Delivered /\ [Next]_vars => Delivered'
<1> SUFFICES ASSUME TypeOK, Names, Colds, Delivered, [Next]_vars PROVE Delivered'
  OBVIOUS
<1>0. stored \in [Files -> SUBSET AllNodes]
  BY DEF TypeOK
<1>1. ASSUME dl'.pc # "idle", dl'.file \notin selected'
      PROVE  dl'.acks \subseteq stored'[dl'.file]
  <2>1. CASE DeliverStart
    BY <2>1, DeliverSteps
  <2>2. CASE ~DeliverStart
    <3>1. dl.pc # "idle" /\ dl'.file = dl.file
      BY <1>1, <2>2, DeliverSteps, DeliverChanges
    <3>2. dl.file \in Files /\ dl.file \notin selected
      BY <1>1, <3>1, BusyFiles, HistoryGrows
    <3>3. dl.acks \subseteq stored[dl.file]
      BY <3>1, <3>2 DEF Delivered
    <3>4. CASE DeliverStore
      <4>1. PICK n \in DeliverNodes(dl.hot) :
              /\ dl'.acks = dl.acks \cup {n}
              /\ stored' = [stored EXCEPT ![dl.file] = @ \cup {n}]
        BY <3>4, DeliverSteps
      <4>2. stored'[dl.file] = stored[dl.file] \cup {n}
        BY <1>0, <3>2, <4>1
      <4> QED BY <3>1, <3>3, <4>1, <4>2
    <3>5. CASE ~DeliverStore
      <4>1. dl'.acks = dl.acks
        BY <1>1, <2>2, <3>5, DeliverSteps, DeliverChanges
      <4> QED BY <1>1, <3>1, <3>2, <3>3, <4>1, StoredStays
    <3> QED BY <3>4, <3>5
  <2> QED BY <2>1, <2>2
<1>2. dl'.pc = "insert" => dl'.acks = DeliverNodes(dl'.hot)
  <2>1. CASE DeliverStart \/ DeliverStore
    BY <2>1, DeliverSteps
  <2>2. CASE DeliverRan \/ DeliverCompleted
    BY <2>2, DeliverSteps
  <2>3. CASE ~(DeliverStart \/ DeliverStore \/ DeliverRan \/ DeliverCompleted)
    BY <2>3, DeliverSteps, DeliverChanges DEF Delivered
  <2> QED BY <2>1, <2>2, <2>3
<1>3. ASSUME hb'.pc # "idle", hb'.file \notin selected'
      PROVE  hb'.acks \subseteq stored'[hb'.file]
  <2>1. CASE HBStart
    BY <2>1, HBSteps
  <2>2. CASE ~HBStart
    <3>1. hb.pc # "idle" /\ hb'.file = hb.file
      BY <1>3, <2>2, HBSteps, HBDeliverChanges
    <3>2. hb.file \in Files /\ hb.file \notin selected
      BY <1>3, <3>1, BusyFiles, HistoryGrows
    <3>3. hb.acks \subseteq stored[hb.file]
      BY <3>1, <3>2 DEF Delivered
    <3>4. CASE HBStore
      <4>1. PICK n \in HBNodes : /\ hb'.acks = hb.acks \cup {n}
                                 /\ stored' = [stored EXCEPT ![hb.file] = @ \cup {n}]
        BY <3>4, HBSteps
      <4>2. stored'[hb.file] = stored[hb.file] \cup {n}
        BY <1>0, <3>2, <4>1
      <4> QED BY <3>1, <3>3, <4>1, <4>2
    <3>5. CASE ~HBStore
      <4>1. hb'.acks = hb.acks
        BY <1>3, <2>2, <3>5, HBSteps, HBDeliverChanges
      <4> QED BY <1>3, <3>1, <3>2, <3>3, <4>1, StoredStays
    <3> QED BY <3>4, <3>5
  <2> QED BY <2>1, <2>2
<1>4. ASSUME NEW f \in Files PROVE wanted'[f] \subseteq HBNodes
  <2>1. Inserted(f) => wanted'[f] \subseteq HBNodes
    BY NodesTyped, TypesUnfold DEF Inserted
  <2> QED BY <2>1, TableSteps DEF Delivered
<1> QED BY <1>1, <1>2, <1>3, <1>4 DEF Delivered

\* Nobody gives back what a deletion took away, but a holdback delivery of that name.
LEMMA UndeliveredStep == TypeOK /\ Names /\ Colds /\ Undelivered /\ [Next]_vars => Undelivered'
<1> SUFFICES ASSUME TypeOK, Names, Colds, Undelivered, [Next]_vars PROVE Undelivered'
  OBVIOUS
<1>0. stored \in [Files -> SUBSET AllNodes]
  BY DEF TypeOK
<1>1. ASSUME del'.pc # "idle", del'.file \notin hbNames'
      PROVE  stored'[del'.file] \cap del'.acks = {}
  <2>1. CASE DeleteStart
    BY <2>1, DeleteSteps
  <2>2. CASE ~DeleteStart
    <3>1. del.pc # "idle" /\ del'.file = del.file
      BY <1>1, <2>2, DeleteSteps, DeleteChanges
    <3>2. del.file \in Files /\ del.file \notin hbNames /\ Present(del.file)
      BY <1>1, <3>1, BusyFiles, HistoryGrows DEF Colds
    <3>3. stored[del.file] \cap del.acks = {}
      BY <3>1, <3>2 DEF Undelivered
    <3>4. stored'[del.file] \subseteq stored[del.file]
      <4>1. del.file \notin zombie
        BY <3>2 DEF Names
      <4>2. ~(DeliverStore /\ del.file = dl.file)
        BY <3>2, DeliverSteps DEF Names
      <4>3. ~(HBStore /\ del.file = hb.file)
        BY <3>2, HBSteps DEF Names
      <4>4. stored'[del.file] \subseteq AllNodes
        BY <3>2, StoredSteps
      <4> QED BY <3>2, <4>1, <4>2, <4>3, <4>4, StoredSteps
    <3>5. CASE DeleteUnstore
      <4>1. PICK n \in AllNodes : /\ del'.acks = del.acks \cup {n}
                                  /\ stored' = [stored EXCEPT ![del.file] = @ \ {n}]
        BY <3>5, DeleteSteps
      <4>2. stored'[del.file] = stored[del.file] \ {n}
        BY <1>0, <3>2, <4>1
      <4> QED BY <3>1, <3>3, <4>1, <4>2
    <3>6. CASE ~DeleteUnstore
      <4>1. del'.acks = del.acks
        BY <1>1, <2>2, <3>6, DeleteSteps, DeleteChanges
      <4> QED BY <3>1, <3>3, <3>4, <4>1
    <3> QED BY <3>5, <3>6
  <2> QED BY <2>1, <2>2
<1>2. del'.pc = "row" => del'.acks = DeleteNodes
  <2>1. CASE DeleteStart \/ DeleteUnstore
    BY <2>1, DeleteSteps
  <2>2. CASE DeleteRan \/ DeleteSucceeded
    BY <2>2, DeleteSteps
  <2>3. CASE ~(DeleteStart \/ DeleteUnstore \/ DeleteRan \/ DeleteSucceeded)
    BY <2>3, DeleteSteps, DeleteChanges DEF Undelivered
  <2> QED BY <2>1, <2>2, <2>3
<1> QED BY <1>1, <1>2 DEF Undelivered

\* How the loops let go of a content.
LEMMA LoopsEnd ==
  ASSUME TypeOK, [Next]_vars, NEW f
  PROVE  /\ Working(dl, f) => Working(dl, f)' \/ f \in failed' \/ (DeliverInserted /\ f = dl.file)
         /\ Working(hb, f) => \/ Working(hb, f)' \/ f \in failed'
                              \/ hb.acks = HBNodes /\ stored' = stored
         /\ Working(del, f) => Working(del, f)' \/ f \in halfDeleted' \/ (DeleteRow /\ f = del.file)
<1>1. ASSUME Working(dl, f), ~DeliverInserted PROVE Working(dl, f)' \/ f \in failed'
  <2>1. dl.pc # "idle" /\ dl.file = f
    BY <1>1 DEF Working
  <2>2. CASE DeliverBreaks \/ DeliverUnknown \/ Crash
    BY <2>1, <2>2 DEF DeliverBreaks, DeliverUnknown, Crash, DeliverFails, Busy
  <2>3. CASE ~(DeliverBreaks \/ DeliverUnknown \/ Crash)
    BY <1>1, <2>1, <2>3, DeliverSteps, DeliverChanges DEF Working
  <2> QED BY <2>2, <2>3
<1>2. ASSUME Working(hb, f)
      PROVE  Working(hb, f)' \/ f \in failed' \/ (hb.acks = HBNodes /\ stored' = stored)
  <2>1. hb.pc # "idle" /\ hb.file = f
    BY <1>2 DEF Working
  <2>2. CASE HBBreaks \/ HBEnds \/ Crash
    BY <2>1, <2>2 DEF HBBreaks, HBEnds, Crash, Busy
  <2>3. CASE ~(HBBreaks \/ HBEnds \/ Crash)
    BY <2>1, <2>3, HBSteps, HBDeliverChanges DEF Working
  <2> QED BY <2>2, <2>3
<1>3. ASSUME Working(del, f), ~DeleteRow PROVE Working(del, f)' \/ f \in halfDeleted'
  <2>1. del.pc # "idle" /\ del.file = f
    BY <1>3 DEF Working
  <2>2. CASE DeleteFails \/ Crash
    BY <2>1, <2>2 DEF DeleteFails, Crash, Busy
  <2>3. CASE ~(DeleteFails \/ Crash)
    BY <1>3, <2>1, <2>3, DeleteSteps, DeleteChanges DEF Working
  <2> QED BY <2>2, <2>3
<1> QED BY <1>1, <1>2, <1>3 DEF Working

LEMMA HeldBackStep ==
  TypeOK /\ Names /\ Colds /\ Delivered /\ HeldBack /\ [Next]_vars => HeldBack'
<1> SUFFICES ASSUME TypeOK, Names, Colds, Delivered, HeldBack, [Next]_vars, NEW f \in hbNames'
             PROVE  HBContent(f)' /\ HBRow(f)'
  BY DEF HeldBack
<1>0. f \in Files /\ failed \subseteq failed' /\ selected \subseteq selected'
  BY TypeStep, HistoryGrows DEF TypeOK
<1>1. CASE f \notin hbNames
  <2>1. HBStart /\ f = now
    BY <1>1, HBSteps, HBDeliverChanges
  <2>2. Working(hb, f)'
    BY <2>1, HBSteps DEF Working
  <2>3. <<now, now + HBDelay>> \in hbPending' /\ <<now, now + HBDelay>>[1] = f
    BY <2>1, HBSteps
  <2> QED BY <2>2, <2>3 DEF HBContent, HBRow
<1>2. CASE f \in hbNames
  <2>0. HBContent(f) /\ HBRow(f)
    BY <1>2 DEF HeldBack
  <2>1. ASSUME f \notin failed', f \notin selected' PROVE Working(hb, f)' \/ HBNodes \subseteq stored'[f]
    <3>1. stored[f] \subseteq stored'[f]
      BY <1>0, <2>1, StoredStays
    <3>2. CASE HBNodes \subseteq stored[f]
      BY <3>1, <3>2
    <3>3. CASE Working(hb, f)
      <4>1. hb.acks \subseteq stored[f]
        BY <1>0, <2>1, <3>3 DEF Delivered, Working
      <4> QED BY <2>1, <3>1, <3>3, <4>1, LoopsEnd
    <3> QED BY <1>0, <2>0, <2>1, <3>2, <3>3 DEF HBContent
  <2>2. ASSUME f \notin failed', f \notin selected', ~Present(f)' PROVE \E p \in hbPending' : p[1] = f
    <3>1. ~Present(f)
      <4>1. DeleteRow => del.file \in selected
        BY DeleteSteps DEF Colds
      <4> QED BY <1>0, <2>2, <4>1, TableSteps
    <3>2. PICK p \in hbPending : p[1] = f
      BY <1>0, <2>0, <2>2, <3>1 DEF HBRow
    <3>3. CASE HBInsert
      <4>1. PICK q \in hbPending :
              /\ hbPending' = hbPending \ {q}
              /\ addServiceContents(q[1], TRUE, HBNodes) \/ failed' = failed \cup {q[1]}
        BY <3>3 DEF HBInsert
      <4>2. CASE q = p
        <5>1. addServiceContents(f, TRUE, HBNodes)
          BY <2>2, <3>2, <4>1, <4>2
        <5>2. Present(f)'
          BY <1>0, <5>1 DEF addServiceContents, Present, Kind, TypeOK
        <5> QED BY <2>2, <5>2
      <4>3. CASE q # p
        BY <3>2, <4>1, <4>3
      <4> QED BY <4>2, <4>3
    <3>4. CASE Crash
      BY <2>2, <3>2, <3>4 DEF Crash
    <3>5. CASE ~HBInsert /\ ~Crash
      <4>1. hbPending \subseteq hbPending'
        BY <3>5, HBSteps, HBDeliverChanges
      <4> QED BY <3>2, <4>1
    <3> QED BY <3>3, <3>4, <3>5
  <2> QED BY <2>1, <2>2 DEF HBContent, HBRow
<1> QED BY <1>1, <1>2

LEMMA RowBackedStep ==
  /\ TypeOK /\ Names /\ Colds /\ Delivered /\ RowBacked /\ [Next]_vars
  /\ Delivered' /\ HeldBack'
  => RowBacked'
<1> SUFFICES ASSUME TypeOK, Names, Colds, Delivered, RowBacked, [Next]_vars, Delivered', HeldBack'
             PROVE  RowBacked'
  OBVIOUS
<1>1. TypeOK'
  BY TypeStep
<1>2. ASSUME NEW f \in Files, Present(f)', ~(wanted'[f] \subseteq stored'[f])
      PROVE  \/ Working(del, f)' \/ f \in halfDeleted'
             \/ f \in hbNames' /\ (Working(hb, f)' \/ f \in failed' \/ f \in selected')
  <2>1. CASE f \in hbNames'
    <3>1. HBContent(f)' /\ wanted'[f] \subseteq HBNodes
      BY <2>1 DEF HeldBack, Delivered
    <3> QED BY <1>2, <2>1, <3>1 DEF HBContent
  <2>2. CASE f \notin hbNames'
    <3>0. f \notin hbNames
      BY <2>2, HistoryGrows
    <3>1. ~Inserted(f)
      <4>1. ASSUME DeliverInserted, dl.pc = "insert", f = dl.file,
                   wanted'[f] = DeliverNodes(dl.hot)
            PROVE  FALSE
        <5>1. stored' = stored
          BY <4>1 DEF DeliverInserted
        <5>2. f \notin selected
          BY <3>0, <4>1 DEF Names
        <5>3. dl.acks = DeliverNodes(dl.hot) /\ dl.acks \subseteq stored[f]
          BY <4>1, <5>2 DEF Delivered
        <5> QED BY <1>2, <4>1, <5>1, <5>3
      <4>2. ~\E p \in hbPending : p[1] = f
        BY <3>0 DEF Names
      <4> QED BY <4>1, <4>2 DEF Inserted
    <3>2. wanted'[f] = wanted[f] /\ Present(f)
      BY <1>2, <3>1, TableSteps
    <3>3. CASE wanted[f] \subseteq stored[f]
      <4>1. PICK n \in wanted[f] : n \in stored[f] /\ n \notin stored'[f]
        BY <1>2, <3>2, <3>3
      <4>2. n \in AllNodes
        BY <4>1, TypesUnfold
      <4>3. f \in halfDeleted \/ (DeleteUnstore /\ f = del.file)
        BY <4>1, <4>2, StoredSteps
      <4> QED BY <4>3, HistoryGrows, DeleteSteps DEF Working
    <3>4. CASE ~(wanted[f] \subseteq stored[f])
      <4>1. Working(del, f) \/ f \in halfDeleted
        BY <3>0, <3>2, <3>4 DEF RowBacked
      <4>2. ~(DeleteRow /\ f = del.file)
        BY <1>2, TableSteps
      <4> QED BY <4>1, <4>2, LoopsEnd, HistoryGrows
    <3> QED BY <3>3, <3>4
  <2> QED BY <2>1, <2>2
<1> QED BY <1>1, <1>2 DEF RowBacked, Present, Working

\* When the row goes nothing is stored any more.
LEMMA RowGoesLast ==
  ASSUME TypeOK, Colds, Undelivered, DeleteRow, del.file \notin hbNames
  PROVE  stored[del.file] = {} /\ stored' = stored
<1>1. del.pc = "row" /\ stored' = stored
  BY DEF DeleteRow
<1>2. stored[del.file] \cap AllNodes = {}
  BY <1>1, NodesTyped DEF Undelivered
<1>3. stored[del.file] \subseteq AllNodes
  BY <1>1, TypesUnfold DEF Colds, TypeOK
<1> QED BY <1>1, <1>2, <1>3

LEMMA OrphanStep ==
  /\ TypeOK /\ Names /\ Colds /\ Undelivered /\ OrphanExplained /\ [Next]_vars
  /\ HeldBack'
  => OrphanExplained'
<1> SUFFICES ASSUME TypeOK, Names, Colds, Undelivered, OrphanExplained, [Next]_vars, HeldBack',
                    NEW f \in Files,
                    stored'[f] # {}, ~Present(f)', ~Working(dl, f)', ~Working(del, f)'
             PROVE  \/ f \in failed'
                    \/ f \in hbNames' /\ (f \in selected' \/ \E p \in hbPending' : p[1] = f)
  BY DEF OrphanExplained, Present, Working
<1>1. CASE f \in hbNames'
  BY <1>1 DEF HeldBack, HBRow
<1>2. CASE f \notin hbNames'
  <2>0. f \notin hbNames /\ failed \subseteq failed'
    BY <1>2, HistoryGrows
  <2>1. ~Present(f)
    BY <2>0, TableSteps, RowGoesLast
  <2>2. ~Working(del, f)
    BY <2>1 DEF Colds, Working
  <2>3. CASE Working(dl, f)
    <3>1. DeliverInserted /\ f = dl.file => Present(f)'
      BY DEF DeliverInserted, addServiceContents, Present, Kind, TypeOK
    <3> QED BY <2>3, <3>1, LoopsEnd
  <2>4. CASE ~Working(dl, f) /\ stored[f] # {}
    BY <2>0, <2>1, <2>2, <2>4 DEF OrphanExplained
  <2>5. CASE ~Working(dl, f) /\ stored[f] = {}
    <3>1. PICK n \in AllNodes : n \in stored'[f] /\ n \notin stored[f]
      <4>1. stored'[f] \subseteq AllNodes
        BY StoredSteps
      <4> QED BY <2>5, <4>1
    <3>2. ~(DeliverStore /\ f = dl.file)
      BY <2>5, DeliverSteps DEF Working
    <3>3. ~(HBStore /\ f = hb.file)
      BY <2>0, HBSteps DEF Names
    <3>4. f \in zombie
      BY <3>1, <3>2, <3>3, StoredSteps
    <3> QED BY <2>0, <3>4 DEF Colds
  <2> QED BY <2>3, <2>4, <2>5
<1> QED BY <1>1, <1>2

LEMMA ContentsStep == ContentsInv /\ [Next]_vars => ContentsInv'
<1> SUFFICES ASSUME ContentsInv, [Next]_vars PROVE ContentsInv'
  OBVIOUS
<1> USE DEF ContentsInv
<1>1. TypeOK' /\ Names' /\ Colds' /\ Delivered' /\ Undelivered' /\ HeldBack'
  BY TypeStep, NamesStep, ColdsStep, DeliveredStep, UndeliveredStep, HeldBackStep
<1>2. RowBacked' /\ OrphanExplained'
  BY <1>1, RowBackedStep, OrphanStep
<1> QED BY <1>1, <1>2

-----------------------------------------------------------------------------
(* The theorems.                                                           *)

\* The invariant that ties the two stores to the loops and to the clients left
\* behind (deliver.go, hbdeliver.go, delete.go).
THEOREM ContentsSafe == Spec => []ContentsInv
BY ContentsStart, ContentsStep, PTL DEF Spec

\* A row without its content on the nodes has a reason, and an ordinary delivery
\* that lost nothing is none (deliver.go l.107-150, hbdeliver.go l.74-81).
THEOREM RowsAreBacked == Spec => []RowBacked
BY ContentsSafe, PTL DEF ContentsInv

\* Content without a row has a reason: a delivery that failed, or a holdback
\* delivery whose row is to come or was deleted under it.
THEOREM OrphansAreExplained == Spec => []OrphanExplained
BY ContentsSafe, PTL DEF ContentsInv

\* When a row goes no node holds the content, unless a holdback delivery has its
\* name (delete.go l.93-109).
THEOREM DeletionsAreComplete == Spec => DeletedEverywhere
<1> DEFINE A == \A f \in Files : Present(f) /\ rows'[f] = "absent" /\ f \notin hbNames
                                   => stored[f] = {}
<1>1. ContentsInv /\ [Next]_vars => [A]_vars
  <2> SUFFICES ASSUME ContentsInv, [Next]_vars, NEW f \in Files,
                      Present(f), rows'[f] = "absent", f \notin hbNames
               PROVE  stored[f] = {}
    OBVIOUS
  <2>1. TypeOK /\ Colds /\ Undelivered
    BY DEF ContentsInv
  <2>2. DeleteRow /\ f = del.file
    BY <2>1, TableSteps DEF Present
  <2> QED BY <2>1, <2>2, RowGoesLast
<1> HIDE DEF A
<1>2. Spec => [][A]_vars
  BY <1>1, ContentsSafe, PTL DEF Spec
<1> QED BY <1>2 DEF DeletedEverywhere, A

\* The three loops and dummy-amoc keep what the table promises its readers:
\* INSERT never replaces a row, and a row goes only after it was cold.
THEOREM ContentsImplementTable == Spec => TableImplemented
<1>1. Init => Table!TableInit
  BY ConstantsTyped DEF Init, Table!TableInit
<1>2. ContentsInv /\ [Next]_vars => [Table!TableNext]_(Table!tableVars)
  <2> SUFFICES ASSUME ContentsInv, [Next]_vars PROVE [Table!TableNext]_(Table!tableVars)
    OBVIOUS
  <2>0. TypeOK /\ Names /\ Colds
    BY DEF ContentsInv
  <2> USE DEF Table!TableNext, Table!tableVars
  <2>1. ASSUME NEW f \in Files, NEW h \in BOOLEAN, NEW N,
               ~Present(f), addServiceContents(f, h, N)
        PROVE  Table!TableNext
    <3>1. f \notin wasCold
      BY <2>0, <2>1 DEF Colds
    <3>2. Table!Insert(f, h)
      BY <2>1, <3>1 DEF Table!Insert, Table!Present, Table!Kind, Present, Kind, addServiceContents
    <3> QED BY <3>2
  <2>2. CASE UNCHANGED <<rows, wasCold, wanted>>
    BY <2>2
  <2>3. CASE updateDB
    <3>1. PICK f \in Files, h \in BOOLEAN :
            /\ Present(f) /\ rows' = [rows EXCEPT ![f] = Kind(h)]
            /\ wasCold' = IF h THEN wasCold ELSE wasCold \cup {f}
      BY <2>3 DEF updateDB
    <3>2. Table!SetHot(f, h)
      BY <3>1 DEF Table!SetHot, Table!Present, Table!Kind, Present, Kind
    <3> QED BY <3>2
  <2>4. CASE DeliverInserted
    <3>1. dl.file \in Files /\ dl.hot \in BOOLEAN
      BY <2>0, <2>4, BusyFiles, TypesUnfold DEF DeliverInserted
    <3> QED BY <2>1, <2>4, <3>1 DEF DeliverInserted
  <2>5. CASE HBInsert
    <3>1. PICK p \in hbPending : \/ ~Present(p[1]) /\ addServiceContents(p[1], TRUE, HBNodes)
                                 \/ UNCHANGED <<table, wanted>>
      BY <2>5 DEF HBInsert
    <3>2. p[1] \in Files
      BY <2>0, TypesUnfold
    <3>3. CASE UNCHANGED <<table, wanted>>
      BY <3>3 DEF table
    <3> QED BY <2>1, <3>1, <3>2, <3>3
  <2>6. CASE DeleteRow
    <3>1. del.file \in Files /\ del.file \in wasCold /\ Present(del.file)
      BY <2>0, <2>6, BusyFiles DEF DeleteRow, Colds
    <3>2. Table!Remove(del.file)
      BY <2>6, <3>1 DEF Table!Remove, Table!Present, Present, DeleteRow, deleteServiceContents
    <3> QED BY <3>1, <3>2
  <2> QED BY <2>2, <2>3, <2>4, <2>5, <2>6, TableChanges
<1> QED BY <1>1, <1>2, ContentsSafe, PTL DEF Spec, TableImplemented, Table!TableSpec

-----------------------------------------------------------------------------
(* The copying of files.                                                   *)

\* Where main is with its job.
Phases ==
  /\ pc \in {"copy", "session", "scp"} => job <= Len(Jobs)
  /\ feeder # "none" <=> pc \in {"session", "scp"}
  /\ feeder \in {"header", "content"} => pc = "scp"
  /\ pc = "run" => job > Len(Jobs)
  /\ pc = "scp" /\ feeder = "ready" => Target(job) \in unfed

\* What is at the target of the job at hand.
AtHand ==
  /\ pc = "copy" \/ feeder \in {"ready", "piped"} => remote[Target(job)] = Absent
  /\ feeder = "header" => remote[Target(job)] = [kind |-> "partial", src |-> Src(job)]
  /\ feeder = "content" => remote[Target(job)] = [kind |-> "whole", src |-> Src(job)]

\* A target of a job main is past is there, unless its scp had no input.
Passed ==
  pc # "stopped" =>
    \A i \in 1 .. Len(Jobs) :
      i < job /\ remote[Target(i)] = Absent => Target(i) \in unfed

\* A torn file is being filled or was cut, and a cut ends the run.
Torn ==
  /\ \A t \in Targets : remote[t].kind = "partial" => BeingFilled(t) \/ t \in cut
  /\ cut # {} => starts > 1 \/ pc = "stopped"

CopyInv == CopyTypeOK /\ Phases /\ AtHand /\ Passed /\ Torn /\ FirstJobWins

LEMMA ElementsTyped ==
  ASSUME NEW S, NEW q \in Seq(S)
  PROVE  Len(q) \in Nat /\ \A j \in 1 .. Len(q) : q[j] \in S
OBVIOUS

LEMMA JobsTyped ==
  /\ Len(Jobs) \in Nat
  /\ \A j \in 1 .. Len(Jobs) : Src(j) \in Sources /\ Target(j) \in Targets
<1>1. Len(Jobs) \in Nat /\ \A j \in 1 .. Len(Jobs) : Jobs[j] \in [src : Sources, target : Targets]
  BY JobsAssumption, ElementsTyped
<1> QED BY <1>1 DEF Src, Target

LEMMA KindsDiffer ==
  /\ Absent \in Copies /\ Absent.kind = "absent"
  /\ \A c \in Copies : c # Absent => c.kind \in {"partial", "whole"} /\ c.src \in Sources
  /\ \A k \in {"partial", "whole"}, s \in Sources : [kind |-> k, src |-> s] \in Copies \ {Absent}
<1>1. Absent.kind = "absent"
  BY DEF Absent
<1>2. \A k \in {"partial", "whole"}, s \in Sources : [kind |-> k, src |-> s] # Absent
  <2> SUFFICES ASSUME NEW k \in {"partial", "whole"}, NEW s \in Sources
               PROVE  [kind |-> k, src |-> s] # Absent
    OBVIOUS
  <2>1. [kind |-> k, src |-> s].kind = k
    OBVIOUS
  <2> QED BY <1>1, <2>1
<1> QED BY <1>1, <1>2 DEF Copies

LEMMA CopyStarts == CopyInit => CopyInv
BY JobsTyped, KindsDiffer, StartsAssumption
   DEF CopyInit, CopyInv, CopyTypeOK, Phases, AtHand, Passed, Torn, FirstJobWins, Places, Feeders

LEMMA CopyTypeStep == CopyTypeOK /\ Phases /\ [CopyNext]_copyVars => CopyTypeOK'
<1> SUFFICES ASSUME CopyTypeOK, Phases, [CopyNext]_copyVars PROVE CopyTypeOK'
  OBVIOUS
<1> USE JobsTyped DEF CopyTypeOK, Places, Feeders
<1>0. ASSUME NEW k \in {"partial", "whole"}, Writes(k), job <= Len(Jobs)
      PROVE  remote' \in [Targets -> Copies]
  BY <1>0, KindsDiffer DEF Writes
<1>1. CASE StartLoops \/ TestFinds \/ TestMisses \/ OpenSession \/ TakePipe
  <2>1. job' \in 1 .. Len(Jobs) + 1
    BY <1>1 DEF StartLoops, TestFinds, TestMisses, OpenSession, TakePipe, copyHistory
  <2> QED BY <1>1, <2>1 DEF StartLoops, TestFinds, TestMisses, OpenSession, TakePipe, copyHistory
<1>2. CASE StartScp
  <2>1. job \in 1 .. Len(Jobs)
    BY <1>2 DEF StartScp, Phases
  <2>2. late' \subseteq 1 .. Len(Jobs) /\ unfed' \subseteq Targets
    <3>1. Target(job) \in Targets
      BY <2>1
    <3>2. /\ late' = late \/ late' = late \cup {job}
          /\ unfed' = unfed \/ unfed' = unfed \cup {Target(job)}
      BY <1>2 DEF StartScp
    <3> QED BY <2>1, <3>1, <3>2
  <2> QED BY <1>2, <2>2 DEF StartScp
<1>3. CASE ScpCreates \/ ScpFills
  BY <1>3, <1>0 DEF ScpCreates, ScpFills, Phases, copyHistory
<1>4. CASE ScpEnds
  BY <1>4 DEF ScpEnds, NextJob, Phases, copyHistory
<1>5. ASSUME Die PROVE CopyTypeOK'
  <2>1. cut' \subseteq Targets
    BY <1>5 DEF Die, Phases
  <2>2. remote' \in [Targets -> Copies]
    BY <1>5, <1>0 DEF Die, Phases
  <2> QED BY <1>5, <2>1, <2>2 DEF Die
<1>6. CASE CopyFails \/ Interrupt \/ LatePanic
  BY <1>5, <1>6 DEF CopyFails, Interrupt, LatePanic
<1>7. CASE LateWrites
  BY <1>7 DEF LateWrites, copyHistory
<1>8. CASE Restart
  BY <1>8, StartsAssumption DEF Restart, copyHistory
<1>9. CASE UNCHANGED copyVars
  BY <1>9 DEF copyVars
<1> QED BY <1>1, <1>2, <1>3, <1>4, <1>6, <1>7, <1>8, <1>9 DEF CopyNext, Progress

\* No action but the three that fill a file changes one.
LEMMA OnlyWritesChange ==
  [CopyNext]_copyVars /\ remote' # remote =>
    \/ ScpCreates \/ ScpFills
    \/ pc = "scp" /\ feeder \in {"piped", "header"} /\ Die
BY DEF CopyNext, Progress, StartLoops, TestFinds, TestMisses, OpenSession, TakePipe, StartScp,
       ScpCreates, ScpFills, ScpEnds, CopyFails, Interrupt, LatePanic, Die, LateWrites,
       Restart, copyVars

LEMMA PhasesStep == CopyTypeOK /\ Phases /\ AtHand /\ [CopyNext]_copyVars => Phases' /\ AtHand'
<1> SUFFICES ASSUME CopyTypeOK, Phases, AtHand, [CopyNext]_copyVars PROVE Phases' /\ AtHand'
  OBVIOUS
<1> USE DEF CopyTypeOK, Phases, AtHand
<1>1. CASE StartLoops \/ TestFinds \/ TestMisses \/ OpenSession \/ TakePipe
  BY <1>1, JobsTyped DEF StartLoops, TestFinds, TestMisses, OpenSession, TakePipe, copyHistory
<1>2. CASE StartScp
  BY <1>2 DEF StartScp
<1>3. CASE ScpCreates \/ ScpFills
  BY <1>3, JobsTyped DEF ScpCreates, ScpFills, Writes, copyHistory
<1>4. CASE ScpEnds
  BY <1>4 DEF ScpEnds, NextJob, copyHistory
<1>5. CASE CopyFails \/ Interrupt \/ LatePanic
  BY <1>5 DEF CopyFails, Interrupt, LatePanic, Die
<1>6. CASE LateWrites \/ Restart
  BY <1>6 DEF LateWrites, Restart, copyHistory
<1>7. CASE UNCHANGED copyVars
  BY <1>7 DEF copyVars, Target, Src
<1> QED BY <1>1, <1>2, <1>3, <1>4, <1>5, <1>6, <1>7 DEF CopyNext, Progress

\* What a write changes: the target of the job, which is there afterwards.
LEMMA WriteStep ==
  ASSUME CopyTypeOK, Phases, AtHand, [CopyNext]_copyVars, NEW t \in Targets, remote'[t] # remote[t]
  PROVE  /\ t = Target(job) /\ job \in 1 .. Len(Jobs)
         /\ pc = "scp" /\ feeder \in {"piped", "header"}
         /\ remote'[t] \in [kind : {"partial", "whole"}, src : {Src(job)}]
         /\ remote[t] = Absent \/ remote[t] = [kind |-> "partial", src |-> Src(job)]
         /\ unfed' = unfed /\ job' = job
         /\ ~BeingFilled(t) => remote[t] = Absent
<1>1. /\ pc = "scp" /\ feeder \in {"piped", "header"} /\ unfed' = unfed /\ job' = job
      /\ Writes("partial") \/ Writes("whole")
  BY OnlyWritesChange DEF ScpCreates, ScpFills, Die, copyHistory
<1>2. t = Target(job) /\ job \in 1 .. Len(Jobs)
  BY <1>1, JobsTyped DEF Writes, CopyTypeOK, Phases
<1>3. remote'[t] \in [kind : {"partial", "whole"}, src : {Src(job)}]
  BY <1>1, <1>2, JobsTyped DEF Writes, CopyTypeOK
<1>4. remote[t] = Absent \/ remote[t] = [kind |-> "partial", src |-> Src(job)]
  BY <1>1, <1>2 DEF AtHand
<1>5. ~BeingFilled(t) => remote[t] = Absent
  BY <1>1, <1>2 DEF AtHand, BeingFilled
<1> QED BY <1>1, <1>2, <1>3, <1>4, <1>5

LEMMA UnfedGrows == [CopyNext]_copyVars => unfed \subseteq unfed'
BY DEF CopyNext, Progress, StartLoops, TestFinds, TestMisses, OpenSession, TakePipe, StartScp,
       ScpCreates, ScpFills, ScpEnds, CopyFails, Interrupt, LatePanic, Die, LateWrites,
       Restart, copyVars, copyHistory

LEMMA PassedStep ==
  CopyTypeOK /\ Phases /\ AtHand /\ Passed /\ [CopyNext]_copyVars => Passed'
<1> SUFFICES ASSUME CopyTypeOK, Phases, AtHand, Passed, [CopyNext]_copyVars, pc' # "stopped",
                    NEW i \in 1 .. Len(Jobs), i < job', remote'[Target(i)] = Absent
             PROVE  Target(i) \in unfed'
  BY DEF Passed, Target
<1>1. Target(i) \in Targets
  BY JobsTyped
<1>2. remote[Target(i)] = Absent
  <2>1. CASE remote'[Target(i)] # remote[Target(i)]
    <3>1. remote'[Target(i)].kind \in {"partial", "whole"}
      BY <1>1, <2>1, WriteStep
    <3> QED BY <3>1, KindsDiffer
  <2> QED BY <2>1
<1>3. pc # "stopped" \/ job' = 1
  BY DEF CopyNext, Progress, StartLoops, TestFinds, TestMisses, OpenSession, TakePipe,
         StartScp, ScpCreates, ScpFills, ScpEnds, CopyFails, Interrupt, LatePanic, Die,
         LateWrites, Restart, copyVars
<1>4. ASSUME job' = job + 1, i = job PROVE Target(i) \in unfed
  <2>1. TestFinds \/ ScpEnds
    BY <1>4 DEF CopyNext, Progress, StartLoops, TestFinds, TestMisses, OpenSession, TakePipe,
         StartScp, ScpCreates, ScpFills, ScpEnds, CopyFails, Interrupt, LatePanic, Die,
         LateWrites, Restart, copyVars, CopyTypeOK
  <2>2. ~TestFinds
    BY <1>2, <1>4 DEF TestFinds
  <2>3. feeder # "content"
    <3> SUFFICES ASSUME feeder = "content" PROVE FALSE
      OBVIOUS
    <3>1. remote[Target(i)].kind = "whole"
      BY <1>4 DEF AtHand
    <3> QED BY <3>1, <1>2, KindsDiffer
  <2> QED BY <1>4, <2>1, <2>2, <2>3 DEF ScpEnds, Phases
<1>5. job' \in {1, job, job + 1}
  BY DEF CopyNext, Progress, StartLoops, TestFinds, TestMisses, OpenSession, TakePipe,
         StartScp, ScpCreates, ScpFills, ScpEnds, NextJob, CopyFails, Interrupt, LatePanic,
         Die, LateWrites, Restart, copyVars
<1>6. i < job \/ (job' = job + 1 /\ i = job)
  BY <1>5 DEF CopyTypeOK
<1>7. i < job => Target(i) \in unfed
  BY <1>2, <1>3 DEF Passed
<1> QED BY <1>4, <1>6, <1>7, UnfedGrows

LEMMA TornStep == CopyTypeOK /\ Phases /\ AtHand /\ Torn /\ [CopyNext]_copyVars => Torn'
<1> SUFFICES ASSUME CopyTypeOK, Phases, AtHand, Torn, [CopyNext]_copyVars PROVE Torn'
  OBVIOUS
<1>1. cut' # {} => starts' > 1 \/ pc' = "stopped"
  BY StartsAssumption
     DEF Torn, CopyTypeOK, CopyNext, Progress, StartLoops, TestFinds, TestMisses, OpenSession,
         TakePipe, StartScp, ScpCreates, ScpFills, ScpEnds, CopyFails, Interrupt, LatePanic,
         Die, LateWrites, Restart, copyVars, copyHistory
<1>2. cut \subseteq cut'
  BY DEF CopyNext, Progress, StartLoops, TestFinds, TestMisses, OpenSession, TakePipe, StartScp,
         ScpCreates, ScpFills, ScpEnds, CopyFails, Interrupt, LatePanic, Die, LateWrites,
         Restart, copyVars, copyHistory
<1>3. ASSUME NEW t \in Targets, remote'[t].kind = "partial"
      PROVE  BeingFilled(t)' \/ t \in cut'
  <2>1. CASE remote'[t] # remote[t]
    <3>1. t = Target(job) /\ pc = "scp" /\ feeder \in {"piped", "header"}
      BY <2>1, WriteStep
    <3>2. CASE ScpCreates
      BY <3>1, <3>2 DEF ScpCreates, BeingFilled, Target
    <3>3. CASE ScpFills
      <4>1. remote'[t].kind = "whole"
        BY <3>1, <3>3 DEF ScpFills, Writes, CopyTypeOK
      <4> QED BY <4>1, <1>3
    <3>4. CASE Die
      BY <3>1, <3>4 DEF Die
    <3> QED BY <2>1, <3>2, <3>3, <3>4, OnlyWritesChange
  <2>2. CASE remote'[t] = remote[t] /\ BeingFilled(t)
    <3>1. pc = "scp" /\ feeder = "header" /\ Target(job) = t
      BY <2>2 DEF BeingFilled
    <3>2. CASE Die
      BY <3>1, <3>2 DEF Die
    <3>3. CASE ScpFills
      <4>1. remote'[t].kind = "whole"
        BY <3>1, <3>3 DEF ScpFills, Writes, CopyTypeOK
      <4> QED BY <4>1, <1>3
    <3>4. CASE LateWrites \/ UNCHANGED copyVars
      BY <3>1, <3>4 DEF LateWrites, copyVars, BeingFilled, Target
    <3> QED BY <3>1, <3>2, <3>3, <3>4
         DEF CopyNext, Progress, StartLoops, TestFinds, TestMisses, OpenSession, TakePipe,
             StartScp, ScpCreates, ScpEnds, CopyFails, Interrupt, LatePanic, Restart
  <2> QED BY <1>2, <1>3, <2>1, <2>2 DEF Torn
<1> QED BY <1>1, <1>3 DEF Torn

LEMMA FirstStep ==
  CopyTypeOK /\ Phases /\ AtHand /\ Passed /\ FirstJobWins /\ [CopyNext]_copyVars => FirstJobWins'
<1> SUFFICES ASSUME CopyTypeOK, Phases, AtHand, Passed, FirstJobWins, [CopyNext]_copyVars,
                    NEW j \in 1 .. Len(Jobs), remote'[Target(j)] # Absent,
                    Target(j) \notin unfed', \A i \in 1 .. j - 1 : Target(i) # Target(j)
             PROVE  remote'[Target(j)].src = Src(j)
  BY DEF FirstJobWins, Target, Src
<1>1. Target(j) \in Targets /\ Target(j) \notin unfed
  BY JobsTyped, UnfedGrows
<1>2. CASE remote'[Target(j)] = remote[Target(j)]
  BY <1>1, <1>2 DEF FirstJobWins
<1>3. CASE remote'[Target(j)] # remote[Target(j)]
  <2>1. /\ Target(j) = Target(job) /\ job \in 1 .. Len(Jobs) /\ pc = "scp"
        /\ remote'[Target(j)].src = Src(job)
        /\ \/ remote[Target(j)] = Absent
           \/ remote[Target(j)] = [kind |-> "partial", src |-> Src(job)]
    BY <1>1, <1>3, WriteStep
  <2>2. CASE remote[Target(j)] = Absent
    <3>1. ~(j < job)
      BY <1>1, <2>1, <2>2 DEF Passed
    <3>2. ~(job < j)
      BY <2>1, JobsTyped
    <3> QED BY <2>1, <3>1, <3>2, JobsTyped
  <2>3. CASE remote[Target(j)] = [kind |-> "partial", src |-> Src(job)]
    <3>1. remote[Target(j)] # Absent /\ remote[Target(j)].src = Src(job)
      BY <2>1, <2>3, JobsTyped, KindsDiffer
    <3> QED BY <1>1, <2>1, <3>1 DEF FirstJobWins
  <2> QED BY <2>1, <2>2, <2>3
<1> QED BY <1>2, <1>3

-----------------------------------------------------------------------------
(* The copying of files: the theorems.                                     *)

LEMMA CopyInvariant == CopySpec => []CopyInv
<1>1. CopyInv /\ [CopyNext]_copyVars => CopyInv'
  BY CopyTypeStep, PhasesStep, PassedStep, TornStep, FirstStep DEF CopyInv
<1> QED BY <1>1, CopyStarts, PTL DEF CopySpec

\* Whatever fails and whoever is late: main is at one of the jobs or behind the
\* last, and what is at a target is nothing or comes from a source, in part or
\* whole (kt-simul.go l.57-133, remote.go l.209-271).
THEOREM CopyTypes == CopySpec => []CopyTypeOK
BY CopyInvariant, PTL DEF CopyInv

\* copyFiles lets main start its loops (l.57-74) only with whole files at their
\* targets, but for those of an unfed scp and those an earlier run left torn.
THEOREM SimulationHasItsFiles == CopySpec => []FilesAtRun
<1>1. CopyInv => FilesAtRun
  <2> SUFFICES ASSUME CopyInv, pc = "run", NEW j \in 1 .. Len(Jobs)
               PROVE  /\ remote[Target(j)] = Absent => Target(j) \in unfed
                      /\ remote[Target(j)].kind = "partial" => Target(j) \in cut /\ starts > 1
    BY DEF FilesAtRun
  <2>1. j < job /\ Target(j) \in Targets
    BY JobsTyped DEF CopyInv, Phases, CopyTypeOK
  <2> QED BY <2>1 DEF CopyInv, Passed, Torn, BeingFilled
<1> QED BY <1>1, CopyInvariant, PTL

\* Of several files for one target the first in copyFiles' order gets there.
THEOREM FirstOfOneTarget == CopySpec => []FirstJobWins
BY CopyInvariant, PTL DEF CopyInv

\* CopyIfNotExists and Copy never touch a file no scp is filling.
THEOREM CopiesStay == CopySpec => FilesStay
<1>1. CopyInv /\ [CopyNext]_copyVars =>
        [\A t \in Targets :
           remote[t] # Absent /\ ~BeingFilled(t) => remote'[t] = remote[t]]_copyVars
  BY WriteStep DEF CopyInv
<1> QED BY <1>1, CopyInvariant, PTL DEF CopySpec, FilesStay
=============================================================================
