---------------------------- MODULE ToolboxProofs ----------------------------
(***************************************************************************)
(* Proofs about the programs of Toolbox: multi-proc-server, subfile,       *)
(* dummy-amoc, fusefs, httpfsrv, multicast-sender, dummy-adds, agingcp,    *)
(* filereader, the tools that send and write a stream, hlsclient.          *)
(*                                                                         *)
(* For each program of Toolbox first what its own specification implies,   *)
(* for any constants its module allows, and at the end, since a step of    *)
(* Toolbox is one of a program or none of it, the same of Toolbox.         *)
(***************************************************************************)
EXTENDS Toolbox, FiniteSets, FiniteSetTheorems, SequenceTheorems, TLAPS

-----------------------------------------------------------------------------
(* multi-proc-server: processes that share one socket.                     *)

\* Which workers a main process can have by then.
WorkersFollow ==
  \A r \in Multi!Runs :
    /\ r > starts => main[r] = "none"
    /\ main[r] \in {"none", "refused"} => \A w \in Multi!Workers : worker[r][w] = "none"
    /\ main[r] = "starting" => \A w \in Multi!Workers : w >= i[r] => worker[r][w] = "none"
    /\ main[r] = "waiting" => \A w \in Multi!Workers : w < i[r] => worker[r][w] = "ended"
    /\ main[r] = "done" => \A w \in Multi!Workers : worker[r][w] = "ended"

PortInv == Multi!TypeOK /\ WorkersFollow /\ Multi!OneRunServes

\* A step of run r changes no other run.
LEMMA OtherRuns ==
  ASSUME Multi!TypeOK, NEW r \in Multi!Runs,
         \/ Multi!MainStep(r) \/ Multi!StartProcessFails(r) \/ Multi!MainDies(r) \/ Multi!Interrupt(r)
         \/ \E w \in Multi!Workers : Multi!FindSocket(r, w) \/ Multi!WorkerEnds(r, w)
  PROVE  /\ starts' = starts
         /\ \A q \in Multi!Runs : q # r =>
              main'[q] = main[q] /\ i'[q] = i[q] /\ worker'[q] = worker[q]
BY DEF Multi!TypeOK, Multi!MainStep, Multi!StartProcess, Multi!AllStarted, Multi!Wait,
       Multi!MainEnds, Multi!StartProcessFails, Multi!MainDies, Multi!Interrupt,
       Multi!FindSocket, Multi!WorkerEnds

LEMMA MultiTypeStep ==
  ASSUME Multi!WorkersAssumption, Multi!TypeOK, [Multi!Next]_(Multi!vars)
  PROVE  Multi!TypeOK'
<1>0. workerN \in Nat /\ MaxStarts \in Nat
  BY DEF Multi!WorkersAssumption
<1>1. CASE UNCHANGED Multi!vars
  BY <1>1 DEF Multi!vars, Multi!TypeOK
<1>2. CASE Multi!Start
  BY <1>0, <1>2 DEF Multi!Start, Multi!TypeOK, Multi!Phases, Multi!Runs
<1>3. ASSUME NEW r \in Multi!Runs, Multi!MainStep(r)
      PROVE  Multi!TypeOK'
  <2>1. i[r] \in Nat /\ i[r] >= 1 /\ i[r] <= workerN + 1
    BY <1>0 DEF Multi!TypeOK
  <2>2. CASE Multi!StartProcess(r)
    <3>1. i[r] \in Multi!Workers
      BY <1>0, <2>1, <2>2 DEF Multi!StartProcess, Multi!Workers
    <3>2. i' \in [Multi!Runs -> 1 .. workerN + 1]
      <4>1. i[r] + 1 \in 1 .. workerN + 1
        BY <1>0, <2>1, <2>2 DEF Multi!StartProcess
      <4> QED BY <2>2, <4>1 DEF Multi!StartProcess, Multi!TypeOK
    <3> QED BY <2>2, <3>1, <3>2 DEF Multi!StartProcess, Multi!TypeOK
  <2>3. CASE Multi!AllStarted(r) \/ Multi!MainEnds(r)
    BY <1>0, <2>3 DEF Multi!AllStarted, Multi!MainEnds, Multi!TypeOK, Multi!Phases
  <2>4. CASE Multi!Wait(r)
    <3>1. i[r] + 1 \in 1 .. workerN + 1
      BY <1>0, <2>1, <2>4 DEF Multi!Wait
    <3> QED BY <2>4, <3>1 DEF Multi!Wait, Multi!TypeOK
  <2> QED BY <1>3, <2>2, <2>3, <2>4 DEF Multi!MainStep
<1>4. ASSUME NEW r \in Multi!Runs,
             Multi!StartProcessFails(r) \/ Multi!MainDies(r) \/ Multi!Interrupt(r)
      PROVE  Multi!TypeOK'
  BY <1>4 DEF Multi!StartProcessFails, Multi!MainDies, Multi!Interrupt, Multi!TypeOK, Multi!Phases
<1>5. ASSUME NEW r \in Multi!Runs, NEW w \in Multi!Workers,
             Multi!FindSocket(r, w) \/ Multi!WorkerEnds(r, w)
      PROVE  Multi!TypeOK'
  <2> DEFINE W == {"none", "started", "serving", "ended"}
  <2>1. \E l \in W : worker' = [worker EXCEPT ![r][w] = l]
    BY <1>5 DEF Multi!FindSocket, Multi!WorkerEnds
  <2>2. worker \in [Multi!Runs -> [Multi!Workers -> W]]
    BY DEF Multi!TypeOK
  <2> HIDE DEF W
  <2>3. worker' \in [Multi!Runs -> [Multi!Workers -> W]]
    BY <2>1, <2>2
  <2>4. starts' = starts /\ main' = main /\ i' = i
    BY <1>5 DEF Multi!FindSocket, Multi!WorkerEnds
  <2> QED BY <2>3, <2>4 DEF Multi!TypeOK, W
<1> QED BY <1>1, <1>2, <1>3, <1>4, <1>5 DEF Multi!Next

LEMMA WorkersFollowStep ==
  ASSUME Multi!WorkersAssumption, Multi!TypeOK, WorkersFollow, [Multi!Next]_(Multi!vars)
  PROVE  WorkersFollow'
<1>0. workerN \in Nat /\ MaxStarts \in Nat /\ Multi!Runs \subseteq Nat /\ Multi!Workers \subseteq Nat
      /\ starts \in Nat /\ (\A r \in Multi!Runs : i[r] \in Nat)
      /\ \A w \in Multi!Workers : w >= 1 /\ w <= workerN
  BY DEF Multi!WorkersAssumption, Multi!Runs, Multi!Workers, Multi!TypeOK
<1> DEFINE F(r) ==
    /\ r > starts => main[r] = "none"
    /\ main[r] \in {"none", "refused"} => \A w \in Multi!Workers : worker[r][w] = "none"
    /\ main[r] = "starting" => \A w \in Multi!Workers : w >= i[r] => worker[r][w] = "none"
    /\ main[r] = "waiting" => \A w \in Multi!Workers : w < i[r] => worker[r][w] = "ended"
    /\ main[r] = "done" => \A w \in Multi!Workers : worker[r][w] = "ended"
<1> SUFFICES ASSUME NEW r \in Multi!Runs PROVE F(r)'
  BY DEF WorkersFollow
<1>1. F(r)
  BY DEF WorkersFollow
<1>2. CASE UNCHANGED Multi!vars
  BY <1>1, <1>2 DEF Multi!vars
<1>3. CASE Multi!Start
  <2>1. worker' = worker /\ i' = i /\ starts' = starts + 1
    BY <1>3 DEF Multi!Start
  <2>2. CASE r = starts + 1
    <3>1. main[r] = "none" /\ main'[r] \in {"starting", "refused"}
      BY <1>0, <1>1, <1>3, <2>2 DEF Multi!Start, Multi!TypeOK
    <3> QED BY <1>0, <1>1, <2>1, <2>2, <3>1
  <2>3. CASE r # starts + 1
    <3>1. main'[r] = main[r]
      BY <1>3, <2>3 DEF Multi!Start, Multi!TypeOK
    <3> QED BY <1>0, <1>1, <2>1, <2>3, <3>1
  <2> QED BY <2>2, <2>3
<1>4. ASSUME NEW q \in Multi!Runs, q # r,
             \/ Multi!MainStep(q) \/ Multi!StartProcessFails(q) \/ Multi!MainDies(q)
             \/ Multi!Interrupt(q)
             \/ \E w \in Multi!Workers : Multi!FindSocket(q, w) \/ Multi!WorkerEnds(q, w)
      PROVE  F(r)'
  <2>1. starts' = starts /\ main'[r] = main[r] /\ i'[r] = i[r] /\ worker'[r] = worker[r]
    BY <1>4, OtherRuns
  <2> QED BY <1>1, <2>1
<1>5. ASSUME NEW w \in Multi!Workers, Multi!FindSocket(r, w) \/ Multi!WorkerEnds(r, w)
      PROVE  F(r)'
  <2>1. /\ main' = main /\ i' = i /\ starts' = starts /\ worker[r][w] \in {"started", "serving"}
        /\ \A v \in Multi!Workers : v # w => worker'[r][v] = worker[r][v]
    BY <1>5 DEF Multi!FindSocket, Multi!WorkerEnds, Multi!Lives, Multi!TypeOK
  <2> QED BY <1>1, <2>1
<1>6. CASE Multi!StartProcess(r)
  <2>1. /\ starts' = starts /\ main' = main /\ i'[r] = i[r] + 1 /\ main[r] = "starting"
        /\ \A v \in Multi!Workers : v # i[r] => worker'[r][v] = worker[r][v]
    BY <1>6 DEF Multi!StartProcess, Multi!TypeOK
  <2>2. \A w \in Multi!Workers : w >= i[r] + 1 => w # i[r] /\ w >= i[r]
    BY <1>0
  <2> QED BY <1>1, <2>1, <2>2
<1>7. CASE Multi!AllStarted(r) \/ Multi!Wait(r) \/ Multi!MainEnds(r)
  <2>1. starts' = starts /\ worker' = worker
    BY <1>7 DEF Multi!AllStarted, Multi!Wait, Multi!MainEnds
  <2>2. CASE Multi!AllStarted(r)
    <3>1. main[r] = "starting" /\ main'[r] = "waiting" /\ i'[r] = 1
      BY <2>2 DEF Multi!AllStarted, Multi!TypeOK
    <3>2. \A w \in Multi!Workers : ~(w < 1)
      BY <1>0
    <3> QED BY <1>1, <2>1, <3>1, <3>2
  <2>3. CASE Multi!Wait(r)
    <3>1. main' = main /\ main[r] = "waiting" /\ i'[r] = i[r] + 1 /\ worker[r][i[r]] = "ended"
      BY <2>3 DEF Multi!Wait, Multi!TypeOK
    <3>2. \A w \in Multi!Workers : w < i[r] + 1 => w = i[r] \/ w < i[r]
      BY <1>0
    <3> QED BY <1>1, <2>1, <3>1, <3>2
  <2>4. CASE Multi!MainEnds(r)
    <3>1. main[r] = "waiting" /\ main'[r] = "done" /\ i[r] > workerN
      BY <2>4 DEF Multi!MainEnds, Multi!TypeOK
    <3>2. \A w \in Multi!Workers : w < i[r]
      BY <1>0, <3>1
    <3> QED BY <1>1, <2>1, <3>1, <3>2
  <2> QED BY <1>7, <2>2, <2>3, <2>4
<1>8. CASE Multi!StartProcessFails(r) \/ Multi!MainDies(r) \/ Multi!Interrupt(r)
  BY <1>1, <1>8 DEF Multi!StartProcessFails, Multi!MainDies, Multi!Interrupt, Multi!MainRuns,
                    Multi!TypeOK
<1> QED BY <1>2, <1>3, <1>4, <1>5, <1>6, <1>7, <1>8 DEF Multi!Next, Multi!MainStep

LEMMA OneRunServesStep ==
  ASSUME Multi!WorkersAssumption, Multi!TypeOK, WorkersFollow, Multi!OneRunServes,
         [Multi!Next]_(Multi!vars)
  PROVE  Multi!OneRunServes'
<1>1. ASSUME NEW r \in Multi!Runs, Multi!HasPort(r)'
      PROVE  Multi!HasPort(r) \/ (Multi!Start /\ r = starts + 1 /\ Multi!CanListen(starts + 1))
  <2>1. CASE UNCHANGED Multi!vars
    BY <1>1, <2>1 DEF Multi!vars, Multi!HasPort, Multi!MainRuns, Multi!Lives
  <2>2. CASE Multi!Start
    BY <1>1, <2>2 DEF Multi!Start, Multi!HasPort, Multi!MainRuns, Multi!Lives, Multi!TypeOK
  <2>3. ASSUME NEW q \in Multi!Runs,
               \/ Multi!MainStep(q) \/ Multi!StartProcessFails(q) \/ Multi!MainDies(q)
               \/ Multi!Interrupt(q)
               \/ \E w \in Multi!Workers : Multi!FindSocket(q, w) \/ Multi!WorkerEnds(q, w)
        PROVE  Multi!HasPort(r)
    <3>1. CASE q # r
      <4>1. main'[r] = main[r] /\ worker'[r] = worker[r]
        BY <2>3, <3>1, OtherRuns
      <4> QED BY <1>1, <4>1 DEF Multi!HasPort, Multi!MainRuns, Multi!Lives
    <3>2. CASE q = r /\ ~Multi!MainRuns(r)
      <4>1. PICK w \in Multi!Workers : Multi!FindSocket(r, w) \/ Multi!WorkerEnds(r, w)
        BY <2>3, <3>2 DEF Multi!MainStep, Multi!StartProcess, Multi!AllStarted, Multi!Wait,
             Multi!MainEnds, Multi!StartProcessFails, Multi!MainDies, Multi!Interrupt, Multi!MainRuns
      <4> QED BY <4>1 DEF Multi!FindSocket, Multi!WorkerEnds, Multi!HasPort, Multi!Lives
    <3> QED BY <3>1, <3>2 DEF Multi!HasPort
  <2> QED BY <2>1, <2>2, <2>3 DEF Multi!Next
<1> SUFFICES ASSUME NEW q \in Multi!Runs, NEW r \in Multi!Runs,
                    Multi!HasPort(q)', Multi!HasPort(r)'
             PROVE  q = r
  BY DEF Multi!OneRunServes
<1> QED BY <1>1 DEF Multi!OneRunServes, Multi!CanListen

LEMMA MultiSafe ==
  ASSUME Multi!WorkersAssumption
  PROVE  Multi!Spec => []Multi!PortKept
<1>1. Multi!Init => PortInv
  <2>1. 1 \in 1 .. workerN + 1 /\ 0 \in 0 .. MaxStarts
    BY DEF Multi!WorkersAssumption
  <2> QED BY <2>1 DEF Multi!Init, PortInv, Multi!TypeOK, Multi!Phases, WorkersFollow,
                      Multi!OneRunServes, Multi!HasPort, Multi!MainRuns, Multi!Lives
<1>2. PortInv /\ [Multi!Next]_(Multi!vars) => PortInv'
  BY MultiTypeStep, WorkersFollowStep, OneRunServesStep DEF PortInv
<1>3. PortInv => Multi!PortKept
  <2> SUFFICES ASSUME PortInv, NEW r \in Multi!Runs, Multi!HasPort(r), ~Multi!MainRuns(r)
               PROVE  main[r] = "died"
    BY DEF PortInv, Multi!PortKept, Multi!OrphansExplained
  <2> QED BY DEF PortInv, WorkersFollow, Multi!TypeOK, Multi!Phases, Multi!HasPort,
                 Multi!MainRuns, Multi!Lives
<1> QED BY <1>1, <1>2, <1>3, PTL DEF Multi!Spec

-----------------------------------------------------------------------------
(* subfile: a range of a file, read in pieces of any size.                 *)

\* The bytes in the output, and how far the copy is.
BytesInPlace ==
  /\ Len(subOut) = writed
  /\ \A k \in 1 .. Len(subOut) : subOut[k] = offset + k
  /\ length < 0 \/ subPc = "open" => writed = 0
  /\ subPc \in {"copy", "done"} => offset >= 0 /\ (same => inSize = 0 /\ writed = 0)
  /\ subPc = "copy" =>
       /\ writed = inPos - offset
       /\ writed = 0 \/ (writed < length /\ inPos <= inSize)
  /\ subPc = "done" /\ length >= 0 =>
       IF offset + length <= inSize THEN writed = length
       ELSE writed = IF inSize > offset THEN inSize - offset ELSE 0

SubInv == Sub!TypeOK /\ BytesInPlace

LEMMA SubTyped ==
  ASSUME Sub!SizesAssumption, Sub!FlagsAssumption, Sub!TypeOK
  PROVE  /\ offset \in Int /\ length \in Int /\ inSize \in Nat /\ inSize <= MaxInput
         /\ MaxInput \in Nat /\ BufSize \in Nat /\ inPos \in Nat /\ writed \in Nat
         /\ subOut \in Seq(1 .. MaxInput) /\ Len(subOut) \in Nat
<1>1. offset \in Int /\ length \in Int
  BY DEF Sub!FlagsAssumption, Sub!TypeOK
<1>2. MaxInput \in Nat /\ BufSize \in Nat
  BY DEF Sub!SizesAssumption
<1>3. inSize \in Nat /\ inSize <= MaxInput /\ inPos \in Nat /\ writed \in Nat
      /\ subOut \in Seq(1 .. MaxInput)
  BY <1>2 DEF Sub!TypeOK
<1> QED BY <1>1, <1>2, <1>3

\* Appending a piece keeps the bytes in their places.
LEMMA PieceAppended ==
  ASSUME NEW M \in Nat, NEW s \in Seq(1 .. M), NEW o \in Nat, NEW p \in Nat,
         \A k \in 1 .. Len(s) : s[k] = o + k, p = o + Len(s),
         NEW piece \in Seq(1 .. M), \A k \in 1 .. Len(piece) : piece[k] = p + k
  PROVE  /\ s \o piece \in Seq(1 .. M) /\ Len(s \o piece) = Len(s) + Len(piece)
         /\ \A k \in 1 .. Len(s \o piece) : (s \o piece)[k] = o + k
<1> DEFINE t == s \o piece
           n == Len(piece)
<1>0. t = s \o piece
  OBVIOUS
<1>1. n \in Nat /\ \A k \in 1 .. n : piece[k] = p + k
  OBVIOUS
<1> HIDE DEF t
<1>2. t \in Seq(1 .. M) /\ Len(t) = Len(s) + n
  BY <1>0, <1>1, ConcatProperties
<1>3. ASSUME NEW k \in 1 .. Len(t) PROVE t[k] = o + k
  <2>0. Len(s) \in Nat /\ k \in Nat /\ k >= 1 /\ k <= Len(s) + n
    BY <1>2
  <2>1. t[k] = IF k <= Len(s) THEN s[k] ELSE piece[k - Len(s)]
    BY <1>0, <1>1, <2>0, ConcatProperties
  <2>2. CASE k <= Len(s)
    BY <2>0, <2>1, <2>2
  <2>3. CASE ~(k <= Len(s))
    <3> DEFINE m == k - Len(s)
    <3>1. m \in 1 .. n /\ p + m = o + k
      BY <2>0, <2>3
    <3> HIDE DEF m
    <3>2. piece[m] = p + m
      BY <1>1, <3>1
    <3> QED BY <2>1, <2>3, <3>1, <3>2 DEF m
  <2> QED BY <2>2, <2>3
<1> QED BY <1>0, <1>2, <1>3

LEMMA SubStep ==
  ASSUME Sub!SizesAssumption, Sub!FlagsAssumption, SubInv, [Sub!Next]_(Sub!vars)
  PROVE  SubInv'
<1>0. /\ offset \in Int /\ length \in Int /\ inSize \in Nat /\ inSize <= MaxInput
      /\ MaxInput \in Nat /\ BufSize \in Nat /\ inPos \in Nat /\ writed \in Nat
      /\ subOut \in Seq(1 .. MaxInput) /\ Len(subOut) \in Nat
      /\ Sub!TypeOK /\ BytesInPlace
  BY SubTyped DEF SubInv
<1>1. CASE UNCHANGED Sub!vars
  BY <1>0, <1>1 DEF Sub!vars, Sub!flags, SubInv, Sub!TypeOK, BytesInPlace
<1>2. CASE Sub!Open
  <2>1. /\ subPc = "open" /\ inSize' = (IF same THEN 0 ELSE inSize)
        /\ IF offset < 0 THEN subPc' = "panic" /\ inPos' = inPos
                         ELSE subPc' = "copy" /\ inPos' = offset
        /\ UNCHANGED <<offset, length, same, subOut, writed>>
    BY <1>2 DEF Sub!Open, Sub!flags
  <2>2. Sub!TypeOK'
    BY <1>0, <2>1 DEF Sub!TypeOK
  <2>3. writed = 0
    BY <1>0, <2>1 DEF BytesInPlace
  <2>4. BytesInPlace'
    BY <1>0, <2>1, <2>3 DEF BytesInPlace
  <2> QED BY <2>2, <2>4 DEF SubInv
<1>3. CASE Sub!Round
  <2>1. PICK cnt \in 1 .. Sub!Least(BufSize, inSize - inPos) :
          /\ inPos' = inPos + cnt
          /\ IF Sub!Wanted(cnt) < 0 THEN subPc' = "panic" /\ UNCHANGED <<subOut, writed>>
             ELSE /\ subOut' = subOut \o [k \in 1 .. Sub!Wanted(cnt) |-> inPos + k]
                  /\ writed' = writed + Sub!Wanted(cnt)
                  /\ subPc' = IF writed' >= length THEN "done" ELSE "copy"
    BY <1>3 DEF Sub!Round
  <2>2. /\ subPc = "copy" /\ inPos < inSize
        /\ UNCHANGED <<offset, length, same, inSize>>
    BY <1>3 DEF Sub!Round, Sub!flags
  <2>3. cnt \in Nat /\ cnt >= 1 /\ inPos + cnt <= inSize
    BY <1>0, <2>2 DEF Sub!Least
  <2>4. /\ offset >= 0 /\ ~same /\ writed = inPos - offset /\ Len(subOut) = writed
        /\ \A k \in 1 .. Len(subOut) : subOut[k] = offset + k
        /\ length < 0 => writed = 0
    BY <1>0, <2>2 DEF BytesInPlace
  <2> DEFINE n == Sub!Wanted(cnt)
  <2>5. n \in Int /\ n <= cnt /\ n <= length - writed /\ (n = cnt \/ n = length - writed)
    BY <1>0, <2>3 DEF Sub!Wanted, Sub!Least
  <2> HIDE DEF n
  <2>6. CASE n < 0
    <3>1. subPc' = "panic" /\ subOut' = subOut /\ writed' = writed /\ inPos' = inPos + cnt
      BY <2>1, <2>6 DEF n
    <3>2. Sub!TypeOK'
      BY <1>0, <2>2, <2>3, <3>1 DEF Sub!TypeOK
    <3>3. BytesInPlace'
      BY <2>2, <2>4, <3>1 DEF BytesInPlace
    <3> QED BY <3>2, <3>3 DEF SubInv
  <2>7. CASE ~(n < 0)
    <3>1. /\ subOut' = subOut \o [k \in 1 .. n |-> inPos + k] /\ writed' = writed + n
          /\ subPc' = IF writed' >= length THEN "done" ELSE "copy"
          /\ inPos' = inPos + cnt
      BY <2>1, <2>7 DEF n
    <3>2. n \in Nat /\ offset \in Nat /\ inPos = offset + Len(subOut) /\ inPos + n <= MaxInput
      BY <1>0, <2>3, <2>4, <2>5, <2>7
    <3>3. /\ subOut' \in Seq(1 .. MaxInput) /\ Len(subOut') = Len(subOut) + n
          /\ \A k \in 1 .. Len(subOut') : subOut'[k] = offset + k
      <4>1. MaxInput \in Nat /\ subOut \in Seq(1 .. MaxInput) /\ inPos \in Nat
        BY <1>0
      <4> DEFINE piece == [k \in 1 .. n |-> inPos + k]
                 t == subOut \o piece
      <4>2. \A k \in 1 .. n : inPos + k \in 1 .. MaxInput
        BY <3>2, <4>1
      <4>3. piece \in Seq(1 .. MaxInput) /\ Len(piece) = n
            /\ \A k \in 1 .. Len(piece) : piece[k] = inPos + k
        BY <3>2, <4>2
      <4>4. subOut' = t
        BY <3>1
      <4> HIDE DEF piece
      <4>5. t \in Seq(1 .. MaxInput) /\ Len(t) = Len(subOut) + n
            /\ \A k \in 1 .. Len(t) : t[k] = offset + k
        <5>1. \A s, q \in Seq(1 .. MaxInput), o, p \in Nat :
                /\ \A k \in 1 .. Len(s) : s[k] = o + k
                /\ p = o + Len(s)
                /\ \A k \in 1 .. Len(q) : q[k] = p + k
                => /\ s \o q \in Seq(1 .. MaxInput) /\ Len(s \o q) = Len(s) + Len(q)
                   /\ \A k \in 1 .. Len(s \o q) : (s \o q)[k] = o + k
          BY <4>1, PieceAppended
        <5>2. /\ subOut \in Seq(1 .. MaxInput) /\ piece \in Seq(1 .. MaxInput)
              /\ offset \in Nat /\ inPos \in Nat /\ inPos = offset + Len(subOut)
              /\ \A k \in 1 .. Len(subOut) : subOut[k] = offset + k
              /\ \A k \in 1 .. Len(piece) : piece[k] = inPos + k
          BY <2>4, <3>2, <4>1, <4>3
        <5>3. /\ subOut \o piece \in Seq(1 .. MaxInput)
              /\ Len(subOut \o piece) = Len(subOut) + Len(piece)
              /\ \A k \in 1 .. Len(subOut \o piece) : (subOut \o piece)[k] = offset + k
          BY ONLY <5>1, <5>2
        <5> QED BY ONLY <4>3, <5>3 DEF t
      <4> HIDE DEF t
      <4> QED BY <4>4, <4>5
    <3>4. Sub!TypeOK'
      BY <1>0, <2>2, <2>3, <3>1, <3>2, <3>3 DEF Sub!TypeOK
    <3>5. length >= 0
      BY <1>0, <2>5, <2>7
    <3>6. subPc' = "copy" => writed' < length /\ writed' = inPos' - offset /\ inPos' <= inSize
      BY <1>0, <2>3, <2>4, <2>5, <3>1, <3>2
    <3>7. subPc' = "done" => writed' = length /\ offset + length <= inSize
      BY <1>0, <2>3, <2>4, <2>5, <3>1, <3>2
    <3>8. subPc' \in {"copy", "done"} /\ Len(subOut') = writed'
      BY <2>4, <3>1, <3>3
    <3>9. BytesInPlace'
      BY <1>0, <2>2, <2>4, <3>3, <3>5, <3>6, <3>7, <3>8 DEF BytesInPlace
    <3> QED BY <3>4, <3>9 DEF SubInv
  <2> QED BY <2>6, <2>7
<1>4. CASE Sub!EndOfFile
  <2>1. /\ subPc = "copy" /\ inPos >= inSize /\ subPc' = "done"
        /\ UNCHANGED <<offset, length, same, inSize, inPos, subOut, writed>>
    BY <1>4 DEF Sub!EndOfFile, Sub!flags
  <2>2. Sub!TypeOK'
    BY <1>0, <2>1 DEF Sub!TypeOK
  <2>3. ASSUME length >= 0
        PROVE  IF offset + length <= inSize THEN writed = length
               ELSE writed = IF inSize > offset THEN inSize - offset ELSE 0
    <3>1. /\ offset >= 0 /\ writed = inPos - offset
          /\ writed = 0 \/ (writed < length /\ inPos <= inSize)
      BY <1>0, <2>1 DEF BytesInPlace
    <3> QED BY <1>0, <2>1, <2>3, <3>1
  <2>4. BytesInPlace'
    BY <1>0, <2>1, <2>3 DEF BytesInPlace
  <2> QED BY <2>2, <2>4 DEF SubInv
<1>5. CASE Sub!Fails
  <2>1. /\ subPc' = "panic" /\ inSize' \in {0, inSize}
        /\ UNCHANGED <<offset, length, same, inPos, subOut, writed>>
    BY <1>5 DEF Sub!Fails, Sub!flags
  <2>2. Sub!TypeOK'
    BY <1>0, <2>1 DEF Sub!TypeOK
  <2>3. BytesInPlace'
    BY <1>0, <2>1 DEF BytesInPlace
  <2> QED BY <2>2, <2>3 DEF SubInv
<1> QED BY <1>1, <1>2, <1>3, <1>4, <1>5 DEF SubInv, Sub!Next

\* A sequence with the bytes in their places is the range.
LEMMA BytesAre ==
  ASSUME NEW M \in Nat, NEW s \in Seq(1 .. M), NEW o \in Int, NEW to \in Int,
         \A k \in 1 .. Len(s) : s[k] = o + k,
         Len(s) = IF to > o THEN to - o ELSE 0
  PROVE  s = Sub!Bytes(o, to)
<1> DEFINE n == IF to > o THEN to - o ELSE 0
           b == [k \in 1 .. n |-> o + k]
<1>1. n \in Nat
  OBVIOUS
<1>2. Sub!Bytes(o, to) = b
  BY DEF Sub!Bytes
<1> HIDE DEF n
<1>3. b \in Seq(1 .. M) /\ Len(b) = n
  <2>1. \A k \in 1 .. n : o + k \in 1 .. M
    <3>1. \A k \in 1 .. Len(s) : s[k] \in 1 .. M
      BY ElementOfSeq
    <3> QED BY <3>1 DEF n
  <2> QED BY <1>1, <2>1
<1>4. \A k \in 1 .. Len(s) : s[k] = b[k]
  BY DEF n
<1> HIDE DEF b
<1>5. Len(s) = Len(b)
  BY <1>3 DEF n
<1> QED BY <1>2, <1>3, <1>4, <1>5, SeqEqual

LEMMA SubSafe ==
  ASSUME Sub!SizesAssumption, Sub!FlagsAssumption
  PROVE  Sub!Spec => []Sub!RangeCopied
<1>1. Sub!Init => SubInv
  <2>1. <<>> \in Seq(1 .. MaxInput) /\ Len(<<>>) = 0
    OBVIOUS
  <2> QED BY <2>1 DEF Sub!Init, SubInv, Sub!TypeOK, BytesInPlace
<1>2. SubInv /\ [Sub!Next]_(Sub!vars) => SubInv'
  BY SubStep
<1>3. SubInv => Sub!RangeCopied
  <2> SUFFICES ASSUME SubInv PROVE Sub!RangeCopied
    OBVIOUS
  <2>0. /\ offset \in Int /\ length \in Int /\ inSize \in Nat /\ MaxInput \in Nat /\ writed \in Nat
        /\ subOut \in Seq(1 .. MaxInput) /\ Sub!TypeOK /\ Len(subOut) = writed
        /\ \A k \in 1 .. Len(subOut) : subOut[k] = offset + k
    BY SubTyped DEF SubInv, BytesInPlace
  <2>1. subOut = Sub!Bytes(offset, offset + Len(subOut))
    <3> DEFINE to == offset + Len(subOut)
    <3>1. to \in Int /\ Len(subOut) = IF to > offset THEN to - offset ELSE 0
      BY <2>0
    <3> HIDE DEF to
    <3>2. subOut = Sub!Bytes(offset, to)
      <4>1. \A o \in Int, t \in Int :
              (\A k \in 1 .. Len(subOut) : subOut[k] = o + k)
              /\ Len(subOut) = (IF t > o THEN t - o ELSE 0)
              => subOut = Sub!Bytes(o, t)
        BY <2>0, BytesAre
      <4> QED BY <2>0, <3>1, <4>1
    <3> QED BY <3>2 DEF to
  <2>2. ASSUME subPc = "done", length > 0
        PROVE  subOut = Sub!Bytes(offset, Sub!Least(inSize, offset + length))
    <3> DEFINE to == Sub!Least(inSize, offset + length)
    <3>1. to \in Int /\ to = IF offset + length <= inSize THEN offset + length ELSE inSize
      BY <2>0 DEF Sub!Least
    <3>2. Len(subOut) = IF to > offset THEN to - offset ELSE 0
      BY <2>0, <2>2, <3>1 DEF SubInv, BytesInPlace
    <3> HIDE DEF to
    <3>3. subOut = Sub!Bytes(offset, to)
      <4>1. \A o \in Int, t \in Int :
              (\A k \in 1 .. Len(subOut) : subOut[k] = o + k)
              /\ Len(subOut) = (IF t > o THEN t - o ELSE 0)
              => subOut = Sub!Bytes(o, t)
        BY <2>0, BytesAre
      <4> QED BY <2>0, <3>1, <3>2, <4>1
    <3> QED BY <3>3 DEF to
  <2>3. writed = 0 => subOut = <<>>
    BY <2>0, EmptySeq
  <2>4. length < 0 => writed = 0
    BY DEF SubInv, BytesInPlace
  <2>5. subPc = "done" /\ same => writed = 0 /\ inSize = 0
    BY DEF SubInv, BytesInPlace
  <2> QED BY <2>0, <2>1, <2>2, <2>3, <2>4, <2>5 DEF Sub!RangeCopied
<1> QED BY <1>1, <1>2, <1>3, PTL DEF Sub!Spec

-----------------------------------------------------------------------------
(* dummy-amoc: a goroutine for every connection, one table.                *)

\* Whoever updated the row is done, and so is whoever was done before another one.
DoneFirst ==
  /\ \A c \in applied : amocPc[c] = "done"
  /\ \A d \in Conns : \A c \in amocBefore[d] : amocPc[c] = "done"

LEMMA NoRequestIsOne ==
  ASSUME Amoc!FilesAssumption
  PROVE  Amoc!NoRequest \in Amoc!Requests
<1>1. (CHOOSE f \in AmocFiles : TRUE) \in AmocFiles
  BY DEF Amoc!FilesAssumption
<1> QED BY <1>1 DEF Amoc!NoRequest, Amoc!Requests

LEMMA AmocTypeStep ==
  ASSUME Amoc!WithDBAssumption, Amoc!TypeOK, [Amoc!Next]_(Amoc!vars)
  PROVE  Amoc!TypeOK'
<1>1. CASE UNCHANGED Amoc!vars
  BY <1>1 DEF Amoc!vars, Amoc!TypeOK
<1>2. ASSUME NEW c \in Conns, Amoc!Accept(c) PROVE Amoc!TypeOK'
  BY <1>2 DEF Amoc!TypeOK, Amoc!Accept, Amoc!Goto
<1>3. ASSUME NEW c \in Conns, Amoc!Read(c) PROVE Amoc!TypeOK'
  <2>1. amocReq' \in [Conns -> Amoc!Requests]
    <3>1. CASE UNCHANGED amocReq
      BY <3>1 DEF Amoc!TypeOK
    <3>2. CASE amocReq' = [amocReq EXCEPT ![c].copy = FALSE, ![c].cut = TRUE]
      <4>1. amocReq \in [Conns -> Amoc!Requests]
        BY DEF Amoc!TypeOK
      <4>2. \A q \in Amoc!Requests : [q EXCEPT !.copy = FALSE, !.cut = TRUE] \in Amoc!Requests
        BY DEF Amoc!Requests
      <4> QED BY ONLY <3>2, <4>1, <4>2, c \in Conns
    <3>3. CASE amocReq' = [amocReq EXCEPT ![c].local = FALSE, ![c].cut = TRUE]
      <4>1. amocReq \in [Conns -> Amoc!Requests]
        BY DEF Amoc!TypeOK
      <4>2. \A q \in Amoc!Requests : [q EXCEPT !.local = FALSE, !.cut = TRUE] \in Amoc!Requests
        BY DEF Amoc!Requests
      <4> QED BY ONLY <3>3, <4>1, <4>2, c \in Conns
    <3> QED BY <1>3, <3>1, <3>2, <3>3 DEF Amoc!Read
  <2> QED BY <1>3, <2>1 DEF Amoc!TypeOK, Amoc!Read, Amoc!Goto
<1>4. ASSUME NEW c \in Conns, Amoc!Answer(c) PROVE Amoc!TypeOK'
  BY <1>4 DEF Amoc!TypeOK, Amoc!Answer, Amoc!Goto, Amoc!WithDBAssumption
<1>5. ASSUME NEW c \in Conns, Amoc!Update(c) PROVE Amoc!TypeOK'
  <2>1. \A b \in BOOLEAN : Amoc!Kind(b) \in {"hot", "cold"}
    BY DEF Amoc!Kind
  <2>2. amocRows' \in [AmocFiles -> {"absent", "hot", "cold"}] /\ applied' \subseteq Conns
    BY <1>5, <2>1 DEF Amoc!TypeOK, Amoc!Update, Amoc!Requests
  <2> QED BY <1>5, <2>2 DEF Amoc!TypeOK, Amoc!Update, Amoc!Goto
<1>6. ASSUME NEW c \in Conns, Amoc!Fatal(c) PROVE Amoc!TypeOK'
  BY <1>6 DEF Amoc!TypeOK, Amoc!Fatal
<1> QED BY <1>1, <1>2, <1>3, <1>4, <1>5, <1>6 DEF Amoc!Next, Amoc!Handle

\* A request that comes to its end makes no other one less done.
LEMMA DoneFirstStep ==
  ASSUME Amoc!TypeOK, DoneFirst, [Amoc!Next]_(Amoc!vars)
  PROVE  DoneFirst'
<1>1. CASE UNCHANGED Amoc!vars
  BY <1>1 DEF Amoc!vars, DoneFirst
<1>2. ASSUME NEW c \in Conns, Amoc!Accept(c) PROVE DoneFirst'
  BY <1>2 DEF Amoc!TypeOK, DoneFirst, Amoc!Accept, Amoc!Goto
<1>3. ASSUME NEW c \in Conns, Amoc!Handle(c) PROVE DoneFirst'
  <2>1. amocBefore' = amocBefore /\ applied' \subseteq applied \cup {c}
    BY <1>3 DEF Amoc!Handle, Amoc!Read, Amoc!Answer, Amoc!Update, Amoc!Fatal
  <2>2. \A d \in Conns : amocPc[d] = "done" => amocPc'[d] = "done"
    BY <1>3 DEF Amoc!TypeOK, Amoc!Handle, Amoc!Read, Amoc!Answer, Amoc!Update, Amoc!Fatal, Amoc!Goto
  <2>3. applied' = applied \/ amocPc'[c] = "done"
    BY <1>3 DEF Amoc!TypeOK, Amoc!Handle, Amoc!Read, Amoc!Answer, Amoc!Update, Amoc!Fatal, Amoc!Goto
  <2> QED BY <2>1, <2>2, <2>3 DEF Amoc!TypeOK, DoneFirst
<1> QED BY <1>1, <1>2, <1>3 DEF Amoc!Next

\* The updates of a content, and what the table owes them.
Writers(f) == {c \in applied : amocReq[c].file = f}
Owed(f) ==
  Writers(f) # {} /\ amocRows[f] # "absent" =>
    \E c \in Writers(f) : /\ amocRows[f] = Amoc!Kind(amocReq[c].local)
                          /\ \A d \in Writers(f) : c \notin amocBefore[d]

\* Only an UPDATE of the content changes what is owed to it.
LEMMA OwedKept ==
  ASSUME NEW f \in AmocFiles, Amoc!TypeOK, DoneFirst, Owed(f),
         amocRows'[f] = amocRows[f], Writers(f)' = Writers(f),
         \A c \in Writers(f) : amocReq'[c] = amocReq[c] /\ amocBefore'[c] = amocBefore[c]
  PROVE  Owed(f)'
BY DEF Owed

LEMMA OwedStep ==
  ASSUME NEW f \in AmocFiles, Amoc!TypeOK, DoneFirst, Owed(f), [Amoc!Next]_(Amoc!vars)
  PROVE  Owed(f)'
<1>1. CASE UNCHANGED Amoc!vars
  BY <1>1 DEF Amoc!vars, Owed, Writers
<1>2. ASSUME NEW c \in Conns, Amoc!Accept(c) \/ Amoc!Read(c) \/ Amoc!Answer(c) \/ Amoc!Fatal(c)
      PROVE  Owed(f)'
  <2>1. amocRows' = amocRows /\ applied' = applied
    BY <1>2 DEF Amoc!Accept, Amoc!Read, Amoc!Answer, Amoc!Fatal
  <2>2. \A d \in applied : amocReq'[d] = amocReq[d] /\ amocBefore'[d] = amocBefore[d]
    BY <1>2 DEF Amoc!TypeOK, DoneFirst, Amoc!Accept, Amoc!Read, Amoc!Answer, Amoc!Fatal
  <2>3. Writers(f)' = Writers(f) /\ Writers(f) \subseteq applied
    BY <2>1, <2>2 DEF Writers
  <2> QED BY <2>1, <2>2, <2>3, OwedKept
<1>3. ASSUME NEW c \in Conns, Amoc!Update(c) PROVE Owed(f)'
  <2>0. /\ amocReq' = amocReq /\ amocBefore' = amocBefore
        /\ IF amocReq[c].copy
             THEN /\ amocRows' = [amocRows EXCEPT ![amocReq[c].file] =
                                IF @ = "absent" THEN @ ELSE Amoc!Kind(amocReq[c].local)]
                  /\ applied' = applied \cup {c}
             ELSE amocRows' = amocRows /\ applied' = applied
    BY <1>3 DEF Amoc!Update
  <2>1. CASE amocReq[c].copy /\ amocReq[c].file = f
    <3>1. c \in Writers(f)'
      BY <2>0, <2>1 DEF Writers
    <3>2. amocRows'[f] # "absent" => amocRows'[f] = Amoc!Kind(amocReq'[c].local)
      BY <2>0, <2>1 DEF Amoc!TypeOK
    <3>3. \A d \in Conns : c \notin amocBefore[d]
      BY <1>3 DEF Amoc!Update, DoneFirst
    <3>4. Writers(f)' \subseteq Conns
      BY <2>0 DEF Writers, Amoc!TypeOK
    <3> QED BY <2>0, <3>1, <3>2, <3>3, <3>4 DEF Owed
  <2>2. CASE ~(amocReq[c].copy /\ amocReq[c].file = f)
    <3>1. amocRows'[f] = amocRows[f] /\ Writers(f)' = Writers(f)
      BY <2>0, <2>2 DEF Writers, Amoc!TypeOK
    <3> QED BY <2>0, <3>1, OwedKept
  <2> QED BY <2>1, <2>2
<1> QED BY <1>1, <1>2, <1>3 DEF Amoc!Next, Amoc!Handle

LEMMA AmocSafe ==
  ASSUME Amoc!WithDBAssumption, Amoc!FilesAssumption
  PROVE  Amoc!Spec => []Amoc!LastOneCounts
<1> DEFINE Inv == Amoc!TypeOK /\ DoneFirst /\ \A f \in AmocFiles : Owed(f)
<1>1. Amoc!Init => Inv
  BY NoRequestIsOne DEF Amoc!Init, Amoc!TypeOK, DoneFirst, Owed, Writers
<1>2. Inv /\ [Amoc!Next]_(Amoc!vars) => Inv'
  BY AmocTypeStep, DoneFirstStep, OwedStep
<1>3. Inv => Amoc!LastOneCounts
  BY DEF Amoc!LastOneCounts, Owed, Writers
<1> HIDE DEF Inv
<1> QED BY <1>1, <1>2, <1>3, PTL DEF Amoc!Spec

-----------------------------------------------------------------------------
(* fusefs: numbers from a counter that goroutines increment without a lock. *)

\* The counter is at most the number of stores, so that it needs no bound.
Stored == {x \in Lookups : lookupPc[x] \in {"return", "done"}}
CounterBounded ==
  /\ inode <= Cardinality(Stored)
  /\ \A x \in Lookups : loaded[x] <= Cardinality(Stored)
  /\ \A x \in Lookups : lookupPc[x] = "return" => loaded[x] + 1 <= Cardinality(Stored)

\* Two that are in GenerateInode know of each other; one that never met another
\* finds the counter as it left it.
Alone(x) == over[x] = {}
BesideKnown ==
  /\ \A x, y \in Fuse!InGenerate : x # y => y \in over[x]
  /\ \A y \in Lookups : lookupBefore[y] \subseteq Fuse!Numbered
  /\ \A x \in Lookups : Alone(x) =>
       /\ lookupPc[x] = "store" => inode = loaded[x]
       /\ lookupPc[x] = "return" => inode = loaded[x] + 1

\* What was loaded after a lookup that was alone is not below its number.
AloneBelow ==
  \A x \in Fuse!Numbered : Alone(x) =>
    /\ number[x] <= inode
    /\ \A y \in Lookups :
       /\ lookupPc[y] \in {"store", "return"} => number[x] <= loaded[y]
       /\ lookupPc[y] = "return" => number[x] < inode

\* Numbers are in the order of the lookups, where the earlier one was alone.
NumbersOrdered ==
  \A x, y \in Fuse!Numbered :
    over[x] = {} /\ x \in lookupBefore[y] => number[x] < number[y]

InodesInv == Fuse!TypeOK /\ CounterBounded /\ BesideKnown /\ AloneBelow /\ NumbersOrdered

\* The instance has the operators of FiniteSets under names of its own.
LEMMA FuseSets ==
  ASSUME NEW S
  PROVE  (Fuse!IsFiniteSet(S) <=> IsFiniteSet(S)) /\ Fuse!Cardinality(S) = Cardinality(S)
<1>1. Fuse!IsFiniteSet(S) <=> IsFiniteSet(S)
  BY DEF IsFiniteSet, Fuse!IsFiniteSet
<1>2. Fuse!Cardinality(S) = Cardinality(S)
  BY DEF Cardinality, Fuse!Cardinality
<1> QED BY <1>1, <1>2

LEMMA FuseTyped ==
  ASSUME Fuse!LookupsAssumption, Fuse!TypeOK
  PROVE  /\ IsFiniteSet(Lookups) /\ Cardinality(Lookups) \in Nat /\ inode \in Nat
         /\ lookupPc \in [Lookups -> {"idle", "lookup", "load", "store", "return", "done", "failed"}]
         /\ loaded \in [Lookups -> Nat] /\ number \in [Lookups -> Nat]
         /\ over \in [Lookups -> SUBSET Lookups] /\ lookupBefore \in [Lookups -> SUBSET Lookups]
         /\ IsFiniteSet(Stored) /\ Cardinality(Stored) \in Nat
         /\ Cardinality(Stored) <= Cardinality(Lookups)
<1>1. IsFiniteSet(Lookups) /\ Cardinality(Lookups) \in Nat
  BY FuseSets, FS_CardinalityType DEF Fuse!LookupsAssumption
<1>2. /\ IsFiniteSet(Stored) /\ Cardinality(Stored) \in Nat
      /\ Cardinality(Stored) <= Cardinality(Lookups)
  BY <1>1, FS_Subset, FS_CardinalityType DEF Stored
<1> QED BY <1>1, <1>2, FuseSets DEF Fuse!TypeOK

\* A step moves one lookup; the counter and what is loaded are written by two of
\* the steps only.
LEMMA LookupSteps ==
  ASSUME Fuse!TypeOK, NEW x \in Lookups, Fuse!Lookup(x)
  PROVE  /\ \A y \in Lookups : y # x => /\ lookupPc'[y] = lookupPc[y] /\ loaded'[y] = loaded[y]
                                        /\ number'[y] = number[y]
                                        /\ lookupBefore'[y] = lookupBefore[y]
         /\ \/ /\ lookupPc[x] = "idle" /\ lookupPc'[x] = "lookup"
               /\ UNCHANGED <<inode, loaded, number, over, lookupBefore>>
            \/ /\ lookupPc[x] = "lookup" /\ lookupPc'[x] = "failed"
               /\ UNCHANGED <<inode, loaded, number, over, lookupBefore>>
            \/ /\ lookupPc[x] = "lookup" /\ lookupPc'[x] = "load"
               /\ over'[x] = Fuse!InGenerate /\ lookupBefore'[x] = Fuse!Numbered
               /\ \A y \in Lookups : y # x =>
                    over'[y] = IF y \in Fuse!InGenerate THEN over[y] \cup {x} ELSE over[y]
               /\ UNCHANGED <<inode, loaded, number>>
            \/ /\ lookupPc[x] = "load" /\ lookupPc'[x] = "store" /\ loaded'[x] = inode
               /\ UNCHANGED <<inode, number, over, lookupBefore>>
            \/ /\ lookupPc[x] = "store" /\ lookupPc'[x] = "return" /\ inode' = loaded[x] + 1
               /\ UNCHANGED <<loaded, number, over, lookupBefore>>
            \/ /\ lookupPc[x] = "return" /\ lookupPc'[x] = "done"
               /\ number'[x] \in {loaded[x] + 1, inode}
               /\ UNCHANGED <<inode, loaded, over, lookupBefore>>
<1>1. CASE Fuse!Request(x)
  BY <1>1 DEF Fuse!TypeOK, Fuse!Request, Fuse!Goto
<1>2. CASE Fuse!LookupFails(x)
  BY <1>2 DEF Fuse!TypeOK, Fuse!LookupFails, Fuse!Goto
<1>3. CASE Fuse!LookupFinds(x)
  <2>1. x \notin Fuse!InGenerate
    BY <1>3 DEF Fuse!LookupFinds, Fuse!InGenerate
  <2>2. \A y \in Lookups : over'[y] = CASE y = x -> Fuse!InGenerate
                                        [] y \in Fuse!InGenerate -> over[y] \cup {x}
                                        [] OTHER -> over[y]
    BY <1>3 DEF Fuse!LookupFinds
  <2>3. over'[x] = Fuse!InGenerate
    BY <2>1, <2>2
  <2>4. \A y \in Lookups : y # x =>
          over'[y] = IF y \in Fuse!InGenerate THEN over[y] \cup {x} ELSE over[y]
    BY <2>2
  <2> QED BY <1>3, <2>3, <2>4 DEF Fuse!TypeOK, Fuse!LookupFinds, Fuse!Goto
<1>4. CASE Fuse!Load(x)
  BY <1>4 DEF Fuse!TypeOK, Fuse!Load, Fuse!Goto
<1>5. CASE Fuse!Store(x)
  BY <1>5 DEF Fuse!TypeOK, Fuse!Store, Fuse!Goto
<1>6. CASE Fuse!Return(x)
  BY <1>6 DEF Fuse!TypeOK, Fuse!Return, Fuse!Goto
<1> QED BY <1>1, <1>2, <1>3, <1>4, <1>5, <1>6 DEF Fuse!Lookup

LEMMA FuseBoundStep ==
  ASSUME Fuse!LookupsAssumption, Fuse!TypeOK, CounterBounded, NEW x \in Lookups, Fuse!Lookup(x)
  PROVE  Fuse!TypeOK' /\ CounterBounded'
<1> DEFINE c == Cardinality(Stored)
<1>0. /\ IsFiniteSet(Lookups) /\ Cardinality(Lookups) \in Nat /\ inode \in Nat
      /\ loaded \in [Lookups -> Nat] /\ number \in [Lookups -> Nat]
      /\ IsFiniteSet(Stored) /\ c \in Nat /\ c <= Cardinality(Lookups)
  BY FuseTyped
<1>1. /\ lookupPc' \in [Lookups -> {"idle", "lookup", "load", "store", "return", "done", "failed"}]
      /\ over' \in [Lookups -> SUBSET Lookups] /\ lookupBefore' \in [Lookups -> SUBSET Lookups]
      /\ DOMAIN loaded' = Lookups /\ DOMAIN number' = Lookups
      /\ loaded' = [y \in Lookups |-> loaded'[y]] /\ number' = [y \in Lookups |-> number'[y]]
  BY DEF Fuse!TypeOK, Fuse!Lookup, Fuse!Request, Fuse!LookupFails, Fuse!LookupFinds, Fuse!Load,
         Fuse!Store, Fuse!Return, Fuse!Goto, Fuse!InGenerate, Fuse!Numbered
<1>2. /\ \A y \in Lookups : y # x => /\ lookupPc'[y] = lookupPc[y] /\ loaded'[y] = loaded[y]
                                     /\ number'[y] = number[y]
      /\ \/ lookupPc'[x] = "return" /\ lookupPc[x] = "store" /\ inode' = loaded[x] + 1
            /\ loaded' = loaded /\ number' = number
         \/ /\ lookupPc'[x] # "return" /\ inode' = inode
            /\ lookupPc'[x] \in {"return", "done"} <=> lookupPc[x] \in {"return", "done"}
            /\ loaded'[x] \in {loaded[x], inode}
            /\ \/ number'[x] = number[x]
               \/ lookupPc[x] = "return" /\ number'[x] \in {loaded[x] + 1, inode}
  BY LookupSteps
<1>3. /\ inode <= c /\ \A y \in Lookups : loaded[y] <= c
      /\ \A y \in Lookups : lookupPc[y] = "return" => loaded[y] + 1 <= c
  BY DEF CounterBounded
<1>4. CASE lookupPc'[x] = "return" /\ lookupPc[x] = "store" /\ inode' = loaded[x] + 1
           /\ loaded' = loaded /\ number' = number
  <2>1. Stored' = Stored \cup {x} /\ x \notin Stored
    BY <1>2, <1>4 DEF Stored
  <2>2. Cardinality(Stored') = c + 1
    BY <1>0, <2>1, FS_AddElement
  <2>3. Cardinality(Stored') <= Cardinality(Lookups)
    BY <1>0, FS_Subset DEF Stored
  <2>4. CounterBounded'
    <3>1. inode' <= c + 1
      BY <1>0, <1>3, <1>4
    <3>2. \A y \in Lookups : loaded[y] <= c + 1
      BY <1>0, <1>3
    <3>3. \A y \in Lookups : loaded[y] + 1 <= c + 1
      BY <1>0, <1>3
    <3> HIDE DEF c
    <3> QED BY <1>4, <2>2, <3>1, <3>2, <3>3 DEF CounterBounded
  <2>5. inode' \in 0 .. Cardinality(Lookups)
    <3>1. loaded[x] + 1 <= c + 1 /\ loaded[x] \in Nat
      BY <1>0, <1>3
    <3> QED BY <1>0, <1>4, <2>2, <2>3, <3>1
  <2> QED BY <1>1, <1>4, <2>4, <2>5, FuseSets DEF Fuse!TypeOK
<1>5. CASE /\ lookupPc'[x] # "return" /\ inode' = inode
           /\ lookupPc'[x] \in {"return", "done"} <=> lookupPc[x] \in {"return", "done"}
           /\ loaded'[x] \in {loaded[x], inode}
           /\ \/ number'[x] = number[x]
              \/ lookupPc[x] = "return" /\ number'[x] \in {loaded[x] + 1, inode}
  <2>1. Stored' = Stored
    BY <1>2, <1>5 DEF Stored
  <2>2. Cardinality(Stored') = c
    BY <2>1
  <2>3. \A y \in Lookups : loaded'[y] \in Nat /\ loaded'[y] <= c
    BY <1>0, <1>2, <1>3, <1>5
  <2>4. \A y \in Lookups : lookupPc'[y] = "return" => loaded'[y] + 1 <= c
    BY <1>2, <1>3, <1>5
  <2>5. CounterBounded'
    BY <1>3, <1>5, <2>2, <2>3, <2>4 DEF CounterBounded
  <2>6. \A y \in Lookups : number'[y] \in 0 .. Cardinality(Lookups)
    <3>1. \A y \in Lookups : number[y] \in 0 .. Cardinality(Lookups)
      BY FuseSets DEF Fuse!TypeOK
    <3>2. lookupPc[x] = "return" => {loaded[x] + 1, inode} \subseteq 0 .. Cardinality(Lookups)
      BY <1>0, <1>3
    <3> QED BY <1>2, <1>5, <3>1, <3>2
  <2>7. \A y \in Lookups : loaded'[y] \in 0 .. Cardinality(Lookups)
    BY <1>0, <2>3
  <2> QED BY <1>1, <1>5, <2>5, <2>6, <2>7, FuseSets DEF Fuse!TypeOK
<1> QED BY <1>2, <1>4, <1>5

LEMMA BesideStep ==
  ASSUME Fuse!LookupsAssumption, Fuse!TypeOK, BesideKnown, NEW x \in Lookups, Fuse!Lookup(x)
  PROVE  BesideKnown'
<1>0. inode \in Nat /\ loaded \in [Lookups -> Nat]
  BY FuseTyped
<1>1. \A a, b \in Fuse!InGenerate' : a # b => b \in over'[a]
  <2> SUFFICES ASSUME NEW a \in Fuse!InGenerate', NEW b \in Fuse!InGenerate', a # b
               PROVE  b \in over'[a]
    OBVIOUS
  <2>0. a \in Lookups /\ b \in Lookups
    BY DEF Fuse!InGenerate
  <2>1. a # x => a \in Fuse!InGenerate
    BY <2>0, LookupSteps DEF Fuse!InGenerate
  <2>2. b # x => b \in Fuse!InGenerate
    BY <2>0, LookupSteps DEF Fuse!InGenerate
  <2>3. CASE lookupPc[x] = "lookup"
    <3>1. \/ lookupPc'[x] = "failed" /\ over' = over
          \/ /\ over'[x] = Fuse!InGenerate
             /\ \A y \in Lookups : y # x =>
                  over'[y] = IF y \in Fuse!InGenerate THEN over[y] \cup {x} ELSE over[y]
      BY <2>3, LookupSteps
    <3>2. lookupPc'[x] = "failed" => a # x /\ b # x
      BY DEF Fuse!InGenerate
    <3> QED BY <2>0, <2>1, <2>2, <3>1, <3>2 DEF BesideKnown
  <2>4. CASE lookupPc[x] # "lookup"
    <3>1. over' = over
      BY <2>4, LookupSteps
    <3>2. a \in Fuse!InGenerate /\ b \in Fuse!InGenerate
      BY <2>0, <2>4, LookupSteps DEF Fuse!InGenerate
    <3> QED BY <3>1, <3>2 DEF BesideKnown
  <2> QED BY <2>3, <2>4
<1>2. \A y \in Lookups : lookupBefore'[y] \subseteq Fuse!Numbered'
  BY LookupSteps DEF BesideKnown, Fuse!Numbered
<1>3. ASSUME NEW a \in Lookups, Alone(a)'
      PROVE  /\ lookupPc'[a] = "store" => inode' = loaded'[a]
             /\ lookupPc'[a] = "return" => inode' = loaded'[a] + 1
  <2>1. CASE a = x
    BY <1>3, <2>1, LookupSteps DEF BesideKnown, Alone
  <2>2. CASE a # x /\ lookupPc'[a] \in {"store", "return"}
    <3>1. a \in Fuse!InGenerate /\ lookupPc[a] = lookupPc'[a] /\ loaded'[a] = loaded[a]
      BY <2>2, LookupSteps DEF Fuse!InGenerate
    <3>2. over[a] = {}
      BY <1>3, <2>2, <3>1, LookupSteps DEF Alone
    <3>3. x \notin Fuse!InGenerate
      BY <2>2, <3>1, <3>2 DEF BesideKnown
    <3>4. inode' = inode
      BY <3>3, LookupSteps DEF Fuse!InGenerate
    <3> QED BY <3>1, <3>2, <3>4 DEF BesideKnown, Alone
  <2> QED BY <2>1, <2>2
<1> QED BY <1>1, <1>2, <1>3 DEF BesideKnown

LEMMA AloneStep ==
  ASSUME Fuse!LookupsAssumption, Fuse!TypeOK, BesideKnown, AloneBelow, NumbersOrdered,
         NEW x \in Lookups, Fuse!Lookup(x)
  PROVE  AloneBelow' /\ NumbersOrdered'
<1>0. inode \in Nat /\ loaded \in [Lookups -> Nat] /\ number \in [Lookups -> Nat]
  BY FuseTyped
<1>1. \A a \in Lookups : over'[a] = {} /\ lookupPc'[a] = "done" => over[a] = {}
  BY LookupSteps
<1>2. AloneBelow'
  <2> SUFFICES ASSUME NEW a \in Fuse!Numbered', Alone(a)'
               PROVE  /\ number'[a] <= inode'
                      /\ \A y \in Lookups :
                           /\ lookupPc'[y] \in {"store", "return"} => number'[a] <= loaded'[y]
                           /\ lookupPc'[y] = "return" => number'[a] < inode'
    BY DEF AloneBelow
  <2>0. a \in Lookups /\ lookupPc'[a] = "done" /\ Alone(a)
    BY <1>1 DEF Fuse!Numbered, Alone
  <2>1. CASE lookupPc[a] = "done"
    <3>1. /\ number[a] <= inode
          /\ \A y \in Lookups : /\ lookupPc[y] \in {"store", "return"} => number[a] <= loaded[y]
                                /\ lookupPc[y] = "return" => number[a] < inode
      BY <2>0, <2>1 DEF AloneBelow, Fuse!Numbered
    <3>2. a # x /\ number'[a] = number[a] /\ number[a] \in Nat
      BY <1>0, <2>0, <2>1, LookupSteps
    <3>3. inode' = inode \/ (lookupPc[x] = "store" /\ inode' = loaded[x] + 1)
      BY LookupSteps
    <3>4. number[a] <= inode' /\ (inode' = inode \/ number[a] < inode')
      <4>1. inode' \in Nat
        BY <1>0, <3>3
      <4>2. lookupPc[x] = "store" => number[a] < loaded[x] + 1
        BY <1>0, <3>1, <3>2
      <4> QED BY <1>0, <3>1, <3>2, <3>3, <4>1, <4>2
    <3>5. ASSUME NEW y \in Lookups
          PROVE  /\ lookupPc'[y] \in {"store", "return"} => number'[a] <= loaded'[y]
                 /\ lookupPc'[y] = "return" => number'[a] < inode'
      <4>1. CASE y # x
        <5>1. lookupPc'[y] = lookupPc[y] /\ loaded'[y] = loaded[y]
          BY <4>1, LookupSteps
        <5> QED BY <3>1, <3>2, <3>4, <5>1
      <4>2. CASE y = x
        <5>1. CASE lookupPc[x] = "load"
          BY <3>1, <3>2, <4>2, <5>1, LookupSteps
        <5>2. CASE lookupPc[x] = "store"
          <6>1. inode' = loaded[x] + 1 /\ loaded'[x] = loaded[x] /\ loaded[x] \in Nat
            BY <1>0, <5>2, LookupSteps
          <6>2. number[a] <= loaded[x]
            BY <3>1, <5>2
          <6> QED BY <3>2, <4>2, <6>1, <6>2
        <5>3. CASE lookupPc[x] \notin {"load", "store"}
          BY <4>2, <5>3, LookupSteps
        <5> QED BY <5>1, <5>2, <5>3
      <4> QED BY <4>1, <4>2
    <3> QED BY <1>0, <3>1, <3>2, <3>4, <3>5
  <2>2. CASE lookupPc[a] # "done"
    <3>1. /\ a = x /\ lookupPc[x] = "return" /\ inode' = inode /\ loaded' = loaded
          /\ number'[x] \in {loaded[x] + 1, inode}
      BY <2>0, <2>2, LookupSteps
    <3>2. number'[a] = inode
      BY <2>0, <3>1 DEF BesideKnown
    <3>3. \A y \in Lookups : lookupPc[y] \in {"store", "return"} => y = x
      BY <2>0, <3>1 DEF BesideKnown, Alone, Fuse!InGenerate
    <3>4. \A y \in Lookups : lookupPc'[y] \notin {"store", "return"}
      BY <2>0, <3>1, <3>3, LookupSteps
    <3> QED BY <1>0, <3>1, <3>2, <3>4
  <2> QED BY <2>1, <2>2
<1>3. NumbersOrdered'
  <2> SUFFICES ASSUME NEW a \in Fuse!Numbered', NEW b \in Fuse!Numbered',
                      over'[a] = {}, a \in lookupBefore'[b]
               PROVE  number'[a] < number'[b]
    BY DEF NumbersOrdered
  <2>0. /\ a \in Lookups /\ b \in Lookups /\ lookupPc'[a] = "done" /\ lookupPc'[b] = "done"
        /\ over[a] = {}
    BY <1>1 DEF Fuse!Numbered
  <2>1. a \in lookupBefore[b]
    BY <2>0, LookupSteps
  <2>2. lookupPc[a] = "done" /\ a \in Fuse!Numbered
    BY <2>0, <2>1 DEF BesideKnown, Fuse!Numbered
  <2>3. a # x /\ number'[a] = number[a]
    BY <2>0, <2>2, LookupSteps
  <2>4. CASE lookupPc[b] = "done"
    <3>1. b # x /\ number'[b] = number[b] /\ b \in Fuse!Numbered
      BY <2>0, <2>4, LookupSteps DEF Fuse!Numbered
    <3> QED BY <2>0, <2>1, <2>2, <2>3, <3>1 DEF NumbersOrdered
  <2>5. CASE lookupPc[b] # "done"
    <3>1. b = x /\ lookupPc[x] = "return" /\ number'[x] \in {loaded[x] + 1, inode}
      BY <2>0, <2>5, LookupSteps
    <3>2. number[a] <= loaded[x] /\ number[a] < inode
      BY <2>0, <2>2, <3>1 DEF AloneBelow, Alone
    <3>3. number[a] < loaded[x] + 1
      BY <1>0, <2>0, <3>2
    <3> QED BY <2>3, <3>1, <3>2, <3>3
  <2> QED BY <2>4, <2>5
<1> QED BY <1>2, <1>3

LEMMA InodesSafe ==
  ASSUME Fuse!LookupsAssumption
  PROVE  Fuse!Spec => []Fuse!NumbersExplained
<1>1. Fuse!Init => InodesInv
  <2> SUFFICES ASSUME Fuse!Init PROVE InodesInv
    OBVIOUS
  <2>1. Cardinality(Lookups) \in Nat
    BY FuseSets, FS_CardinalityType DEF Fuse!LookupsAssumption
  <2>2. Fuse!TypeOK
    BY <2>1, FuseSets DEF Fuse!Init, Fuse!TypeOK
  <2>3. Stored = {}
    BY DEF Fuse!Init, Stored
  <2>4. CounterBounded
    BY <2>3, FS_EmptySet DEF Fuse!Init, CounterBounded
  <2>5. BesideKnown /\ AloneBelow /\ NumbersOrdered
    BY DEF Fuse!Init, BesideKnown, AloneBelow, NumbersOrdered, Fuse!InGenerate, Fuse!Numbered
  <2> QED BY <2>2, <2>4, <2>5 DEF InodesInv
<1>2. InodesInv /\ [Fuse!Next]_(Fuse!vars) => InodesInv'
  <2>1. ASSUME InodesInv, UNCHANGED Fuse!vars PROVE InodesInv'
    BY <2>1 DEF Fuse!vars, InodesInv, Fuse!TypeOK, CounterBounded, Stored, BesideKnown, Alone,
                AloneBelow, NumbersOrdered, Fuse!InGenerate, Fuse!Numbered
  <2>2. ASSUME InodesInv, Fuse!Next PROVE InodesInv'
    <3>1. PICK x \in Lookups : Fuse!Lookup(x)
      BY <2>2 DEF Fuse!Next
    <3> QED BY <2>2, <3>1, FuseBoundStep, BesideStep, AloneStep DEF InodesInv
  <2> QED BY <2>1, <2>2
<1>3. InodesInv => Fuse!NumbersExplained
  BY DEF InodesInv, Fuse!NumbersExplained, NumbersOrdered
<1> QED BY <1>1, <1>2, <1>3, PTL DEF Fuse!Spec

-----------------------------------------------------------------------------
(* httpfsrv: what a client is answered.                                    *)

\* What the flags and the request say, and what a path can name.
LEMMA HttpTyped ==
  ASSUME conf \in Confs, req \in HttpRequests, file \in FileStates
  PROVE  /\ conf.directIO \in BOOLEAN /\ conf.readAll \in BOOLEAN /\ conf.chunked \in BOOLEAN
         /\ conf.getCode \in BOOLEAN /\ conf.headCode \in BOOLEAN
         /\ conf.ceCount \in Nat /\ conf.ceCount > 0
         /\ Ranged => req.range[1] \in Nat /\ req.range[2] \in Nat /\ req.range[2] > 0
         /\ Start \in Nat
         /\ file.size \in Nat /\ file.size <= MaxSize /\ MaxSize \in Nat
         /\ file.kind \in {"file", "dir", "missing", "notdir"}
         /\ AlignSize \in Nat /\ AlignSize > 0
<1>1. AlignSize \in Nat /\ AlignSize > 0 /\ MaxSize \in Nat
  BY SizesAssumption
<1>2. /\ conf.directIO \in BOOLEAN /\ conf.readAll \in BOOLEAN /\ conf.chunked \in BOOLEAN
      /\ conf.getCode \in BOOLEAN /\ conf.headCode \in BOOLEAN
      /\ conf.ceCount \in Nat /\ conf.ceCount > 0
  BY ConfsAssumption
<1>3. Ranged => req.range[1] \in Nat /\ req.range[2] \in Nat /\ req.range[2] > 0
  <2>1. Ranged => req.range \in Nat \X (Nat \ {0})
    BY RequestsAssumption DEF Ranged
  <2> QED BY <2>1
<1>4. Start \in Nat
  BY <1>3 DEF Start
<1>5. /\ file.size \in Nat /\ file.size <= MaxSize
      /\ file.kind \in {"file", "dir", "missing", "notdir"}
  BY <1>1 DEF FileStates
<1> QED BY <1>1, <1>2, <1>3, <1>4, <1>5

\* The lengths a range can have.
LEMMA LengthIs ==
  ASSUME conf \in Confs, req \in HttpRequests, file \in FileStates,
         NEW n \in Nat, n <= MaxSize, ~ParseFails(n)
  PROVE  /\ Length(n) \in Nat /\ Start + Length(n) <= n
         /\ Ranged => Length(n) > 0
         /\ ~Ranged => Length(n) = n /\ Start = 0
BY HttpTyped DEF Length, Least, ParseFails, Start

-----------------------------------------------------------------------------
(* readfile.                                                               *)

LEMMA Rounded ==
  ASSUME NEW a \in Nat
  PROVE  /\ (a \div AlignSize) * AlignSize \in Nat
         /\ (a \div AlignSize) * AlignSize <= a
         /\ a < (a \div AlignSize) * AlignSize + AlignSize
<1>1. AlignSize \in Nat /\ AlignSize > 0
  BY SizesAssumption
<1>2. a = AlignSize * (a \div AlignSize) + (a % AlignSize)
      /\ a \div AlignSize \in Nat /\ a % AlignSize \in 0 .. AlignSize - 1
  BY <1>1
<1>3. ASSUME NEW q \in Nat, NEW r \in 0 .. AlignSize - 1, a = AlignSize * q + r
      PROVE  q * AlignSize \in Nat /\ q * AlignSize <= a /\ a < q * AlignSize + AlignSize
  BY <1>1, <1>3
<1> QED BY <1>2, <1>3

LEMMA Aligned ==
  ASSUME NEW o \in Nat, NEW n \in Nat
  PROVE  /\ Beg(o) \in Nat /\ Beg(o) <= o
         /\ Sz(o, n) \in Nat /\ Sz(o, n) > 0 /\ n + (o - Beg(o)) <= Sz(o, n)
<1>0. AlignSize \in Nat /\ AlignSize > 0
  BY SizesAssumption
<1>1. Beg(o) \in Nat /\ Beg(o) <= o
  BY Rounded DEF Beg
<1>2. NewLen(o, n) \in Nat
  BY <1>1 DEF NewLen
<1>3. CASE NewLen(o, n) = 0
  BY <1>0, <1>1, <1>3 DEF Sz, NewLen
<1>4. CASE NewLen(o, n) # 0
  <2> DEFINE a == NewLen(o, n) - 1
  <2>1. a \in Nat
    BY <1>2, <1>4
  <2>2. /\ (a \div AlignSize) * AlignSize \in Nat
        /\ a < (a \div AlignSize) * AlignSize + AlignSize
    <3> HIDE DEF a
    <3> QED BY <2>1, Rounded
  <2>3. Sz(o, n) = (a \div AlignSize) * AlignSize + AlignSize
    BY <1>4 DEF Sz
  <2>4. NewLen(o, n) = a + 1
    BY <1>2
  <2> HIDE DEF a
  <2>5. NewLen(o, n) <= Sz(o, n) /\ Sz(o, n) \in Nat /\ Sz(o, n) > 0
    BY <1>0, <2>1, <2>2, <2>3, <2>4
  <2> QED BY <1>1, <2>5 DEF NewLen
<1> QED BY <1>3, <1>4

LEMMA FunctionIsSeq ==
  ASSUME NEW S, NEW n \in Nat, NEW f \in [1 .. n -> S]
  PROVE  f \in Seq(S) /\ Len(f) = n
<1>1. f \in Seq(S)
  BY SeqDef
<1>2. DOMAIN f = 1 .. Len(f) /\ Len(f) \in Nat
  BY <1>1, LenProperties
<1> QED BY <1>1, <1>2

\* Where readfile begins to read, and how much it asks for.
ReadsAt(o) == IF conf.directIO THEN Beg(o) ELSE o
ReadsUpTo(o, n) == IF conf.directIO THEN Sz(o, n) ELSE n

\* How many bytes a Read may give.
LEMMA CountIs ==
  ASSUME conf \in Confs, req \in HttpRequests, file \in FileStates, NEW o \in Nat, NEW n \in Nat,
         NEW m \in Reads(o, n)
  PROVE  /\ m \in Nat /\ m <= n /\ m <= Readable(o, n)
         /\ m > 0 => o + m <= file.size
         /\ m = Readable(o, n) /\ o + n <= file.size => m = n
<1>1. file.size \in Nat
  BY HttpTyped
<1>2. /\ Readable(o, n) \in Nat /\ Readable(o, n) <= n
      /\ Readable(o, n) > 0 => o + Readable(o, n) <= file.size
      /\ o + n <= file.size => Readable(o, n) = n
  BY <1>1 DEF Readable, Least
<1>3. (m = 0 /\ n = 0) \/ m \in 1 .. Readable(o, n)
  BY DEF Reads
<1> QED BY <1>1, <1>2, <1>3

\* What Read puts into a buffer: bytes of the file in their places, or zeros.
LEMMA FilledIs ==
  ASSUME conf \in Confs, req \in HttpRequests, file \in FileStates, NEW o \in Nat, NEW n \in Nat,
         NEW m \in Reads(o, n)
  PROVE  /\ Filled(o, n, m) \in Seq(0 .. MaxSize) /\ Len(Filled(o, n, m)) = n
         /\ \A k \in 1 .. n : Filled(o, n, m)[k] = IF k <= m THEN o + k ELSE 0
<1>1. file.size \in Nat /\ file.size <= MaxSize /\ MaxSize \in Nat
  BY HttpTyped
<1>2. m \in Nat /\ (m > 0 => o + m <= file.size)
  BY CountIs
<1>3. \A k \in 1 .. n : (IF k <= m THEN o + k ELSE 0) \in 0 .. MaxSize
  BY <1>1, <1>2
<1>4. Filled(o, n, m) \in [1 .. n -> 0 .. MaxSize]
  BY <1>3 DEF Filled
<1>5. Filled(o, n, m) \in Seq(0 .. MaxSize) /\ Len(Filled(o, n, m)) = n
  BY <1>4, FunctionIsSeq
<1> QED BY <1>5 DEF Filled

\* What readfile returns if its Read gave m bytes: the bytes of the range in their
\* places, as many as were asked for if the file has them and Read gave all.
ReadGood(r, o, n, m) ==
  /\ r.buf \in Seq(0 .. MaxSize) /\ r.len \in 0 .. Len(r.buf) /\ r.len <= n
  /\ Len(r.buf) >= n
  /\ \A k \in 1 .. Len(r.buf) : r.buf[k] \in {0, o + k}
  /\ m = Readable(ReadsAt(o), ReadsUpTo(o, n)) /\ o + n <= file.size =>
       r.len = n /\ \A k \in 1 .. n : r.buf[k] = o + k
  /\ ~conf.directIO => r.len = n /\ Len(r.buf) = n

LEMMA BufferedGood ==
  ASSUME conf \in Confs, req \in HttpRequests, file \in FileStates, NEW o \in Nat, NEW n \in Nat,
         ~conf.directIO, NEW m \in Reads(o, n)
  PROVE  ReadGood(Buffered(o, n, m), o, n, m)
<1> DEFINE r == Buffered(o, n, m)
<1>1. r.buf = Filled(o, n, m) /\ r.len = n
  BY DEF Buffered
<1>2. /\ m \in Nat
      /\ m = Readable(o, n) /\ o + n <= file.size => m = n
      /\ r.buf \in Seq(0 .. MaxSize) /\ Len(r.buf) = n
      /\ \A k \in 1 .. n : r.buf[k] = IF k <= m THEN o + k ELSE 0
  BY <1>1, CountIs, FilledIs
<1> HIDE DEF r
<1>3. \A k \in 1 .. n : r.buf[k] \in {0, o + k}
  BY <1>2
<1>4. ReadsAt(o) = o /\ ReadsUpTo(o, n) = n
  BY DEF ReadsAt, ReadsUpTo
<1>5. ASSUME m = Readable(o, n), o + n <= file.size PROVE \A k \in 1 .. n : r.buf[k] = o + k
  BY <1>2, <1>5
<1>6. r.len = n /\ n \in 0 .. n /\ n <= n
  BY <1>1 DEF r
<1>7. ReadGood(r, o, n, m)
  BY <1>2, <1>3, <1>4, <1>5, <1>6 DEF ReadGood
<1> QED BY <1>7 DEF r

LEMMA DirectGood ==
  ASSUME conf \in Confs, req \in HttpRequests, file \in FileStates, NEW o \in Nat, NEW n \in Nat,
         conf.directIO, NEW m \in Reads(Beg(o), Sz(o, n))
  PROVE  ReadGood(Direct(o, n, m), o, n, m)
<1> DEFINE r == Direct(o, n, m)  b == Beg(o)  z == Sz(o, n)  d == o - b
           whole == Filled(b, z, m)
<1>0. file.size \in Nat /\ file.size <= MaxSize /\ MaxSize \in Nat
  BY HttpTyped
<1>1. b \in Nat /\ b <= o /\ z \in Nat /\ z > 0 /\ n + d <= z
  BY Aligned
<1>2. r.buf = SubSeq(whole, d + 1, z) /\ r.len = Least(n, m)
  BY DEF Direct
<1>3. m \in Reads(b, z) /\ ReadsAt(o) = b /\ ReadsUpTo(o, n) = z
  BY DEF ReadsAt, ReadsUpTo
<1> HIDE DEF b, z
<1>4. /\ m \in Nat /\ m <= z
      /\ whole \in Seq(0 .. MaxSize) /\ Len(whole) = z
      /\ \A k \in 1 .. z : whole[k] = IF k <= m THEN b + k ELSE 0
  BY <1>1, <1>3, CountIs, FilledIs
<1>5. m = Readable(b, z) /\ o + n <= file.size => m >= n + d
  BY <1>0, <1>1 DEF Readable, Least
<1> HIDE DEF whole, r
<1>6. d \in Nat /\ d <= z /\ o = b + d
  BY <1>1
<1> HIDE DEF d
<1>7. /\ r.buf \in Seq(0 .. MaxSize) /\ Len(r.buf) = z - d
      /\ \A k \in 1 .. z - d : r.buf[k] = whole[d + k]
  <2>1. \A k \in d + 1 .. z : whole[k] \in 0 .. MaxSize
    <3> TAKE k \in d + 1 .. z
    <3>1. k \in 1 .. Len(whole)
      BY <1>1, <1>4, <1>6
    <3> QED BY <1>4, <3>1, ElementOfSeq
  <2>2. /\ r.buf \in Seq(0 .. MaxSize)
        /\ Len(r.buf) = IF d + 1 <= z THEN z - (d + 1) + 1 ELSE 0
        /\ \A k \in 1 .. z - (d + 1) + 1 : r.buf[k] = whole[d + 1 + k - 1]
    <3>1. d + 1 \in Int /\ z \in Int
      BY ONLY <1>1, <1>6
    <3> QED BY ONLY <1>2, <2>1, <3>1, SubSeqProperties
  <2>3. z - (d + 1) + 1 = z - d /\ (~(d + 1 <= z) => z - d = 0)
    BY <1>1, <1>6
  <2>4. \A k \in 1 .. z - d : d + 1 + k - 1 = d + k
    BY <1>1, <1>6
  <2> QED BY <2>2, <2>3, <2>4
<1>8. \A k \in 1 .. z - d : r.buf[k] = IF d + k <= m THEN o + k ELSE 0
  <2> TAKE k \in 1 .. z - d
  <2>1. d + k \in 1 .. z /\ b + (d + k) = o + k
    BY <1>1, <1>6
  <2> QED BY <1>4, <1>7, <2>1
<1>9. /\ r.len \in Nat /\ r.len <= n
      /\ m = Readable(b, z) /\ o + n <= file.size => r.len = n
  BY <1>1, <1>2, <1>4, <1>5, <1>6 DEF Least
<1>10. n <= z - d /\ z - d \in Nat
  BY <1>1, <1>6
<1>11. \A k \in 1 .. Len(r.buf) : r.buf[k] \in {0, o + k}
  BY <1>7, <1>8
<1>12. ASSUME m = Readable(b, z), o + n <= file.size PROVE \A k \in 1 .. n : r.buf[k] = o + k
  <2> TAKE k \in 1 .. n
  <2>1. k \in 1 .. z - d /\ d + k <= m
    BY <1>4, <1>5, <1>6, <1>10, <1>12
  <2> QED BY <1>8, <2>1
<1>13. r.len \in 0 .. Len(r.buf) /\ Len(r.buf) >= n
  BY <1>7, <1>9, <1>10
<1>14. ReadGood(r, o, n, m)
  BY <1>3, <1>7, <1>9, <1>11, <1>12, <1>13 DEF ReadGood
<1> QED BY <1>14 DEF r

LEMMA ReadfileGood ==
  ASSUME conf \in Confs, req \in HttpRequests, file \in FileStates, NEW o \in Nat, NEW n \in Nat,
         NEW m \in Reads(ReadsAt(o), ReadsUpTo(o, n))
  PROVE  ReadGood(readfile(o, n, m), o, n, m)
<1>1. CASE conf.directIO
  BY <1>1, DirectGood DEF readfile, ReadsAt, ReadsUpTo
<1>2. CASE ~conf.directIO
  BY <1>2, BufferedGood DEF readfile, ReadsAt, ReadsUpTo
<1> QED BY <1>1, <1>2

\* When there is nothing to read: on a directory, and where nothing is left of the
\* file.
LEMMA NothingToRead ==
  ASSUME conf \in Confs, req \in HttpRequests, file \in FileStates, NEW o \in Nat, NEW n \in Nat,
         Reads(ReadsAt(o), ReadsUpTo(o, n)) = {}, file.kind # "dir", o + n <= file.size
  PROVE  conf.directIO /\ n = 0
<1>0. file.size \in Nat
  BY HttpTyped
<1>1. \A p, q \in Nat : Reads(p, q) = {} => q > 0 /\ file.size <= p
  <2> TAKE p, q \in Nat
  <2> HAVE Reads(p, q) = {}
  <2>1. q # 0 /\ 1 .. Readable(p, q) = {}
    BY DEF Reads
  <2>2. ASSUME ~(file.size <= p) PROVE FALSE
    <3>1. Readable(p, q) \in Nat /\ Readable(p, q) >= 1
      BY <1>0, <2>1, <2>2 DEF Readable, Least
    <3>2. 1 \in 1 .. Readable(p, q)
      BY <3>1
    <3> QED BY <2>1, <3>2
  <2> QED BY <2>1, <2>2
<1>2. CASE conf.directIO
  <2>1. Beg(o) \in Nat /\ Beg(o) <= o /\ Sz(o, n) \in Nat
    BY Aligned
  <2>2. file.size <= Beg(o)
    BY <1>1, <1>2, <2>1 DEF ReadsAt, ReadsUpTo
  <2> QED BY <1>0, <1>2, <2>1, <2>2
<1>3. CASE ~conf.directIO
  BY <1>0, <1>1, <1>3 DEF ReadsAt, ReadsUpTo
<1> QED BY <1>2, <1>3

-----------------------------------------------------------------------------
(* Chunks.                                                                 *)

LEMMA ChunkTyped ==
  ASSUME NEW l \in Nat, NEW n \in Nat, n > 0, NEW c \in Nat, c < ChunkN(l, n)
  PROVE  /\ From(c, l, n) \in Nat /\ To(c, l, n) \in Nat
         /\ ChunkN(l, n) \in Nat /\ ChunkN(l, n) <= l
         /\ c + 1 = ChunkN(l, n) => To(c, l, n) = l
         /\ c + 1 # ChunkN(l, n) => To(c, l, n) = From(c + 1, l, n)
<1>1. ChunkLen(l, n) \in Nat
  <2>1. l + n - 1 \in Nat
    OBVIOUS
  <2>2. (l + n - 1) \div n \in Nat
    BY <2>1
  <2> QED BY <2>2 DEF ChunkLen
<1>2. \A a \in Nat : a * ChunkLen(l, n) \in Nat
  BY <1>1
<1>3. ChunkN(l, n) \in Nat /\ ChunkN(l, n) <= l
  BY DEF ChunkN, Least
<1>4. c + 1 \in Nat
  OBVIOUS
<1> QED BY <1>2, <1>3, <1>4 DEF From, To

\* Up to three chunks fit every length: the last one begins in the body.
LEMMA ThreeChunksFit ==
  ASSUME NEW l \in Nat, NEW n \in 1 .. 3, NEW c \in Nat, c < ChunkN(l, n)
  PROVE  From(c, l, n) <= To(c, l, n) /\ To(c, l, n) <= l
<1>1. CASE l <= n
  BY <1>1 DEF From, To, ChunkN, ChunkLen, Least
<1>2. CASE l > n /\ n = 1
  BY <1>2 DEF From, To, ChunkN, ChunkLen, Least
<1>3. CASE l > n /\ n = 2
  <2>1. (l + 2 - 1) \div 2 \in Nat /\ (l + 2 - 1) \div 2 <= l
    BY <1>3
  <2> QED BY <1>3, <2>1 DEF From, To, ChunkN, ChunkLen, Least
<1>4. CASE l > n /\ n = 3
  <2>1. (l + 3 - 1) \div 3 \in Nat /\ 2 * ((l + 3 - 1) \div 3) <= l
    BY <1>4
  <2> QED BY <1>4, <2>1 DEF From, To, ChunkN, ChunkLen, Least
<1> QED BY <1>1, <1>2, <1>3, <1>4

-----------------------------------------------------------------------------
(* The invariant.                                                          *)

\* Nothing is written before the file was read.
Unsent == pc \in {"head", "get", "read"} => sent = <<>> /\ chunk = 0

\* What is to be read is in the file, if it was not rewritten.
ReadReady ==
  pc = "read" =>
    /\ ~Early /\ ~ParseFails(fi) /\ (Ranged => ~fresh) /\ file.kind \in {"file", "dir"}
    /\ ~changed => fi = file.size

\* What is to be written is the range, byte by byte, unless the file was rewritten
\* or a Read was short.
WriteReady ==
  pc = "write" =>
    /\ ~Early /\ ~ParseFails(fi) /\ ~fresh /\ file.kind \in {"file", "dir"}
    /\ answer = [status |-> IF Ranged THEN 206 ELSE 200,
                 clen |-> IF conf.chunked THEN NoLength ELSE Length(fi)]
    /\ \A k \in 1 .. Len(body.buf) : body.buf[k] \in {0, Start + k}
    /\ \/ body.len = Length(fi)
       \/ conf.directIO /\ (changed \/ "short" \in faults) /\ body.len <= Length(fi)
    /\ ~changed => fi = file.size
    /\ ~changed /\ "short" \notin faults => \A k \in 1 .. body.len : body.buf[k] # 0

\* Chunks are written one behind the other.
ChunksSoFar ==
  pc = "write" =>
    /\ chunk <= ChunkN(body.len, conf.ceCount)
    /\ Len(sent) = IF chunk = ChunkN(body.len, conf.ceCount) THEN body.len
                   ELSE From(chunk, body.len, conf.ceCount)
    /\ Len(sent) <= Len(body.buf)
    /\ \A k \in 1 .. Len(sent) : sent[k] = body.buf[k]

\* Until the file is rewritten HEAD would say again what it said, if it could look.
HeadKnown ==
  pc # "head" /\ ~changed =>
    \/ "stat" \in faults
    \/ head = IF HeadEarly THEN Plain(IF conf.headCode THEN Configured ELSE 301)
              ELSE IF file.kind \in {"missing", "notdir"} THEN Plain(404) ELSE HeadOfFile

\* A file that could not be opened or read is answered at once.
FaultsAnswered == pc \notin {"done", "panicked"} => "open" \notin faults /\ "read" \notin faults

HttpInv ==
  TypeOK /\ Unsent /\ ReadReady /\ WriteReady /\ ChunksSoFar /\ HeadKnown /\ FaultsAnswered

\* The same of the answer when it is complete.
Answered == BodyRight /\ LengthHonest /\ HeadForetells

LEMMA AnswersTyped ==
  /\ NoAnswer \in Answers
  /\ \A s \in Statuses : Plain(s) \in Answers
  /\ \A s \in Statuses, n \in 0 .. MaxSize : [status |-> s, clen |-> n] \in Answers
BY DEF NoAnswer, Answers, Statuses, Plain, NoLength

LEMMA HeadTyped ==
  ASSUME TypeOK
  PROVE  HeadOfFile \in Answers
<1>1. file.size \in Nat /\ file.size <= MaxSize /\ MaxSize \in Nat
  BY HttpTyped DEF TypeOK
<1>2. ~ParseFails(file.size) => Length(file.size) \in 0 .. MaxSize
  <2>1. Start \in Nat
    BY HttpTyped DEF TypeOK
  <2> QED BY <1>1, <2>1, LengthIs DEF TypeOK
<1>3. {200, 206, 304, 500} \subseteq Statuses
  BY DEF Statuses
<1>4. CASE ParseFails(file.size)
  BY <1>3, <1>4, AnswersTyped DEF HeadOfFile
<1>5. CASE ~ParseFails(file.size)
  <2> DEFINE st == IF fresh THEN 304 ELSE IF Ranged THEN 206 ELSE 200
  <2>1. st \in Statuses
    BY <1>3
  <2>2. HeadOfFile = IF st = 200 \/ (st = 206 /\ conf.chunked) THEN Plain(st)
                     ELSE [status |-> st, clen |-> Length(file.size)]
    BY <1>5 DEF HeadOfFile
  <2> HIDE DEF st
  <2> QED BY <1>2, <1>5, <2>1, <2>2, AnswersTyped
<1> QED BY <1>4, <1>5

LEMMA HeadStep ==
  ASSUME HttpInv, handleHead
  PROVE  HttpInv' /\ pc' = "get"
<1>1. /\ pc = "head" /\ pc' = "get"
      /\ UNCHANGED <<conf, req, file, fresh, changed, fi, body, answer, sent, chunk, faults>>
  BY DEF handleHead, given
<1>2. head' = IF HeadEarly THEN Plain(IF conf.headCode THEN Configured ELSE 301)
              ELSE IF file.kind \in {"missing", "notdir"} THEN Plain(404) ELSE HeadOfFile
  BY DEF handleHead
<1>3. TypeOK
  BY DEF HttpInv
<1>4. head' \in Answers
  <2>1. Plain(Configured) \in Answers /\ Plain(301) \in Answers /\ Plain(404) \in Answers
    BY AnswersTyped DEF Statuses
  <2>2. HeadOfFile \in Answers
    BY <1>3, HeadTyped
  <2> QED BY <1>2, <2>1, <2>2
<1>5. TypeOK'
  BY <1>1, <1>3, <1>4 DEF TypeOK
<1>6. HeadKnown'
  BY <1>1, <1>2 DEF HeadKnown, HeadEarly, HeadOfFile, ParseFails, Ranged, Length, Start
<1>7. Unsent' /\ ReadReady' /\ WriteReady' /\ ChunksSoFar' /\ FaultsAnswered'
  BY <1>1 DEF HttpInv, Unsent, ReadReady, WriteReady, ChunksSoFar, FaultsAnswered
<1> QED BY <1>1, <1>5, <1>6, <1>7 DEF HttpInv

LEMMA StatFailsStep ==
  ASSUME HttpInv, StatFails
  PROVE  HttpInv' /\ pc' = "get"
<1>1. /\ pc = "head" /\ pc' = "get" /\ head' = Plain(500) /\ faults' = {"stat"}
      /\ UNCHANGED <<conf, req, file, fresh, changed, fi, body, answer, sent, chunk>>
  BY DEF StatFails, given
<1>2. head' \in Answers
  BY <1>1, AnswersTyped DEF Statuses
<1>3. TypeOK'
  BY <1>1, <1>2 DEF HttpInv, TypeOK, Faults
<1>4. Unsent' /\ ReadReady' /\ WriteReady' /\ ChunksSoFar' /\ HeadKnown' /\ FaultsAnswered'
  BY <1>1 DEF HttpInv, Unsent, ReadReady, WriteReady, ChunksSoFar, HeadKnown, FaultsAnswered
<1> QED BY <1>1, <1>3, <1>4 DEF HttpInv

\* Whoever ends the request with an answer alone disturbs nothing.
LEMMA EndStep ==
  ASSUME HttpInv, pc # "head", pc' \in {"done", "panicked"}, answer' \in Answers,
         UNCHANGED <<given, head, fi, body>>,
         sent' \in Seq(0 .. MaxSize), chunk' \in 0 .. MaxSize,
         faults \subseteq faults', faults' \subseteq Faults
  PROVE  HttpInv'
<1>1. TypeOK'
  BY DEF HttpInv, TypeOK, given
<1>2. HeadKnown'
  BY DEF HttpInv, given, HeadKnown, HeadEarly, HeadOfFile, ParseFails, Ranged, Length, Start
<1>3. Unsent' /\ ReadReady' /\ WriteReady' /\ ChunksSoFar' /\ FaultsAnswered'
  BY DEF Unsent, ReadReady, WriteReady, ChunksSoFar, FaultsAnswered
<1> QED BY <1>1, <1>2, <1>3 DEF HttpInv

\* What there is to prove of a request that ends.
Ended == pc = "done" => Answered

LEMMA OpenedStep ==
  ASSUME HttpInv, pc = "get", pc' = "read", ~Early, file.kind \in {"file", "dir"},
         ~ParseFails(file.size), Ranged => ~fresh, fi' = file.size,
         UNCHANGED <<given, head, body, sent, chunk, answer, faults>>
  PROVE  HttpInv'
<1>1. file.size \in 0 .. MaxSize
  BY HttpTyped DEF HttpInv, TypeOK
<1>2. TypeOK'
  BY <1>1 DEF HttpInv, TypeOK, given
<1>3. HeadKnown'
  BY DEF HttpInv, given, HeadKnown, HeadEarly, HeadOfFile, ParseFails, Ranged, Length, Start
<1>4. ReadReady'
  BY DEF ReadReady, given, Early, ParseFails, Ranged
<1>5. Unsent' /\ WriteReady' /\ ChunksSoFar' /\ FaultsAnswered'
  BY DEF HttpInv, Unsent, WriteReady, ChunksSoFar, FaultsAnswered
<1> QED BY <1>2, <1>3, <1>4, <1>5 DEF HttpInv

LEMMA RewriteStep ==
  ASSUME HttpInv, Rewrite
  PROVE  HttpInv' /\ pc' \in {"get", "read"}
<1>1. /\ pc \in {"get", "read"} /\ changed' = TRUE /\ fresh' \in {FALSE, fresh}
      /\ UNCHANGED <<conf, req, pc, head, fi, body, answer, sent, chunk, faults>>
  BY DEF Rewrite
<1>2. file' \in FileStates
  <2>1. CASE pc = "read" /\ file.kind = "file" /\ \E n \in 0 .. MaxSize : file' = [file EXCEPT !.size = n]
    <3>1. file \in [kind : {"file", "dir"}, size : 0 .. MaxSize]
      BY <2>1 DEF HttpInv, TypeOK, FileStates
    <3> QED BY <2>1, <3>1 DEF FileStates
  <2> QED BY <2>1 DEF Rewrite
<1>3. fresh' \in BOOLEAN
  BY <1>1 DEF HttpInv, TypeOK
<1>4. TypeOK'
  BY <1>1, <1>2, <1>3 DEF HttpInv, TypeOK
<1>5. HeadKnown' /\ WriteReady' /\ ChunksSoFar' /\ Unsent' /\ FaultsAnswered'
  BY <1>1 DEF HttpInv, HeadKnown, WriteReady, ChunksSoFar, Unsent, FaultsAnswered
<1>6. ReadReady'
  <2> SUFFICES ASSUME pc = "read" PROVE ReadReady'
    BY <1>1 DEF ReadReady
  <2>1. file'.kind \in {"file", "dir"}
    <3>1. file.kind \in {"file", "dir"} /\ file \in [kind : {"file", "dir"}, size : 0 .. MaxSize]
      BY DEF HttpInv, TypeOK, FileStates, ReadReady
    <3>2. PICK n \in 0 .. MaxSize : file' = [file EXCEPT !.size = n]
      BY DEF Rewrite
    <3> QED BY <3>1, <3>2
  <2>2. ~Early' /\ ~ParseFails(fi)' /\ (Ranged' => ~fresh')
    <3>1. ~Early /\ ~ParseFails(fi) /\ (Ranged => ~fresh)
      BY DEF HttpInv, ReadReady
    <3>2. ~Early' /\ Ranged' = Ranged /\ req'.range = req.range /\ fi' = fi
      BY <1>1, <3>1 DEF Early, Ranged
    <3>3. Ranged' => ~fresh'
      BY <1>1, <1>3, <3>1, <3>2 DEF HttpInv, TypeOK
    <3>4. ~ParseFails(fi)'
      BY <3>1, <3>2 DEF ParseFails
    <3> QED BY <3>2, <3>3, <3>4
  <2> QED BY <1>1, <2>1, <2>2 DEF ReadReady
<1> QED BY <1>1, <1>4, <1>5, <1>6 DEF HttpInv

\* An answer without a body, and without a length that could be wrong.
LEMMA ShortAnswer ==
  ASSUME HttpInv', pc' = "done", answer'.status \notin {200, 206},
         answer'.clen = NoLength \/ answer'.status = 304
         \/ (answer'.status = 500 /\ Ranged'
             /\ (changed' \/ file'.kind = "dir" \/ "read" \in faults'))
  PROVE  BodyRight' /\ LengthHonest'
BY DEF HttpInv, BodyRight, LengthHonest

LEMMA GetEarlyStep ==
  ASSUME HttpInv, GetEarly
  PROVE  HttpInv' /\ Answered'
<1>1. /\ pc = "get" /\ Early /\ pc' = "done"
      /\ answer' = Plain(IF conf.getCode THEN Configured ELSE 301)
      /\ UNCHANGED <<conf, req, file, fresh, changed, head, fi, body, sent, chunk, faults>>
  BY DEF GetEarly, Answer, Unread, given
<1>2. answer' \in Answers
  BY <1>1, AnswersTyped DEF Statuses
<1>3. HttpInv'
  BY <1>1, <1>2, EndStep DEF given, HttpInv, TypeOK
<1>4. BodyRight' /\ LengthHonest'
  BY <1>1, <1>3, ShortAnswer DEF Plain, Configured
<1>5. HeadForetells'
  <2>1. "open" \notin faults /\ "read" \notin faults
    BY <1>1 DEF HttpInv, FaultsAnswered
  <2> SUFFICES ASSUME ~conf.getCode, ~conf.headCode, ~(conf.otu = "castis" /\ ~req.session),
                      ~changed, "stat" \notin faults
               PROVE  answer'.status = head'.status /\ head'.clen \in {answer'.clen, NoLength}
    BY <1>1, <2>1 DEF HeadForetells
  <2>2. conf.otu = "zooin" /\ ~req.session
    BY <1>1, ConfsAssumption DEF Early, HttpInv, TypeOK
  <2>3. head = Plain(301)
    BY <1>1, <2>2 DEF HttpInv, HeadKnown, HeadEarly
  <2> QED BY <1>1, <2>3 DEF Plain
<1> QED BY <1>3, <1>4, <1>5 DEF Answered

LEMMA OpenFailsStep ==
  ASSUME HttpInv, OpenFails
  PROVE  HttpInv' /\ Answered'
<1>1. /\ pc = "get" /\ ~Early /\ pc' = "done"
      /\ \/ file.kind = "missing" /\ answer' = Plain(404) /\ faults' = faults
         \/ file.kind = "notdir" /\ answer' = Plain(500) /\ faults' = faults
         \/ answer' = Plain(500) /\ faults' = faults \cup {"open"}
      /\ UNCHANGED <<conf, req, file, fresh, changed, head, fi, body, sent, chunk>>
  BY DEF OpenFails, Answer, Unread, given
<1>2. answer' \in Answers
  BY <1>1, AnswersTyped DEF Statuses
<1>3. HttpInv'
  <2>1. faults \subseteq faults' /\ faults' \subseteq Faults
    BY <1>1 DEF HttpInv, TypeOK, Faults
  <2> QED BY <1>1, <1>2, <2>1, EndStep DEF given, HttpInv, TypeOK
<1>4. BodyRight' /\ LengthHonest'
  BY <1>1, <1>3, ShortAnswer DEF Plain
<1>5. HeadForetells'
  <2>1. "open" \notin faults /\ "read" \notin faults
    BY <1>1 DEF HttpInv, FaultsAnswered
  <2>2. CASE answer' = Plain(500)
    BY <1>1, <2>1, <2>2 DEF HeadForetells, Plain
  <2>3. CASE file.kind = "missing" /\ answer' = Plain(404) /\ faults' = faults
    <3> SUFFICES ASSUME ~conf.headCode, ~changed, "stat" \notin faults
                 PROVE  answer'.status = head'.status /\ head'.clen \in {answer'.clen, NoLength}
      BY <1>1, <2>1, <2>3 DEF HeadForetells
    <3>1. ~HeadEarly
      BY <1>1 DEF Early, HeadEarly
    <3>2. head = Plain(404)
      BY <1>1, <2>3, <3>1 DEF HttpInv, HeadKnown
    <3> QED BY <1>1, <2>3, <3>2 DEF Plain
  <2> QED BY <1>1, <2>2, <2>3
<1> QED BY <1>3, <1>4, <1>5 DEF Answered

\* What HEAD said of a file that is there.
LEMMA HeadOfThis ==
  ASSUME HttpInv, pc # "head", ~changed, "stat" \notin faults, ~conf.headCode, ~Early,
         file.kind \in {"file", "dir"}
  PROVE  head = HeadOfFile
BY DEF HttpInv, HeadKnown, HeadEarly, Early

LEMMA OpenStep ==
  ASSUME HttpInv, Open
  PROVE  HttpInv' /\ pc' \in {"read", "done"} /\ Ended'
<1>1. /\ pc = "get" /\ ~Early /\ file.kind \in {"file", "dir"} /\ fi' = file.size
      /\ UNCHANGED <<conf, req, file, fresh, changed, head, body, sent, chunk, faults>>
  BY DEF Open, Unread, given
<1>2. file.size \in 0 .. MaxSize
  BY HttpTyped DEF HttpInv, TypeOK
<1>3. CASE ~ParseFails(file.size) /\ ~(Ranged /\ fresh)
  <2>1. pc' = "read" /\ UNCHANGED answer
    BY <1>3 DEF Open
  <2>2. HttpInv'
    BY <1>1, <1>3, <2>1, OpenedStep DEF given
  <2> QED BY <2>1, <2>2 DEF Ended
<1>4. CASE ParseFails(file.size) \/ (Ranged /\ fresh)
  <2>1. /\ pc' = "done"
        /\ answer' = IF ParseFails(file.size) THEN Plain(500)
                     ELSE [status |-> 304, clen |-> Length(file.size)]
    BY <1>4 DEF Open, Answer
  <2>2. ~ParseFails(file.size) => Length(file.size) \in 0 .. MaxSize
    <3>1. Start \in Nat /\ MaxSize \in Nat /\ file.size \in Nat /\ file.size <= MaxSize
      BY HttpTyped DEF HttpInv, TypeOK
    <3> QED BY <3>1, LengthIs DEF HttpInv, TypeOK
  <2>3. answer' \in Answers
    BY <2>1, <2>2, AnswersTyped DEF Statuses
  <2>4. HttpInv'
    <3>1. TypeOK'
      BY <1>1, <1>2, <2>1, <2>3 DEF HttpInv, TypeOK
    <3>2. HeadKnown'
      BY <1>1, <2>1
         DEF HttpInv, HeadKnown, HeadEarly, HeadOfFile, ParseFails, Ranged, Length, Start
    <3> QED BY <2>1, <3>1, <3>2
            DEF HttpInv, Unsent, ReadReady, WriteReady, ChunksSoFar, FaultsAnswered
  <2>5. BodyRight' /\ LengthHonest'
    BY <2>1, <2>4, ShortAnswer DEF Plain
  <2>6. HeadForetells'
    <3>0. "open" \notin faults /\ "read" \notin faults
      BY <1>1 DEF HttpInv, FaultsAnswered
    <3> SUFFICES ASSUME ~conf.headCode, ~changed, "stat" \notin faults
                 PROVE  answer'.status = head'.status /\ head'.clen \in {answer'.clen, NoLength}
      BY <1>1, <3>0 DEF HeadForetells
    <3>1. head = HeadOfFile
      BY <1>1, HeadOfThis
    <3>2. head = answer'
      BY <1>4, <2>1, <3>1 DEF HeadOfFile
    <3> QED BY <1>1, <3>2
  <2> QED BY <2>1, <2>4, <2>5, <2>6 DEF Ended, Answered
<1> QED BY <1>3, <1>4

\* What is read for the request.
LEMMA ReadOf ==
  ASSUME HttpInv, pc = "read"
  PROVE  /\ fi \in Nat /\ fi <= MaxSize /\ MaxSize \in Nat /\ Start \in Nat
         /\ Length(fi) \in Nat /\ Start + Length(fi) <= fi
         /\ Ranged => Length(fi) > 0
         /\ ~Ranged => Length(fi) = fi /\ Start = 0
         /\ WholeRead => ReadAt = 0 /\ ReadLen = fi
         /\ ~WholeRead => ReadAt = Start /\ ReadLen = Length(fi)
         /\ ReadAt \in Nat /\ ReadLen \in Nat /\ ReadAt + ReadLen <= fi
         /\ AskedAt = ReadsAt(ReadAt) /\ Asked = ReadsUpTo(ReadAt, ReadLen)
         /\ Counts = Reads(ReadsAt(ReadAt), ReadsUpTo(ReadAt, ReadLen))
<1>1. /\ conf \in Confs /\ req \in HttpRequests /\ file \in FileStates
      /\ fi \in 0 .. MaxSize /\ ~ParseFails(fi)
  BY DEF HttpInv, TypeOK, ReadReady
<1>2. Start \in Nat /\ MaxSize \in Nat
  BY <1>1, HttpTyped
<1>3. fi \in Nat /\ fi <= MaxSize
  BY <1>1, <1>2
<1>4. /\ Length(fi) \in Nat /\ Start + Length(fi) <= fi
      /\ Ranged => Length(fi) > 0
      /\ ~Ranged => Length(fi) = fi /\ Start = 0
  BY <1>1, <1>3, LengthIs
<1>5. /\ WholeRead => ReadAt = 0 /\ ReadLen = fi
      /\ ~WholeRead => ReadAt = Start /\ ReadLen = Length(fi)
  BY DEF ReadAt, ReadLen
<1>6. ReadAt \in Nat /\ ReadLen \in Nat /\ ReadAt + ReadLen <= fi
  BY <1>2, <1>3, <1>4, <1>5
<1>7. /\ AskedAt = ReadsAt(ReadAt) /\ Asked = ReadsUpTo(ReadAt, ReadLen)
      /\ Counts = Reads(ReadsAt(ReadAt), ReadsUpTo(ReadAt, ReadLen))
  BY DEF AskedAt, Asked, Counts, ReadsAt, ReadsUpTo
<1> QED BY <1>2, <1>3, <1>4, <1>5, <1>6, <1>7

\* readfile fails or gives what its Read got; of a file nobody rewrote that is all,
\* unless the Read was short.
LEMMA OutcomeIs ==
  ASSUME HttpInv, pc = "read", NEW o \in Outcomes
  PROVE  /\ faults \subseteq o.faults /\ o.faults \subseteq Faults
         /\ ~o.ok => /\ o.b = Nil
                     /\ ~changed /\ file.kind # "dir" /\ "read" \notin o.faults =>
                          conf.directIO /\ ~Ranged /\ fi = 0
         /\ o.ok => /\ "read" \notin o.faults /\ "open" \notin o.faults
                    /\ o.faults \subseteq faults \cup {"short"}
                    /\ \E m \in Counts :
                         /\ ReadGood(o.b, ReadAt, ReadLen, m)
                         /\ "short" \notin o.faults => m = Readable(AskedAt, Asked)
<1>0. /\ conf \in Confs /\ req \in HttpRequests /\ file \in FileStates
      /\ faults \subseteq Faults /\ "read" \notin faults /\ "open" \notin faults
      /\ ~changed => fi = file.size
  BY DEF HttpInv, TypeOK, FaultsAnswered, ReadReady
<1>1. CASE o \in {Failed(f) : f \in {faults \cup {"read"}} \cup (IF Counts = {} THEN {faults} ELSE {})}
  <2>1. PICK f \in {faults \cup {"read"}} \cup (IF Counts = {} THEN {faults} ELSE {}) : o = Failed(f)
    BY <1>1
  <2>2. ~o.ok /\ o.b = Nil /\ o.faults = f
    BY <2>1 DEF Failed
  <2>3. f = faults \cup {"read"} \/ (f = faults /\ Counts = {})
    BY <2>1
  <2>4. faults \subseteq f /\ f \subseteq Faults
    BY <1>0, <2>3 DEF Faults
  <2>5. ASSUME ~changed, file.kind # "dir", "read" \notin f
        PROVE  conf.directIO /\ ~Ranged /\ fi = 0
    <3>1. /\ fi \in Nat /\ Start \in Nat /\ Length(fi) \in Nat
          /\ Ranged => Length(fi) > 0
          /\ ~Ranged => Length(fi) = fi
          /\ WholeRead => ReadLen = fi
          /\ ~WholeRead => ReadLen = Length(fi)
          /\ ReadAt \in Nat /\ ReadLen \in Nat /\ ReadAt + ReadLen <= file.size
          /\ Start + Length(fi) <= fi
          /\ Reads(ReadsAt(ReadAt), ReadsUpTo(ReadAt, ReadLen)) = {}
      BY <1>0, <2>3, <2>5, ReadOf
    <3>2. conf.directIO /\ ReadLen = 0
      BY <1>0, <2>5, <3>1, NothingToRead
    <3> QED BY <3>1, <3>2 DEF WholeRead
  <2> QED BY <2>2, <2>4, <2>5
<1>2. CASE o \in {[ok |-> TRUE, b |-> ToRead(readed), faults |-> Shortened(readed)]
                    : readed \in Counts}
  <2>1. PICK m \in Counts : o = [ok |-> TRUE, b |-> ToRead(m), faults |-> Shortened(m)]
    BY <1>2
  <2>2. o.ok /\ o.b = readfile(ReadAt, ReadLen, m) /\ o.faults = Shortened(m)
    BY <2>1 DEF ToRead
  <2>3. /\ ReadAt \in Nat /\ ReadLen \in Nat /\ m \in Reads(ReadsAt(ReadAt), ReadsUpTo(ReadAt, ReadLen))
        /\ m \in Reads(AskedAt, Asked)
    BY <2>1, ReadOf DEF Counts
  <2>4. ReadGood(o.b, ReadAt, ReadLen, m)
    BY <1>0, <2>2, <2>3, ReadfileGood
  <2>5. AskedAt \in Nat /\ Asked \in Nat
    BY <2>3, Aligned DEF AskedAt, Asked
  <2>6. m \in Nat /\ m <= Readable(AskedAt, Asked) /\ Readable(AskedAt, Asked) \in Int
    <3>1. file.size \in Nat
      BY <1>0, HttpTyped
    <3> QED BY <1>0, <2>3, <2>5, <3>1, CountIs DEF Readable, Least
  <2>7. "short" \notin o.faults => m = Readable(AskedAt, Asked)
    BY <2>2, <2>6 DEF Shortened
  <2>8. faults \subseteq o.faults /\ o.faults \subseteq faults \cup {"short"}
    BY <2>2 DEF Shortened
  <2> QED BY <1>0, <2>1, <2>2, <2>4, <2>7, <2>8 DEF Faults
<1> QED BY <1>1, <1>2 DEF Outcomes

LEMMA ReadFailedStep ==
  ASSUME HttpInv, ReadFailed
  PROVE  HttpInv' /\ Answered'
<1>1. /\ pc = "read" /\ pc' = "done"
      /\ answer' = [status |-> 500, clen |-> IF Ranged THEN Length(fi) ELSE NoLength]
      /\ UNCHANGED <<conf, req, file, fresh, changed, head, fi, body, sent, chunk>>
      /\ \E o \in Outcomes : ~o.ok /\ faults' = o.faults
  BY DEF ReadFailed, Answer, Unread, given
<1>2. /\ faults \subseteq faults' /\ faults' \subseteq Faults
      /\ ~changed /\ file.kind # "dir" /\ "read" \notin faults' =>
           conf.directIO /\ ~Ranged /\ fi = 0
      /\ ~changed => fi = file.size
  BY <1>1, OutcomeIs DEF HttpInv, ReadReady
<1>3. answer' \in Answers
  <2>1. Length(fi) \in 0 .. MaxSize
    <3>1. /\ fi \in Nat /\ fi <= MaxSize /\ MaxSize \in Nat /\ Start \in Nat
          /\ Length(fi) \in Nat /\ Start + Length(fi) <= fi
      BY <1>1, ReadOf
    <3> QED BY <3>1
  <2> QED BY <1>1, <2>1 DEF Answers, Statuses
<1>4. HttpInv'
  BY <1>1, <1>2, <1>3, EndStep DEF given, HttpInv, TypeOK
<1>5. Ranged' = Ranged
  BY <1>1 DEF Ranged
<1>6. BodyRight' /\ LengthHonest'
  <2>1. answer'.status = 500 /\ (answer'.clen = NoLength \/ Ranged')
    BY <1>1, <1>5
  <2>2. Ranged' => changed' \/ file'.kind = "dir" \/ "read" \in faults'
    BY <1>1, <1>2, <1>5
  <2> QED BY <1>1, <1>4, <2>1, <2>2, ShortAnswer
<1>7. HeadForetells'
  BY <1>1, <1>2 DEF HeadForetells
<1> QED BY <1>4, <1>6, <1>7 DEF Answered

LEMMA NotModifiedStep ==
  ASSUME HttpInv, NotModified
  PROVE  HttpInv' /\ Answered'
<1>1. /\ pc = "read" /\ ~Ranged /\ fresh /\ pc' = "done"
      /\ answer' = [status |-> 304, clen |-> fi]
      /\ UNCHANGED <<conf, req, file, fresh, changed, head, fi, body, sent, chunk>>
      /\ \E o \in Outcomes : o.ok /\ faults' = o.faults
  BY DEF NotModified, Answer, Unread, given
<1>2. answer' \in Answers
  <2>1. fi \in 0 .. MaxSize /\ 304 \in Statuses
    BY DEF HttpInv, TypeOK, Statuses
  <2> QED BY <1>1, <2>1, AnswersTyped
<1>3. /\ faults \subseteq faults' /\ faults' \subseteq Faults
      /\ "read" \notin faults' /\ "open" \notin faults'
      /\ faults' \subseteq faults \cup {"short"}
  BY <1>1, OutcomeIs
<1>4. HttpInv'
  BY <1>1, <1>2, <1>3, EndStep DEF given, HttpInv, TypeOK
<1>5. BodyRight' /\ LengthHonest'
  BY <1>1, <1>4, ShortAnswer
<1>6. HeadForetells'
  <2> SUFFICES ASSUME ~conf.headCode, ~changed, "stat" \notin faults
               PROVE  answer'.status = head'.status /\ head'.clen \in {answer'.clen, NoLength}
    BY <1>1, <1>3 DEF HeadForetells
  <2>1. ~Early /\ file.kind \in {"file", "dir"} /\ fi = file.size
    BY <1>1 DEF HttpInv, ReadReady
  <2>2. head = HeadOfFile
    BY <1>1, <2>1, HeadOfThis
  <2>3. head = [status |-> 304, clen |-> Length(file.size)] /\ Length(file.size) = file.size
    BY <1>1, <2>2 DEF HeadOfFile, ParseFails, Length
  <2> QED BY <1>1, <2>1, <2>3
<1> QED BY <1>4, <1>5, <1>6 DEF Answered

LEMMA ReadPanicsStep ==
  ASSUME HttpInv, ReadPanics
  PROVE  HttpInv' /\ pc' = "panicked" /\ PanicExplained'
<1>1. /\ pc = "read" /\ Ranged /\ conf.readAll /\ pc' = "panicked"
      /\ UNCHANGED <<conf, req, file, fresh, changed, head, fi, body, answer, sent, chunk>>
      /\ \E o \in Outcomes : ~Cuttable(o.b) /\ faults' = o.faults
  BY DEF ReadPanics, given
<1>2. PICK o \in Outcomes : ~Cuttable(o.b) /\ faults' = o.faults
  BY <1>1
<1>3. HttpInv'
  <2>1. faults \subseteq faults' /\ faults' \subseteq Faults
    BY <1>1, <1>2, OutcomeIs
  <2> QED BY <1>1, <2>1, EndStep DEF given, HttpInv, TypeOK
<1>4. ASSUME ~changed, file.kind # "dir", "read" \notin faults' PROVE FALSE
  <2>1. /\ fi \in Nat /\ Start \in Nat /\ Length(fi) \in Nat /\ Start + Length(fi) <= fi
        /\ ReadAt = 0 /\ ReadLen = fi
    BY <1>1, ReadOf DEF WholeRead
  <2>2. o.ok
    BY <1>1, <1>2, <1>4, OutcomeIs
  <2>3. PICK m \in Counts : ReadGood(o.b, ReadAt, ReadLen, m)
    BY <1>1, <2>2, OutcomeIs
  <2>4. Len(o.b.buf) \in Nat /\ Len(o.b.buf) >= fi
    BY <2>1, <2>3, LenProperties DEF ReadGood
  <2> QED BY <1>2, <2>1, <2>4 DEF Cuttable
<1>5. PanicExplained'
  BY <1>1, <1>4 DEF PanicExplained, Ranged
<1> QED BY <1>1, <1>3, <1>5

\* What is to be written is good, see WriteReady, if all was read or not.
BodyGood(b, short) ==
  /\ b.buf \in Seq(0 .. MaxSize) /\ b.len \in 0 .. Len(b.buf)
  /\ \A k \in 1 .. Len(b.buf) : b.buf[k] \in {0, Start + k}
  /\ b.len = Length(fi) \/ (conf.directIO /\ (changed \/ short) /\ b.len <= Length(fi))
  /\ ~changed /\ ~short => \A k \in 1 .. b.len : b.buf[k] # 0

LEMMA ReadGoodIsBody ==
  ASSUME HttpInv, pc = "read", ~(Ranged /\ conf.readAll), NEW r, NEW m,
         ReadGood(r, ReadAt, ReadLen, m)
  PROVE  BodyGood(r, m # Readable(AskedAt, Asked))
<1> DEFINE l == Length(fi)  all == m = Readable(AskedAt, Asked)
<1>1. /\ fi \in Nat /\ Start \in Nat /\ l \in Nat /\ Start + l <= fi
      /\ ~changed => fi = file.size
  BY ReadOf DEF HttpInv, ReadReady
<1>2. ReadAt = Start /\ ReadLen = l
  <2>1. CASE ~Ranged
    BY <2>1, ReadOf DEF WholeRead
  <2>2. CASE Ranged
    BY <2>2, ReadOf DEF WholeRead
  <2> QED BY <2>1, <2>2
<1>3. all <=> m = Readable(ReadsAt(Start), ReadsUpTo(Start, l))
  BY <1>2, ReadOf
<1>4. ReadGood(r, Start, l, m)
  BY <1>2
<1> HIDE DEF l, all
<1>5. /\ r.buf \in Seq(0 .. MaxSize) /\ r.len \in 0 .. Len(r.buf) /\ r.len <= l
      /\ \A k \in 1 .. Len(r.buf) : r.buf[k] \in {0, Start + k}
      /\ all /\ Start + l <= file.size => r.len = l /\ \A k \in 1 .. l : r.buf[k] = Start + k
      /\ ~conf.directIO => r.len = l
  BY <1>3, <1>4 DEF ReadGood
<1>6. ASSUME ~changed, all PROVE r.len = l /\ \A k \in 1 .. l : r.buf[k] = Start + k
  <2>1. Start + l <= file.size
    BY <1>1, <1>6
  <2> QED BY <1>5, <1>6, <2>1
<1>7. conf.directIO \in BOOLEAN /\ changed \in BOOLEAN
  BY HttpTyped DEF HttpInv, TypeOK
<1>8. ~changed /\ all => \A k \in 1 .. r.len : r.buf[k] # 0
  BY <1>1, <1>6
<1>9. r.len = l \/ (conf.directIO /\ (changed \/ ~all) /\ r.len <= l)
  BY <1>5, <1>6, <1>7
<1>10. BodyGood(r, ~all)
  BY <1>5, <1>8, <1>9 DEF BodyGood, l
<1> QED BY <1>10 DEF all

LEMMA CutIsBody ==
  ASSUME HttpInv, pc = "read", Ranged, conf.readAll, NEW r, NEW m,
         ReadGood(r, ReadAt, ReadLen, m), Cuttable(r)
  PROVE  BodyGood(Cut(r), m # Readable(AskedAt, Asked))
<1> DEFINE l == Length(fi)  c == Cut(r)  all == m = Readable(AskedAt, Asked)
<1>1. /\ fi \in Nat /\ Start \in Nat /\ l \in Nat /\ Start + l <= fi
      /\ ~changed => fi = file.size
      /\ ReadAt = 0 /\ ReadLen = fi
  BY ReadOf DEF HttpInv, ReadReady, WholeRead
<1>2. c.buf = SubSeq(r.buf, Start + 1, Len(r.buf)) /\ c.len = l
  BY DEF Cut
<1>3. Start + l <= Len(r.buf)
  BY DEF Cuttable
<1>4. ReadGood(r, 0, fi, m) /\ (all <=> m = Readable(ReadsAt(0), ReadsUpTo(0, fi)))
  BY <1>1, ReadOf
<1> HIDE DEF c, l, all
<1> DEFINE n == Len(r.buf)
<1>5. /\ r.buf \in Seq(0 .. MaxSize) /\ n \in Nat
      /\ \A k \in 1 .. n : r.buf[k] \in {0, 0 + k}
      /\ ~changed /\ all => \A k \in 1 .. fi : r.buf[k] = 0 + k
  <2>1. 0 + fi = fi
    BY <1>1
  <2> QED BY <1>1, <1>4, <2>1, LenProperties DEF ReadGood
<1>6. \A k \in Start + 1 .. n : r.buf[k] \in 0 .. MaxSize
  <2> TAKE k \in Start + 1 .. n
  <2>1. k \in 1 .. Len(r.buf)
    BY <1>1, <1>5
  <2> QED BY <1>5, <2>1, ElementOfSeq
<1> HIDE DEF n
<1>7. /\ c.buf \in Seq(0 .. MaxSize) /\ Len(c.buf) = n - Start
      /\ \A k \in 1 .. n - Start : c.buf[k] = r.buf[Start + k]
  <2>1. /\ c.buf \in Seq(0 .. MaxSize)
        /\ Len(c.buf) = IF Start + 1 <= n THEN n - (Start + 1) + 1 ELSE 0
        /\ \A k \in 1 .. n - (Start + 1) + 1 : c.buf[k] = r.buf[Start + 1 + k - 1]
    <3>1. c.buf = SubSeq(r.buf, Start + 1, n) /\ Start + 1 \in Int /\ n \in Int
      BY <1>1, <1>2, <1>5 DEF n
    <3> QED BY <1>6, <3>1, SubSeqProperties
  <2>2. n - (Start + 1) + 1 = n - Start /\ (~(Start + 1 <= n) => n - Start = 0)
    BY <1>1, <1>3, <1>5 DEF n
  <2>3. \A k \in 1 .. n - Start : Start + 1 + k - 1 = Start + k
    BY <1>1, <1>5
  <2> QED BY <2>1, <2>2, <2>3
<1>8. \A k \in 1 .. n - Start : c.buf[k] \in {0, Start + k}
  <2> TAKE k \in 1 .. n - Start
  <2>1. Start + k \in 1 .. n /\ 0 + (Start + k) = Start + k
    BY <1>1, <1>5
  <2> QED BY <1>5, <1>7, <2>1
<1>9. l <= n - Start /\ n - Start \in Nat
  BY <1>1, <1>3, <1>5 DEF n
<1>10. ASSUME ~changed, all PROVE \A k \in 1 .. l : c.buf[k] # 0
  <2> TAKE k \in 1 .. l
  <2>1. Start + k \in 1 .. fi /\ k \in 1 .. n - Start /\ 0 + (Start + k) # 0
    BY <1>1, <1>5, <1>9
  <2> QED BY <1>5, <1>7, <1>10, <2>1
<1>11. c.len \in 0 .. Len(c.buf)
  BY <1>1, <1>2, <1>7, <1>9
<1>12. BodyGood(c, ~all)
  BY <1>2, <1>7, <1>8, <1>10, <1>11 DEF BodyGood, l
<1> QED BY <1>12 DEF c, all

LEMMA ReadOkStep ==
  ASSUME HttpInv, ReadOk
  PROVE  HttpInv' /\ pc' = "write"
<1>1. /\ pc = "read" /\ (~Ranged => ~fresh) /\ pc' = "write"
      /\ answer' = [status |-> IF Ranged THEN 206 ELSE 200,
                    clen |-> IF conf.chunked THEN NoLength ELSE Length(fi)]
      /\ UNCHANGED <<conf, req, file, fresh, changed, head, fi, sent, chunk>>
      /\ ToBody
  BY DEF ReadOk, given
<1>2. PICK o \in Outcomes :
        /\ o.ok /\ (Ranged /\ conf.readAll => Cuttable(o.b))
        /\ body' = IF Ranged /\ conf.readAll THEN Cut(o.b) ELSE o.b
        /\ faults' = o.faults
  BY <1>1 DEF ToBody
<1>3. PICK m \in Counts :
         /\ ReadGood(o.b, ReadAt, ReadLen, m)
         /\ "short" \notin o.faults => m = Readable(AskedAt, Asked)
  BY <1>1, <1>2, OutcomeIs
<1>4. BodyGood(body', m # Readable(AskedAt, Asked))
  <2>1. CASE Ranged /\ conf.readAll
    BY <1>1, <1>2, <1>3, <2>1, CutIsBody
  <2>2. CASE ~(Ranged /\ conf.readAll)
    BY <1>1, <1>2, <1>3, <2>2, ReadGoodIsBody
  <2> QED BY <2>1, <2>2
<1>5. BodyGood(body', "short" \in faults')
  BY <1>2, <1>3, <1>4 DEF BodyGood
<1>6. /\ faults \subseteq faults' /\ faults' \subseteq Faults
       /\ "open" \notin faults' /\ "read" \notin faults'
  BY <1>1, <1>2, OutcomeIs
<1>7. /\ fi \in Nat /\ fi <= MaxSize /\ MaxSize \in Nat /\ Start \in Nat
      /\ Length(fi) \in Nat /\ Start + Length(fi) <= fi
  BY <1>1, ReadOf
<1>8. answer' \in Answers
  <2>1. Length(fi) \in 0 .. MaxSize
    BY <1>7
  <2> QED BY <1>1, <2>1 DEF Answers, Statuses
<1>9. TypeOK'
  BY <1>1, <1>5, <1>6, <1>8 DEF HttpInv, TypeOK, BodyGood
<1>10. HeadKnown'
  BY <1>1, <1>6 DEF HttpInv, HeadKnown, HeadEarly, HeadOfFile, ParseFails, Ranged, Length, Start
<1>11. Unsent' /\ ReadReady' /\ FaultsAnswered'
  BY <1>1, <1>6 DEF Unsent, ReadReady, FaultsAnswered
<1>12. Ranged' = Ranged /\ Start' = Start /\ Length(fi)' = Length(fi)
      /\ Early' = Early /\ ParseFails(fi)' = ParseFails(fi)
  BY <1>1 DEF Ranged, Start, Length, Early, ParseFails
<1>13. WriteReady'
  <2>1. /\ ~Early /\ ~ParseFails(fi) /\ ~fresh /\ file.kind \in {"file", "dir"}
        /\ ~changed => fi = file.size
    BY <1>1 DEF HttpInv, ReadReady
  <2> QED BY <1>1, <1>5, <1>12, <2>1 DEF WriteReady, BodyGood
<1>14. ChunksSoFar'
  <2>1. sent' = <<>> /\ chunk' = 0 /\ Len(<<>>) = 0
    BY <1>1 DEF HttpInv, Unsent
  <2>2. body'.len \in Nat /\ conf.ceCount \in Nat /\ conf.ceCount > 0 /\ Len(body'.buf) \in Nat
    BY <1>5, HttpTyped, LenProperties DEF BodyGood, HttpInv, TypeOK
  <2>3. ChunkN(body'.len, conf.ceCount) \in Nat
        /\ (ChunkN(body'.len, conf.ceCount) = 0 => body'.len = 0)
    BY <2>2 DEF ChunkN, Least
  <2>4. From(0, body'.len, conf.ceCount) = 0
    <3>1. ChunkLen(body'.len, conf.ceCount) \in Int
      BY <2>2 DEF ChunkLen
    <3> QED BY <3>1 DEF From
  <2> QED BY <1>1, <2>1, <2>2, <2>3, <2>4 DEF ChunksSoFar
<1> QED BY <1>1, <1>9, <1>10, <1>11, <1>13, <1>14 DEF HttpInv

-----------------------------------------------------------------------------
(* Writing.                                                                *)

\* A piece of b behind what there is of b.
LEMMA OneMorePiece ==
  ASSUME NEW S, NEW s \in Seq(S), NEW b \in Seq(S), NEW to \in Nat,
         Len(s) <= to, to <= Len(b), \A k \in 1 .. Len(s) : s[k] = b[k]
  PROVE  /\ s \o SubSeq(b, Len(s) + 1, to) \in Seq(S)
         /\ Len(s \o SubSeq(b, Len(s) + 1, to)) = to
         /\ \A k \in 1 .. to : (s \o SubSeq(b, Len(s) + 1, to))[k] = b[k]
<1> DEFINE n == Len(s)  p == SubSeq(b, n + 1, to)  r == s \o p
<1>1. n \in Nat /\ Len(b) \in Nat /\ n <= to
  BY LenProperties
<1>2. \A k \in n + 1 .. to : b[k] \in S
  <2> TAKE k \in n + 1 .. to
  <2>1. k \in 1 .. Len(b)
    BY <1>1
  <2> QED BY <2>1, ElementOfSeq
<1> HIDE DEF n
<1>3. /\ p \in Seq(S) /\ Len(p) = IF n + 1 <= to THEN to - (n + 1) + 1 ELSE 0
      /\ \A k \in 1 .. to - (n + 1) + 1 : p[k] = b[n + 1 + k - 1]
  BY <1>1, <1>2, SubSeqProperties
<1>4. Len(p) = to - n
  BY <1>1, <1>3
<1> HIDE DEF p
<1>5. /\ r \in Seq(S) /\ Len(r) = n + Len(p)
      /\ \A k \in 1 .. n + Len(p) : r[k] = IF k <= n THEN s[k] ELSE p[k - n]
  BY <1>3, ConcatProperties DEF n
<1>6. Len(r) = to
  BY <1>1, <1>4, <1>5
<1> HIDE DEF r
<1>7. \A k \in 1 .. to : r[k] = b[k]
  <2> TAKE k \in 1 .. to
  <2>1. CASE k <= n
    BY <1>1, <1>4, <1>5, <2>1 DEF n
  <2>2. CASE ~(k <= n)
    <3>1. k - n \in 1 .. to - (n + 1) + 1 /\ n + 1 + (k - n) - 1 = k
      BY <1>1, <2>2
    <3>2. p[k - n] = b[k]
      BY <1>3, <3>1
    <3>3. k \in 1 .. n + Len(p)
      BY <1>1, <1>4
    <3> QED BY <1>5, <2>2, <3>2, <3>3
  <2> QED BY <2>1, <2>2
<1> QED BY <1>5, <1>6, <1>7 DEF r, p, n

\* What is known while the body is written.
LEMMA Writing ==
  ASSUME HttpInv, pc = "write"
  PROVE  /\ conf \in Confs /\ req \in HttpRequests /\ file \in FileStates
         /\ body.buf \in Seq(0 .. MaxSize) /\ Len(body.buf) \in Nat
         /\ body.len \in Nat /\ body.len <= Len(body.buf) /\ body.len <= MaxSize
         /\ sent \in Seq(0 .. MaxSize) /\ chunk \in Nat /\ MaxSize \in Nat
         /\ conf.ceCount \in Nat /\ conf.ceCount > 0
<1>1. /\ conf \in Confs /\ req \in HttpRequests /\ file \in FileStates /\ sent \in Seq(0 .. MaxSize)
      /\ body.buf \in Seq(0 .. MaxSize) /\ body.len \in 0 .. Len(body.buf)
      /\ fi \in 0 .. MaxSize /\ chunk \in 0 .. MaxSize
  BY DEF HttpInv, TypeOK
<1>2. /\ MaxSize \in Nat /\ Start \in Nat /\ conf.ceCount \in Nat /\ conf.ceCount > 0
      /\ Len(body.buf) \in Nat
  BY <1>1, HttpTyped, LenProperties
<1>3. fi \in Nat /\ fi <= MaxSize
  BY <1>1, <1>2
<1>4. Length(fi) \in Nat /\ Start + Length(fi) <= fi
  BY <1>1, <1>3, LengthIs DEF HttpInv, WriteReady
<1>5. body.len \in Nat /\ body.len <= Len(body.buf)
  BY <1>1, <1>2
<1>6. body.len <= Length(fi)
  BY <1>4, <1>5 DEF HttpInv, WriteReady
<1>7. body.len <= MaxSize
  BY <1>2, <1>3, <1>4, <1>5, <1>6
<1> QED BY <1>1, <1>2, <1>5, <1>7

\* The body is written, and was what the invariant says.
LEMMA WrittenOut ==
  ASSUME HttpInv, pc = "write", pc' = "done",
         UNCHANGED <<given, head, fi, body, answer, chunk, faults>>,
         sent' \in Seq(0 .. MaxSize), Len(sent') = body.len,
         \A k \in 1 .. body.len : sent'[k] = body.buf[k]
  PROVE  HttpInv' /\ Answered'
<1>1. UNCHANGED <<conf, req, file, fresh, changed, head, fi, body, answer, chunk, faults>>
  BY DEF given
<1>2. HttpInv'
  BY <1>1, EndStep DEF HttpInv, TypeOK
<1>3. Ranged' = Ranged /\ Start' = Start /\ Length(file.size)' = Length(file.size)
  BY <1>1 DEF Ranged, Start, Length
<1>4. /\ ~Early /\ ~ParseFails(fi) /\ ~fresh /\ file.kind \in {"file", "dir"}
      /\ answer = [status |-> IF Ranged THEN 206 ELSE 200,
                   clen |-> IF conf.chunked THEN NoLength ELSE Length(fi)]
      /\ \A k \in 1 .. Len(body.buf) : body.buf[k] \in {0, Start + k}
      /\ \/ body.len = Length(fi)
         \/ conf.directIO /\ (changed \/ "short" \in faults) /\ body.len <= Length(fi)
      /\ ~changed => fi = file.size
      /\ ~changed /\ "short" \notin faults => \A k \in 1 .. body.len : body.buf[k] # 0
      /\ "open" \notin faults /\ "read" \notin faults
  BY DEF HttpInv, WriteReady, FaultsAnswered
<1>5. changed \in BOOLEAN /\ conf.chunked \in BOOLEAN /\ conf.directIO \in BOOLEAN
  BY HttpTyped DEF HttpInv, TypeOK
<1>6. BodyRight'
  <2>1. \A k \in 1 .. Len(sent') : sent'[k] \in {0, Start + k}
    <3> TAKE k \in 1 .. Len(sent')
    <3>1. k \in 1 .. body.len /\ k \in 1 .. Len(body.buf)
      BY Writing
    <3> QED BY <1>4, <3>1
  <2>2. ASSUME ~changed, "short" \notin faults
        PROVE  Len(sent') = Length(file.size) /\ \A k \in 1 .. Len(sent') : sent'[k] # 0
    BY <1>4, <2>2
  <2>3. TypeOK'
    BY <1>2 DEF HttpInv
  <2> QED BY <1>1, <1>3, <2>1, <2>2, <2>3 DEF BodyRight
<1>7. LengthHonest'
  BY <1>1, <1>4, <1>5 DEF LengthHonest
<1>8. HeadForetells'
  <2> SUFFICES ASSUME ~conf.headCode, ~changed, "stat" \notin faults
               PROVE  answer'.status = head'.status /\ head'.clen \in {answer'.clen, NoLength}
    BY <1>1, <1>4 DEF HeadForetells
  <2>1. head = HeadOfFile
    BY <1>4, HeadOfThis
  <2>2. fi = file.size
    BY <1>4
  <2>3. head = IF ~Ranged \/ conf.chunked THEN Plain(IF Ranged THEN 206 ELSE 200)
               ELSE [status |-> 206, clen |-> Length(fi)]
    BY <1>4, <1>5, <2>1, <2>2 DEF HeadOfFile
  <2>4. answer.status = head.status /\ head.clen \in {answer.clen, NoLength}
    BY <1>4, <1>5, <2>3 DEF Plain
  <2> QED BY <1>1, <2>4
<1> QED BY <1>2, <1>6, <1>7, <1>8 DEF Answered

LEMMA WriteBodyStep ==
  ASSUME HttpInv, WriteBody
  PROVE  HttpInv' /\ Answered'
<1>1. pc = "write" /\ pc' = "done" /\ sent' = SubSeq(body.buf, 1, body.len)
      /\ UNCHANGED <<given, head, fi, body, answer, chunk, faults>>
  BY DEF WriteBody
<1>2. /\ body.buf \in Seq(0 .. MaxSize) /\ Len(body.buf) \in Nat
      /\ body.len \in Nat /\ body.len <= Len(body.buf)
  BY <1>1, Writing
<1>3. \A k \in 1 .. body.len : body.buf[k] \in 0 .. MaxSize
  <2> TAKE k \in 1 .. body.len
  <2>1. k \in 1 .. Len(body.buf)
    BY <1>2
  <2> QED BY <1>2, <2>1, ElementOfSeq
<1>4. /\ sent' \in Seq(0 .. MaxSize)
      /\ Len(sent') = IF 1 <= body.len THEN body.len - 1 + 1 ELSE 0
      /\ \A k \in 1 .. body.len - 1 + 1 : sent'[k] = body.buf[1 + k - 1]
  BY <1>1, <1>2, <1>3, SubSeqProperties
<1>5. /\ Len(sent') = body.len /\ body.len - 1 + 1 = body.len
      /\ \A k \in 1 .. body.len : 1 + k - 1 = k
  BY <1>2, <1>4
<1> QED BY <1>1, <1>4, <1>5, WrittenOut

LEMMA ChunksEndStep ==
  ASSUME HttpInv, ChunksEnd
  PROVE  HttpInv' /\ Answered'
<1>1. /\ pc = "write" /\ pc' = "done" /\ chunk = ChunkN(body.len, conf.ceCount)
      /\ UNCHANGED <<given, head, fi, body, answer, sent, chunk, faults>>
  BY DEF ChunksEnd
<1>2. sent \in Seq(0 .. MaxSize)
  BY <1>1, Writing
<1>3. Len(sent) = body.len /\ \A k \in 1 .. body.len : sent[k] = body.buf[k]
  BY <1>1 DEF HttpInv, ChunksSoFar
<1> QED BY <1>1, <1>2, <1>3, WrittenOut

LEMMA WriteChunkStep ==
  ASSUME HttpInv, WriteChunk
  PROVE  HttpInv' /\ pc' \in {"write", "panicked"}
<1> DEFINE l == body.len  n == conf.ceCount  from == From(chunk, l, n)  to == To(chunk, l, n)
<1>1. /\ pc = "write" /\ chunk < ChunkN(l, n)
      /\ UNCHANGED <<conf, req, file, fresh, changed, head, fi, body, answer, faults>>
  BY DEF WriteChunk, given
<1>2. /\ body.buf \in Seq(0 .. MaxSize) /\ Len(body.buf) \in Nat
      /\ l \in Nat /\ l <= Len(body.buf) /\ l <= MaxSize
      /\ sent \in Seq(0 .. MaxSize) /\ chunk \in Nat /\ MaxSize \in Nat
      /\ n \in Nat /\ n > 0
  BY <1>1, Writing
<1>3. CASE ~Sliceable(from, to)
  <2>1. pc' = "panicked" /\ UNCHANGED <<sent, chunk>>
    BY <1>3 DEF WriteChunk
  <2>2. HttpInv'
    BY <1>1, <2>1, EndStep DEF given, HttpInv, TypeOK
  <2> QED BY <2>1, <2>2
<1>4. CASE Sliceable(from, to)
  <2>1. /\ pc' = pc /\ chunk' = chunk + 1
        /\ sent' = sent \o SubSeq(body.buf, from + 1, to)
    BY <1>4 DEF WriteChunk
  <2>2. from <= to /\ to <= Len(body.buf)
    BY <1>4 DEF Sliceable
  <2> HIDE DEF from, to, l, n
  <2>3. /\ from \in Nat /\ to \in Nat /\ ChunkN(l, n) \in Nat /\ ChunkN(l, n) <= l
        /\ chunk + 1 = ChunkN(l, n) => to = l
        /\ chunk + 1 # ChunkN(l, n) => to = From(chunk + 1, l, n)
    BY <1>1, <1>2, ChunkTyped DEF from, to
  <2>4. Len(sent) = from /\ \A k \in 1 .. Len(sent) : sent[k] = body.buf[k]
    <3>1. chunk # ChunkN(l, n)
      BY <1>1, <1>2, <2>3
    <3> QED BY <1>1, <3>1 DEF HttpInv, ChunksSoFar, from, l, n
  <2>5. /\ sent' \in Seq(0 .. MaxSize) /\ Len(sent') = to
        /\ \A k \in 1 .. to : sent'[k] = body.buf[k]
    <3>1. sent' = sent \o SubSeq(body.buf, Len(sent) + 1, to)
      BY <2>1, <2>4
    <3>2. /\ Len(sent) <= to /\ to \in Nat /\ to <= Len(body.buf)
          /\ body.buf \in Seq(0 .. MaxSize) /\ sent \in Seq(0 .. MaxSize)
          /\ \A k \in 1 .. Len(sent) : sent[k] = body.buf[k]
      BY <1>2, <2>2, <2>3, <2>4
    <3>3. /\ sent \o SubSeq(body.buf, Len(sent) + 1, to) \in Seq(0 .. MaxSize)
          /\ Len(sent \o SubSeq(body.buf, Len(sent) + 1, to)) = to
          /\ \A k \in 1 .. to :
               (sent \o SubSeq(body.buf, Len(sent) + 1, to))[k] = body.buf[k]
      <4> DEFINE S == 0 .. MaxSize
      <4>1. \A s, b \in Seq(S) : \A m \in Nat :
              Len(s) <= m /\ m <= Len(b) /\ (\A k \in 1 .. Len(s) : s[k] = b[k]) =>
                /\ s \o SubSeq(b, Len(s) + 1, m) \in Seq(S)
                /\ Len(s \o SubSeq(b, Len(s) + 1, m)) = m
                /\ \A k \in 1 .. m : (s \o SubSeq(b, Len(s) + 1, m))[k] = b[k]
        <5> HIDE DEF S
        <5> SUFFICES ASSUME NEW s \in Seq(S), NEW b \in Seq(S), NEW m \in Nat,
                            Len(s) <= m, m <= Len(b), \A k \in 1 .. Len(s) : s[k] = b[k]
                     PROVE  /\ s \o SubSeq(b, Len(s) + 1, m) \in Seq(S)
                            /\ Len(s \o SubSeq(b, Len(s) + 1, m)) = m
                            /\ \A k \in 1 .. m : (s \o SubSeq(b, Len(s) + 1, m))[k] = b[k]
          OBVIOUS
        <5> QED BY OneMorePiece
      <4> QED BY ONLY <3>2, <4>1
    <3> QED BY ONLY <3>1, <3>3
  <2>6. chunk' \in 0 .. MaxSize /\ chunk' <= ChunkN(l, n)
    BY <1>1, <1>2, <2>1, <2>3
  <2>7. TypeOK'
    BY <1>1, <2>1, <2>5, <2>6 DEF HttpInv, TypeOK
  <2>8. HeadKnown'
    BY <1>1, <2>1
       DEF HttpInv, HeadKnown, HeadEarly, HeadOfFile, ParseFails, Ranged, Length, Start
  <2>9. Unsent' /\ ReadReady' /\ FaultsAnswered'
    BY <1>1, <2>1 DEF HttpInv, Unsent, ReadReady, FaultsAnswered
  <2>10. WriteReady'
    BY <1>1, <2>1 DEF HttpInv, WriteReady, Ranged, Start, Length, Early, ParseFails
  <2>11. ChunksSoFar'
    <3>1. l' = l /\ n' = n
      BY <1>1 DEF l, n
    <3>2. /\ chunk' <= ChunkN(l, n)
          /\ Len(sent') = IF chunk' = ChunkN(l, n) THEN l ELSE From(chunk', l, n)
          /\ Len(sent') <= Len(body.buf)
          /\ \A k \in 1 .. Len(sent') : sent'[k] = body.buf[k]
      BY <2>1, <2>2, <2>3, <2>5, <2>6
    <3> QED BY <1>1, <3>1, <3>2 DEF ChunksSoFar, l, n
  <2>12. pc' = "write"
    BY <1>1, <2>1
  <2> QED BY <2>7, <2>8, <2>9, <2>10, <2>11, <2>12 DEF HttpInv
<1> QED BY <1>3, <1>4

\* With up to three chunks none begins behind the body.
LEMMA ChunksFit ==
  ASSUME HttpInv, WriteChunk, conf.ceCount <= 3
  PROVE  pc' = "write"
<1>1. pc = "write" /\ chunk < ChunkN(body.len, conf.ceCount)
  BY DEF WriteChunk
<1>2. /\ Len(body.buf) \in Nat /\ body.len \in Nat /\ body.len <= Len(body.buf)
      /\ chunk \in Nat /\ conf.ceCount \in Nat /\ conf.ceCount > 0
  BY <1>1, Writing
<1>3. conf.ceCount \in 1 .. 3
  BY <1>2
<1>4. /\ From(chunk, body.len, conf.ceCount) <= To(chunk, body.len, conf.ceCount)
      /\ To(chunk, body.len, conf.ceCount) <= body.len
  BY <1>1, <1>2, <1>3, ThreeChunksFit
<1>5. To(chunk, body.len, conf.ceCount) \in Nat
  BY <1>1, <1>2, ChunkTyped
<1>6. Sliceable(From(chunk, body.len, conf.ceCount), To(chunk, body.len, conf.ceCount))
  BY <1>2, <1>4, <1>5 DEF Sliceable
<1> QED BY <1>1, <1>6 DEF WriteChunk

-----------------------------------------------------------------------------
(* The server.                                                             *)

LEMMA HttpStarts == Init => HttpInv /\ Ended
<1> SUFFICES ASSUME Init PROVE HttpInv /\ Ended
  OBVIOUS
<1>1. /\ MaxSize \in Nat /\ <<>> \in Seq(0 .. MaxSize) /\ Len(<<>>) = 0
      /\ NoAnswer \in Answers
  BY SizesAssumption, EmptySeq, AnswersTyped
<1>2. fresh \in BOOLEAN
  BY RequestsAssumption DEF Init
<1>3. TypeOK
  <2>1. body.buf = <<>> /\ body.len = 0 /\ body.len \in 0 .. Len(body.buf)
    BY <1>1 DEF Init
  <2>2. 0 \in 0 .. MaxSize
    BY <1>1
  <2> QED BY <1>1, <1>2, <2>1, <2>2 DEF Init, TypeOK
<1> QED BY <1>3
        DEF Init, HttpInv, Unsent, ReadReady, WriteReady, ChunksSoFar, HeadKnown, FaultsAnswered,
            Ended

LEMMA HttpStays == HttpInv /\ Ended /\ UNCHANGED vars => (HttpInv /\ Ended)'
<1> SUFFICES ASSUME HttpInv, Ended, UNCHANGED vars PROVE (HttpInv /\ Ended)'
  OBVIOUS
<1>1. UNCHANGED <<conf, req, file, fresh, changed, pc, head, fi, body, answer, sent, chunk, faults>>
  BY DEF vars
<1>2. /\ Ranged' = Ranged /\ Start' = Start /\ Early' = Early
      /\ Length(fi)' = Length(fi) /\ ParseFails(fi)' = ParseFails(fi)
      /\ Length(file.size)' = Length(file.size) /\ HeadOfFile' = HeadOfFile
      /\ HeadEarly' = HeadEarly
  BY <1>1 DEF Ranged, Start, Early, Length, ParseFails, HeadOfFile, HeadEarly
<1>3. TypeOK'
  BY <1>1 DEF HttpInv, TypeOK
<1>4. Unsent' /\ ReadReady' /\ ChunksSoFar' /\ FaultsAnswered'
  BY <1>1, <1>2 DEF HttpInv, Unsent, ReadReady, ChunksSoFar, FaultsAnswered
<1>5. WriteReady'
  BY <1>1, <1>2 DEF HttpInv, WriteReady
<1>6. HeadKnown'
  BY <1>1, <1>2 DEF HttpInv, HeadKnown
<1>7. ASSUME Answered PROVE Answered'
  <2>1. BodyRight'
    BY <1>1, <1>2, <1>3, <1>7 DEF Answered, BodyRight
  <2>2. LengthHonest'
    BY <1>1, <1>2, <1>7 DEF Answered, LengthHonest
  <2>3. HeadForetells'
    BY <1>1, <1>7 DEF Answered, HeadForetells
  <2> QED BY <2>1, <2>2, <2>3 DEF Answered
<1>8. Ended'
  BY <1>1, <1>7 DEF Ended
<1> QED BY <1>3, <1>4, <1>5, <1>6, <1>8 DEF HttpInv

LEMMA HttpGoesOn == HttpInv /\ Ended /\ [Next]_vars => (HttpInv /\ Ended)'
<1> SUFFICES ASSUME HttpInv, Ended, [Next]_vars PROVE (HttpInv /\ Ended)'
  OBVIOUS
<1>1. CASE handleHead \/ StatFails \/ Rewrite
  BY <1>1, HeadStep, StatFailsStep, RewriteStep DEF Ended
<1>2. CASE GetEarly \/ OpenFails \/ Open
  BY <1>2, GetEarlyStep, OpenFailsStep, OpenStep DEF Ended
<1>3. CASE ReadPanics \/ ReadFailed \/ NotModified \/ ReadOk
  BY <1>3, ReadPanicsStep, ReadFailedStep, NotModifiedStep, ReadOkStep DEF Ended
<1>4. CASE WriteBody \/ WriteChunk \/ ChunksEnd
  BY <1>4, WriteBodyStep, WriteChunkStep, ChunksEndStep DEF Ended
<1>5. CASE UNCHANGED vars
  BY <1>5, HttpStays
<1> QED BY <1>1, <1>2, <1>3, <1>4, <1>5 DEF Next

LEMMA HttpSafe == Spec => [](HttpInv /\ Ended)
BY HttpStarts, HttpGoesOn, PTL DEF Spec

LEMMA HttpAnswers == Spec => [](BodyRight /\ LengthHonest /\ HeadForetells)
<1>1. HttpInv /\ Ended => BodyRight
  BY DEF HttpInv, Ended, Answered, BodyRight
<1>2. HttpInv /\ Ended => LengthHonest
  BY DEF Ended, Answered, LengthHonest
<1>3. HttpInv /\ Ended => HeadForetells
  BY DEF Ended, Answered, HeadForetells
<1> QED BY <1>1, <1>2, <1>3, HttpSafe, PTL

LEMMA HttpPanics ==
  ASSUME \A c \in Confs : c.ceCount <= 3
  PROVE  Spec => []PanicExplained
<1>1. Init => PanicExplained
  BY DEF Init, PanicExplained
<1>2. HttpInv /\ PanicExplained /\ [Next]_vars => PanicExplained'
  <2> SUFFICES ASSUME HttpInv, PanicExplained, [Next]_vars PROVE PanicExplained'
    OBVIOUS
  <2>1. CASE ReadPanics
    BY <2>1, ReadPanicsStep
  <2>2. CASE WriteChunk
    <3>1. conf.ceCount <= 3
      BY DEF HttpInv, TypeOK
    <3> QED BY <2>2, <3>1, ChunksFit DEF PanicExplained
  <2>3. CASE UNCHANGED vars
    BY <2>3 DEF vars, PanicExplained, Ranged
  <2>4. CASE handleHead \/ StatFails \/ GetEarly \/ OpenFails \/ Open \/ ReadFailed \/ NotModified \/ ReadOk
             \/ WriteBody \/ ChunksEnd \/ Rewrite
    <3>1. pc' # "panicked"
      BY <2>4 DEF handleHead, StatFails, GetEarly, OpenFails, Open, ReadFailed, NotModified, ReadOk,
                  WriteBody, ChunksEnd, Rewrite, Answer
    <3> QED BY <3>1 DEF PanicExplained
  <2> QED BY <2>1, <2>2, <2>3, <2>4 DEF Next
<1> QED BY <1>1, <1>2, HttpSafe, PTL DEF Spec

-----------------------------------------------------------------------------
(* dummy-adds: counters that handlers share.                               *)

Taking == {h \in Handlers : addsPc[h] = "miss"}

\* What the counters count, up to whole laps.
CountersTrue ==
  /\ advIdx = served % Width
  /\ \A k \in Adds!Kinds :
       /\ idx[k] = Len(taken[k]) % Width
       /\ \A m \in 1 .. Len(taken[k]) : taken[k][m] = m % Width

\* Every Period-th request misses.
MissesSoFar ==
  served < Width =>
    Adds!MissesBegun = IF missRate > 0 /\ Adds!Period > 0 THEN served \div Adds!Period ELSE 0

AddsInv == Adds!TypeOK /\ CountersTrue /\ IsFiniteSet(Taking) /\ MissesSoFar

LEMMA Laps ==
  ASSUME NEW W \in Nat, W > 0, NEW x \in Nat
  PROVE  /\ x = W * (x \div W) + (x % W)
         /\ x \div W \in Nat /\ x % W \in 0 .. W - 1
OBVIOUS

LEMMA LapsAre ==
  ASSUME NEW W \in Nat, W > 0, NEW q \in Nat, NEW r \in 0 .. W - 1
  PROVE  (W * q + r) % W = r /\ (W * q + r) \div W = q
OBVIOUS

\* The number after the remainder of x is the one of x + 1; and a lap is over when
\* it is 0.
LEMMA NextLap ==
  ASSUME NEW W \in Nat, W > 0, NEW x \in Nat
  PROVE  /\ ((x % W) + 1) % W = (x + 1) % W
         /\ (x + 1) \div W = IF (x + 1) % W = 0 THEN (x \div W) + 1 ELSE x \div W
<1> DEFINE q == x \div W  r == x % W
<1>1. x = W * q + r /\ q \in Nat /\ r \in 0 .. W - 1
  BY Laps
<1> HIDE DEF q, r
<1>2. CASE r + 1 < W
  <2>1. r + 1 \in 0 .. W - 1 /\ 0 \in Nat
    BY <1>1, <1>2
  <2>2. (W * q + (r + 1)) % W = r + 1 /\ (W * q + (r + 1)) \div W = q
    BY <1>1, <2>1, LapsAre
  <2>3. (W * 0 + (r + 1)) % W = r + 1
    BY <2>1, LapsAre
  <2>4. W * q + (r + 1) = x + 1 /\ W * 0 + (r + 1) = r + 1 /\ r + 1 # 0
    BY <1>1
  <2> QED BY <2>2, <2>3, <2>4 DEF q, r
<1>3. CASE r + 1 = W
  <2>1. q + 1 \in Nat /\ 1 \in Nat /\ 0 \in 0 .. W - 1
    BY <1>1
  <2>2. (W * (q + 1) + 0) % W = 0 /\ (W * (q + 1) + 0) \div W = q + 1
    BY <2>1, LapsAre
  <2>3. (W * 1 + 0) % W = 0
    BY <2>1, LapsAre
  <2>4. W * (q + 1) + 0 = x + 1 /\ W * 1 + 0 = r + 1
    BY <1>1, <1>3
  <2> QED BY <2>2, <2>3, <2>4 DEF q, r
<1> QED BY <1>1, <1>2, <1>3

\* How far two numbers are apart, and their remainders.
LEMMA LapsApart ==
  ASSUME NEW W \in Nat, W > 0, NEW x \in Nat, NEW y \in Nat, x < y
  PROVE  /\ x % W < y % W => (y % W) - (x % W) <= y - x
         /\ x % W >= y % W => y - x >= W - (x % W)
<1> DEFINE q == x \div W  r == x % W  p == y \div W  s == y % W
<1>1. /\ x = W * q + r /\ q \in Nat /\ r \in 0 .. W - 1
      /\ y = W * p + s /\ p \in Nat /\ s \in 0 .. W - 1
  BY Laps
<1> HIDE DEF q, r, p, s
<1>2. y - x = W * (p - q) + (s - r)
  BY <1>1
<1>3. CASE p = q
  <2>1. y - x = s - r
    BY <1>1, <1>2, <1>3
  <2> QED BY <1>1, <2>1 DEF r, s
<1>4. CASE p - q >= 1
  <2>1. W * (p - q) >= W
    BY <1>1, <1>4
  <2>2. y - x >= W + (s - r)
    BY <1>1, <1>2, <2>1
  <2> QED BY <1>1, <2>2 DEF r, s
<1>5. CASE p - q <= -1
  <2>1. W * (p - q) <= - W
    BY <1>1, <1>5
  <2>2. y - x < 0
    BY <1>1, <1>2, <2>1
  <2> QED BY <2>2
<1> QED BY <1>1, <1>3, <1>4, <1>5

\* Numbers closer to each other than the ring is long have different names.
LEMMA NamesDiffer ==
  ASSUME Adds!SizesAssumption, NEW kindOf \in Adds!Kinds, NEW x \in Nat, NEW y \in Nat,
         x < y, y - x < Adds!Ring(kindOf)
  PROVE  Adds!Name(kindOf, x) # Adds!Name(kindOf, y)
<1> DEFINE R == Adds!Ring(kindOf)  u == x % R  v == y % R
<1>1. R \in Nat /\ R > 0
  BY DEF Adds!SizesAssumption, Adds!Ring
<1> HIDE DEF R
<1>2. u # v
  <2> SUFFICES ASSUME u = v PROVE FALSE
    OBVIOUS
  <2> DEFINE a == x \div R  b == y \div R
  <2>1. /\ x = R * a + u /\ a \in Nat /\ u \in 0 .. R - 1
        /\ y = R * b + v /\ b \in Nat /\ v \in 0 .. R - 1
    BY <1>1, Laps
  <2> HIDE DEF a, b, u, v
  <2>2. y - x = R * (b - a)
    BY <1>1, <2>1
  <2>3. CASE b - a >= 1
    <3>1. R * (b - a) >= R
      BY <1>1, <2>1, <2>3
    <3> QED BY <1>1, <2>2, <3>1 DEF R
  <2>4. CASE b - a <= 0
    <3>1. R * (b - a) <= 0
      BY <1>1, <2>1, <2>4
    <3> QED BY <1>1, <2>2, <3>1
  <2> QED BY <2>1, <2>3, <2>4
<1>3. u \in Nat /\ v \in Nat
  BY <1>1
<1>4. /\ Adds!Name(kindOf, x) = <<u % 2, (u \div 2) + 1>>
      /\ Adds!Name(kindOf, y) = <<v % 2, (v \div 2) + 1>>
  BY DEF Adds!Name, R
<1> HIDE DEF u, v
<1>5. /\ u = 2 * (u \div 2) + (u % 2) /\ u \div 2 \in Nat
      /\ v = 2 * (v \div 2) + (v % 2) /\ v \div 2 \in Nat
  BY <1>3
<1> QED BY <1>2, <1>4, <1>5

LEMMA AddsSets ==
  ASSUME NEW S
  PROVE  Adds!Cardinality(S) = Cardinality(S)
<1>1. Adds!IsFiniteSet(S) <=> IsFiniteSet(S)
  BY DEF IsFiniteSet, Adds!IsFiniteSet
<1> QED BY <1>1 DEF Cardinality, Adds!Cardinality

LEMMA AddsTyped ==
  ASSUME Adds!SizesAssumption, Adds!RatesAssumption, AddsInv
  PROVE  /\ Width \in Nat /\ Width > 0 /\ MaxRequests \in Nat
         /\ missRate \in Int /\ (missRate > 0 => Adds!Period \in Nat)
         /\ served \in Nat /\ served <= MaxRequests /\ panics \in Nat
         /\ advIdx = served % Width
         /\ \A h \in Handlers : addsPc[h] \in {"idle", "hit", "miss"}
         /\ \A k \in Adds!Kinds :
              /\ taken[k] \in Seq(0 .. Width - 1) /\ Len(taken[k]) \in Nat
              /\ idx[k] = Len(taken[k]) % Width
              /\ \A m \in 1 .. Len(taken[k]) : taken[k][m] = m % Width
         /\ IsFiniteSet(Taking) /\ Cardinality(Taking) \in Nat
         /\ Adds!MissesBegun = Len(taken["miss"]) + Cardinality(Taking)
<1>1. Width \in Nat /\ Width > 0 /\ MaxRequests \in Nat
  BY DEF Adds!SizesAssumption
<1>2. missRate \in Int
  BY DEF AddsInv, Adds!TypeOK, Adds!RatesAssumption
<1>3. missRate > 0 => Adds!Period \in Nat
  BY <1>2 DEF Adds!Period
<1>4. /\ served \in Nat /\ served <= MaxRequests /\ panics \in Nat
      /\ \A h \in Handlers : addsPc[h] \in {"idle", "hit", "miss"}
  BY <1>1 DEF AddsInv, Adds!TypeOK, Adds!Kinds
<1>5. \A k \in Adds!Kinds : taken[k] \in Seq(0 .. Width - 1) /\ Len(taken[k]) \in Nat
  BY LenProperties DEF AddsInv, Adds!TypeOK
<1>6. IsFiniteSet(Taking) /\ Cardinality(Taking) \in Nat
  BY FS_CardinalityType DEF AddsInv
<1>7. Adds!MissesBegun = Len(taken["miss"]) + Cardinality(Taking)
  BY AddsSets DEF Adds!MissesBegun, Taking
<1> QED BY <1>1, <1>2, <1>3, <1>4, <1>5, <1>6, <1>7 DEF AddsInv, CountersTrue

LEMMA BeginStep ==
  ASSUME Adds!SizesAssumption, Adds!RatesAssumption, AddsInv,
         NEW h \in Handlers, Adds!Begin(h)
  PROVE  AddsInv'
<1>1. /\ addsPc[h] = "idle" /\ served < MaxRequests /\ served' = served + 1
      /\ advIdx' = (advIdx + 1) % Width
      /\ UNCHANGED <<missRate, idx, taken>>
  BY DEF Adds!Begin
<1>2. /\ Width \in Nat /\ Width > 0 /\ MaxRequests \in Nat
      /\ missRate \in Int /\ (missRate > 0 => Adds!Period \in Nat)
      /\ served \in Nat /\ panics \in Nat /\ advIdx = served % Width
      /\ IsFiniteSet(Taking) /\ Cardinality(Taking) \in Nat
      /\ Adds!MissesBegun = Len(taken["miss"]) + Cardinality(Taking)
      /\ Len(taken["miss"]) \in Nat
  BY AddsTyped DEF Adds!Kinds
<1>3. advIdx' = served' % Width /\ advIdx' \in 0 .. Width - 1
  <2>1. ((served % Width) + 1) % Width = (served + 1) % Width
    BY <1>2, NextLap
  <2>2. served + 1 \in Nat
    BY <1>2
  <2>3. (served + 1) % Width \in 0 .. Width - 1
    BY <1>2, <2>2, Laps
  <2> QED BY <1>1, <1>2, <2>1, <2>3
<1>4. CountersTrue'
  BY <1>1, <1>3 DEF AddsInv, CountersTrue
<1>5. served' < Width => served < Width /\ advIdx' = served + 1
  BY <1>1, <1>2, <1>3
<1>6. CASE missRate > 0 /\ Adds!Period = 0
  <2>1. addsPc' = addsPc /\ panics' = panics + 1
    BY <1>6 DEF Adds!Begin
  <2>2. Adds!TypeOK'
    <3>1. served' \in 0 .. MaxRequests /\ panics' \in 0 .. served'
      <4>1. panics \in 0 .. served
        BY DEF AddsInv, Adds!TypeOK
      <4> QED BY <1>1, <1>2, <2>1, <4>1
    <3> QED BY <1>1, <1>3, <2>1, <3>1 DEF AddsInv, Adds!TypeOK
  <2>3. Taking' = Taking
    BY <2>1 DEF Taking
  <2>4. MissesSoFar'
    BY <1>1, <1>5, <1>6, <2>1 DEF AddsInv, MissesSoFar, Adds!MissesBegun, Adds!Period
  <2> QED BY <1>4, <2>2, <2>3, <2>4 DEF AddsInv
<1>7. CASE ~(missRate > 0 /\ Adds!Period = 0)
  <2>1. /\ addsPc' = [addsPc EXCEPT ![h] = IF Adds!MissAt(advIdx') THEN "miss" ELSE "hit"]
        /\ panics' = panics
    BY <1>7 DEF Adds!Begin
  <2>2. addsPc \in [Handlers -> {"idle"} \cup Adds!Kinds]
    BY DEF AddsInv, Adds!TypeOK
  <2>3. Adds!TypeOK'
    <3>1. served' \in 0 .. MaxRequests /\ panics' \in 0 .. served'
      <4>1. panics \in 0 .. served
        BY DEF AddsInv, Adds!TypeOK
      <4> QED BY <1>1, <1>2, <2>1, <4>1
    <3>2. addsPc' \in [Handlers -> {"idle"} \cup Adds!Kinds]
      BY <2>1, <2>2 DEF Adds!Kinds
    <3> QED BY <1>1, <1>3, <3>1, <3>2 DEF AddsInv, Adds!TypeOK
  <2>4. /\ Adds!MissAt(advIdx') => Taking' = Taking \cup {h} /\ h \notin Taking
        /\ ~Adds!MissAt(advIdx') => Taking' = Taking
    BY <1>1, <2>1, <2>2 DEF Taking
  <2>5. /\ IsFiniteSet(Taking')
        /\ Cardinality(Taking') = Cardinality(Taking) + IF Adds!MissAt(advIdx') THEN 1 ELSE 0
    BY <1>2, <2>4, FS_AddElement
  <2>6. MissesSoFar'
    <3> SUFFICES ASSUME served' < Width
                 PROVE  Adds!MissesBegun' = IF missRate > 0 /\ Adds!Period > 0
                                            THEN served' \div Adds!Period ELSE 0
      BY <1>1 DEF MissesSoFar, Adds!Period
    <3>1. Adds!MissesBegun' = Adds!MissesBegun + IF Adds!MissAt(advIdx') THEN 1 ELSE 0
      <4>1. Adds!MissesBegun' = Len(taken'["miss"]) + Cardinality(Taking')
        BY AddsSets DEF Adds!MissesBegun, Taking
      <4> QED BY <1>1, <1>2, <2>5, <4>1
    <3>2. Adds!MissesBegun = IF missRate > 0 /\ Adds!Period > 0 THEN served \div Adds!Period ELSE 0
      BY <1>5 DEF AddsInv, MissesSoFar
    <3>3. CASE missRate > 0
      <4>1. Adds!Period \in Nat /\ Adds!Period > 0
        BY <1>2, <1>7, <3>3
      <4>2. Adds!MissAt(advIdx') <=> (served + 1) % Adds!Period = 0
        BY <1>5, <3>3 DEF Adds!MissAt
      <4>3. (served + 1) \div Adds!Period =
              IF (served + 1) % Adds!Period = 0 THEN (served \div Adds!Period) + 1
              ELSE served \div Adds!Period
        BY <1>2, <4>1, NextLap
      <4>4. served \div Adds!Period \in Nat
        BY <1>2, <4>1, Laps
      <4> QED BY <1>1, <3>1, <3>2, <3>3, <4>1, <4>2, <4>3, <4>4
    <3>4. CASE ~(missRate > 0)
      BY <3>1, <3>2, <3>4 DEF Adds!MissAt
    <3> QED BY <3>3, <3>4
  <2> QED BY <1>4, <2>3, <2>5, <2>6 DEF AddsInv
<1> QED BY <1>6, <1>7

LEMMA TakeNameStep ==
  ASSUME Adds!SizesAssumption, Adds!RatesAssumption, AddsInv,
         NEW h \in Handlers, Adds!TakeName(h)
  PROVE  AddsInv'
<1> DEFINE k == addsPc[h]  m == (idx[k] + 1) % Width
<1>1. /\ k \in Adds!Kinds
      /\ idx' = [idx EXCEPT ![k] = m]
      /\ taken' = [taken EXCEPT ![k] = Append(@, m)]
      /\ addsPc' = [addsPc EXCEPT ![h] = "idle"]
      /\ UNCHANGED <<missRate, advIdx, served, panics>>
  BY DEF Adds!TakeName
<1>2. /\ Width \in Nat /\ Width > 0
      /\ taken[k] \in Seq(0 .. Width - 1) /\ Len(taken[k]) \in Nat
      /\ idx[k] = Len(taken[k]) % Width
      /\ \A l \in 1 .. Len(taken[k]) : taken[k][l] = l % Width
      /\ IsFiniteSet(Taking) /\ Cardinality(Taking) \in Nat
      /\ Adds!MissesBegun = Len(taken["miss"]) + Cardinality(Taking)
      /\ Len(taken["miss"]) \in Nat
  BY <1>1, AddsTyped DEF Adds!Kinds
<1>3. /\ idx \in [Adds!Kinds -> 0 .. Width - 1] /\ taken \in [Adds!Kinds -> Seq(0 .. Width - 1)]
      /\ addsPc \in [Handlers -> {"idle"} \cup Adds!Kinds]
  BY DEF AddsInv, Adds!TypeOK
<1>4. m = (Len(taken[k]) + 1) % Width /\ m \in 0 .. Width - 1
  <2>1. ((Len(taken[k]) % Width) + 1) % Width = (Len(taken[k]) + 1) % Width
    BY <1>2, NextLap
  <2>2. Len(taken[k]) + 1 \in Nat
    BY <1>2
  <2>3. (Len(taken[k]) + 1) % Width \in 0 .. Width - 1
    BY <1>2, <2>2, Laps
  <2> QED BY <1>2, <2>1, <2>3
<1> HIDE DEF m, k
<1>5. /\ Append(taken[k], m) \in Seq(0 .. Width - 1)
      /\ Len(Append(taken[k], m)) = Len(taken[k]) + 1
      /\ \A l \in 1 .. Len(taken[k]) : Append(taken[k], m)[l] = taken[k][l]
      /\ Append(taken[k], m)[Len(taken[k]) + 1] = m
  <2>1. \A seq \in Seq(0 .. Width - 1) : \A elt \in 0 .. Width - 1 :
          /\ Append(seq, elt) \in Seq(0 .. Width - 1) /\ Len(Append(seq, elt)) = Len(seq) + 1
          /\ \A l \in 1 .. Len(seq) : Append(seq, elt)[l] = seq[l]
          /\ Append(seq, elt)[Len(seq) + 1] = elt
    BY AppendProperties
  <2> QED BY ONLY <2>1, <1>2, <1>4
<1>6. /\ taken'[k] = Append(taken[k], m) /\ idx'[k] = m
      /\ \A kk \in Adds!Kinds : kk # k => taken'[kk] = taken[kk] /\ idx'[kk] = idx[kk]
  BY <1>1, <1>3
<1>7. Adds!TypeOK'
  <2>1. /\ idx' \in [Adds!Kinds -> 0 .. Width - 1]
        /\ taken' \in [Adds!Kinds -> Seq(0 .. Width - 1)]
        /\ addsPc' \in [Handlers -> {"idle"} \cup Adds!Kinds]
    BY <1>1, <1>3, <1>4, <1>5
  <2> QED BY <1>1, <2>1 DEF AddsInv, Adds!TypeOK
<1>8. CountersTrue'
  <2> SUFFICES ASSUME NEW kk \in Adds!Kinds
               PROVE  /\ idx'[kk] = Len(taken'[kk]) % Width
                      /\ \A l \in 1 .. Len(taken'[kk]) : taken'[kk][l] = l % Width
    BY <1>1 DEF AddsInv, CountersTrue
  <2>1. CASE kk = k
    <3>1. idx'[k] = Len(taken'[k]) % Width
      BY <1>4, <1>5, <1>6
    <3>2. ASSUME NEW l \in 1 .. Len(taken[k]) + 1
          PROVE  Append(taken[k], m)[l] = l % Width
      <4>1. \A n \in Nat : \A g \in 1 .. n + 1 : g \in 1 .. n \/ g = n + 1
        OBVIOUS
      <4>2. l \in 1 .. Len(taken[k]) \/ l = Len(taken[k]) + 1
        BY ONLY <1>2, <4>1, <3>2
      <4> QED BY <1>2, <1>4, <1>5, <4>2
    <3> QED BY <1>5, <1>6, <2>1, <3>1, <3>2
  <2>2. CASE kk # k
    BY <1>6, <2>2 DEF AddsInv, CountersTrue
  <2> QED BY <2>1, <2>2
<1>9. IsFiniteSet(Taking') /\ Adds!MissesBegun' = Adds!MissesBegun
  <2>1. Adds!MissesBegun' = Len(taken'["miss"]) + Cardinality(Taking')
    BY AddsSets DEF Adds!MissesBegun, Taking
  <2>2. CASE k = "miss"
    <3>1. h \in Taking /\ Taking' = Taking \ {h}
      BY <1>1, <1>3, <2>2 DEF Taking, k
    <3>2. IsFiniteSet(Taking') /\ Cardinality(Taking') = Cardinality(Taking) - 1
      BY <1>2, <3>1, FS_RemoveElement
    <3>3. Len(taken'["miss"]) = Len(taken["miss"]) + 1
      BY <1>5, <1>6, <2>2
    <3> QED BY <1>2, <2>1, <3>2, <3>3
  <2>3. CASE k = "hit"
    <3>1. Taking' = Taking
      BY <1>1, <1>3, <2>3 DEF Taking, k
    <3>2. taken'["miss"] = taken["miss"]
      BY <1>6, <2>3 DEF Adds!Kinds
    <3> QED BY <1>2, <2>1, <3>1, <3>2
  <2> QED BY <1>1, <2>2, <2>3 DEF Adds!Kinds
<1>10. MissesSoFar'
  BY <1>1, <1>9 DEF AddsInv, MissesSoFar, Adds!Period
<1> QED BY <1>7, <1>8, <1>9, <1>10 DEF AddsInv

LEMMA AddsStarts ==
  ASSUME Adds!SizesAssumption, Adds!RatesAssumption
  PROVE  Adds!Init => AddsInv
<1> SUFFICES ASSUME Adds!Init PROVE AddsInv
  OBVIOUS
<1>1. Width \in Nat /\ Width > 0 /\ MaxRequests \in Nat
  BY DEF Adds!SizesAssumption
<1>2. <<>> \in Seq(0 .. Width - 1) /\ Len(<<>>) = 0 /\ "miss" \in Adds!Kinds
  BY EmptySeq DEF Adds!Kinds
<1>3. 0 % Width = 0 /\ 0 \in 0 .. Width - 1
  BY <1>1
<1>4. Adds!TypeOK
  BY <1>1, <1>2, <1>3 DEF Adds!Init, Adds!TypeOK
<1>5. CountersTrue
  BY <1>2, <1>3 DEF Adds!Init, CountersTrue
<1>6. Taking = {}
  BY DEF Adds!Init, Taking
<1>7. IsFiniteSet(Taking) /\ Cardinality(Taking) = 0
  BY <1>6, FS_EmptySet
<1>8. Adds!MissesBegun = 0
  <2>1. Adds!MissesBegun = Len(taken["miss"]) + Cardinality(Taking)
    BY AddsSets DEF Adds!MissesBegun, Taking
  <2> QED BY <1>2, <1>7, <2>1 DEF Adds!Init
<1>9. MissesSoFar
  <2>1. \A q \in Nat : q > 0 => 0 \div q = 0
    OBVIOUS
  <2>2. missRate > 0 => Adds!Period \in Nat
    BY DEF Adds!Init, Adds!RatesAssumption, Adds!Period
  <2>3. served = 0
    BY DEF Adds!Init
  <2> QED BY <1>8, <2>1, <2>2, <2>3 DEF MissesSoFar
<1> QED BY <1>4, <1>5, <1>7, <1>9 DEF AddsInv

\* What the counters are comes to what the names are.
LEMMA CountersRotate ==
  ASSUME Adds!SizesAssumption, Adds!RatesAssumption, AddsInv
  PROVE  Adds!NamesRotate
<1>1. ASSUME NEW k \in Adds!Kinds, NEW a \in 1 .. Len(taken[k]), NEW b \in 1 .. Len(taken[k])
      PROVE  /\ a < b /\ b < a + Adds!Ring(k) /\ taken[k][a] < taken[k][b]
                  => Adds!Name(k, taken[k][a]) # Adds!Name(k, taken[k][b])
             /\ a < b /\ taken[k][a] >= taken[k][b] => b - a >= Width - taken[k][a]
  <2>1. /\ Width \in Nat /\ Width > 0 /\ Len(taken[k]) \in Nat
        /\ taken[k][a] = a % Width /\ taken[k][b] = b % Width
    BY AddsTyped
  <2>2. a \in Nat /\ b \in Nat /\ Adds!Ring(k) \in Nat
    BY <2>1 DEF Adds!SizesAssumption, Adds!Ring
  <2>3. a % Width \in 0 .. Width - 1 /\ b % Width \in 0 .. Width - 1
    BY <2>1, <2>2, Laps
  <2>4. a < b => /\ a % Width < b % Width => (b % Width) - (a % Width) <= b - a
                 /\ a % Width >= b % Width => b - a >= Width - (a % Width)
    BY <2>1, <2>2, LapsApart
  <2>5. ASSUME a < b, b < a + Adds!Ring(k), a % Width < b % Width
        PROVE  Adds!Name(k, a % Width) # Adds!Name(k, b % Width)
    <3>1. a % Width \in Nat /\ b % Width \in Nat
      BY <2>1, <2>3
    <3>2. (b % Width) - (a % Width) < Adds!Ring(k)
      BY <2>2, <2>4, <2>5, <3>1
    <3> QED BY <2>5, <3>1, <3>2, NamesDiffer
  <2> QED BY <2>1, <2>4, <2>5
<1> QED BY <1>1 DEF AddsInv, Adds!NamesRotate

LEMMA Division ==
  ASSUME NEW a \in Nat, NEW q \in Nat, q > 0
  PROVE  /\ a = q * (a \div q) + (a % q)
         /\ a \div q \in Nat /\ a % q \in 0 .. q - 1
OBVIOUS

\* One in every 100 \div r requests is not a whole request behind r percent, and
\* not ahead of it if r divides 100.
LEMMA PeriodIsPercent ==
  ASSUME NEW r \in 1 .. 100, NEW n \in Nat
  PROVE  LET p == 100 \div r IN
         /\ p \in Nat /\ p > 0
         /\ 100 * (n \div p) > r * n - 100
         /\ 100 % r = 0 => 100 * (n \div p) <= r * n
<1> DEFINE p == 100 \div r  b == n \div p
<1>1. p \in Nat /\ p > 0 /\ 100 = r * p + (100 % r) /\ 100 % r \in 0 .. r - 1
  <2>1. p \in Nat /\ 100 = r * p + (100 % r) /\ 100 % r \in 0 .. r - 1
    BY Division
  <2> HIDE DEF p
  <2>2. p # 0
    <3>1. p = 0 => r * p = 0
      OBVIOUS
    <3> QED BY <2>1, <3>1
  <2> QED BY <2>1, <2>2
<1> HIDE DEF p
<1>2. b \in Nat /\ n = p * b + (n % p) /\ n % p \in 0 .. p - 1
  BY <1>1
<1>3. n < p * (b + 1) /\ p * b <= n
  BY <1>1, <1>2
<1> HIDE DEF b
<1>4. \A x, y \in Nat : x <= y => r * x <= r * y
  OBVIOUS
<1>5. r * p <= 100 /\ (100 % r = 0 => r * p = 100)
  BY <1>1
<1>6. /\ \A q \in Nat : q > 0 => (r * p) * q <= 100 * q
      /\ r * (p * (b + 1)) = (r * p) * (b + 1) /\ r * (p * b) = (r * p) * b
  BY <1>1, <1>2, <1>5
<1>7. r * n < r * (p * (b + 1))
  BY <1>1, <1>2, <1>3
<1>8. r * n < 100 * b + 100
  <2>1. (r * p) * (b + 1) <= 100 * (b + 1)
    BY <1>2, <1>6
  <2> QED BY <1>1, <1>2, <1>6, <1>7, <2>1
<1>9. ASSUME 100 % r = 0 PROVE 100 * b <= r * n
  <2>1. r * (p * b) <= r * n
    BY <1>1, <1>2, <1>3, <1>4
  <2> QED BY <1>2, <1>5, <1>6, <1>9, <2>1
<1> QED BY <1>1, <1>2, <1>8, <1>9 DEF p, b

LEMMA AddsSafe ==
  ASSUME Adds!SizesAssumption, Adds!RatesAssumption
  PROVE  Adds!Spec => []Adds!RequestsCounted
<1>1. AddsInv /\ [Adds!Next]_(Adds!vars) => AddsInv'
  <2> SUFFICES ASSUME AddsInv, [Adds!Next]_(Adds!vars) PROVE AddsInv'
    OBVIOUS
  <2>1. CASE UNCHANGED Adds!vars
    BY <2>1 DEF Adds!vars, AddsInv, Adds!TypeOK, CountersTrue, Taking, MissesSoFar,
                Adds!MissesBegun, Adds!Period
  <2> QED BY <2>1, BeginStep, TakeNameStep DEF Adds!Next
<1>2. AddsInv => Adds!RequestsCounted
  <2> SUFFICES ASSUME AddsInv, served < Width PROVE Adds!MissesCounted
    BY CountersRotate DEF AddsInv, Adds!RequestsCounted, Adds!MissesCounted
  <2>1. missRate \in Int /\ served \in Nat
    BY AddsTyped
  <2>2. Adds!MissesBegun = IF missRate > 0 /\ Adds!Period > 0 THEN served \div Adds!Period ELSE 0
    BY DEF AddsInv, MissesSoFar
  <2>3. missRate \in 1 .. 100 =>
          /\ 100 * Adds!MissesBegun > missRate * served - 100
          /\ 100 % missRate = 0 => 100 * Adds!MissesBegun <= missRate * served
    <3> SUFFICES ASSUME missRate \in 1 .. 100
                 PROVE  /\ 100 * Adds!MissesBegun > missRate * served - 100
                        /\ 100 % missRate = 0 => 100 * Adds!MissesBegun <= missRate * served
      OBVIOUS
    <3>1. /\ Adds!Period > 0
          /\ 100 * (served \div Adds!Period) > missRate * served - 100
          /\ 100 % missRate = 0 => 100 * (served \div Adds!Period) <= missRate * served
      BY <2>1, PeriodIsPercent DEF Adds!Period
    <3>2. Adds!MissesBegun = served \div Adds!Period
      BY <2>1, <2>2, <3>1
    <3> QED BY <3>1, <3>2
  <2>4. missRate <= 0 => Adds!MissesBegun = 0
    BY <2>1, <2>2
  <2> QED BY <2>3, <2>4 DEF Adds!MissesCounted
<1> QED BY <1>1, <1>2, AddsStarts, PTL DEF Adds!Spec

-----------------------------------------------------------------------------
(* agingcp: runs over one directory, some of which die.                      *)

\* Where a run is, and what it is made for.
RunInPlace ==
  /\ Aging!Running => place \in 1 .. Len(Order) /\ Aging!Takes(job, Aging!Now) /\ runs > 0
  /\ cpPc = "purge" => job.mode = "purge"
  /\ cpPc \in {"import", "link"} => job.mode # "purge"
  /\ cpPc \in {"create", "copy"} => job.mode = "copy"
  /\ cpPc = "copy" => entry[Aging!Now] # "none"

\* What a run promises of a name it is through with, and the file that is being
\* written.
Honest(n) ==
  /\ job.mode # "purge" => \/ Aging!Reads(n) = "whole"
                           \/ data[Aging!Source(n.src)] # "whole"
                           \/ job.mode = "link" /\ job.relative
  /\ job.mode = "link" => madeIn[n] = runs
  /\ job.mode = "purge" => n \notin cached
Rewritten(n) == cpPc = "copy" /\ Aging!Behind(n) = Aging!Behind(Aging!Now)

Through(p) == (Aging!Running /\ p < place) \/ (cpPc = "ended" /\ runs > 0)
ThroughHonest ==
  \A p \in 1 .. Len(Order) :
    Aging!Takes(job, Order[p]) /\ Through(p) => Honest(Order[p]) \/ Rewritten(Order[p])

\* Names made by this run are not before it.
MadeByThis ==
  /\ \A n \in Aging!Names : madeIn[n] <= runs
  /\ Aging!Running =>
       \A p \in 1 .. Len(Order) : entry[Order[p]] # "none" /\ madeIn[Order[p]] = runs =>
         p < place \/ (p = place /\ cpPc = "copy")

AgingInv == Aging!TypeOK /\ RunInPlace /\ ThroughHonest /\ MadeByThis

\* A call of the program changes the files behind one name only by emptying or
\* filling it; what harms a source is seen at the step.
HarmSeen ==
  \A s \in Aging!Sources :
    data[Aging!Source(s)] = "whole" /\ data'[Aging!Source(s)] # "whole" =>
      \E n \in Aging!Names : /\ n.src = s /\ n = Aging!Now /\ job.mode = "copy"
                             /\ entry[n] \in {"hard", "sym"} /\ madeIn[n] < runs

LEMMA AgingOrder ==
  ASSUME Aging!OrderAssumption
  PROVE  /\ Len(Order) \in Nat
         /\ \A p \in 1 .. Len(Order) : Order[p] \in Aging!Names
         /\ \A n \in Aging!Names : n.src \in Aging!Sources /\ \E p \in 1 .. Len(Order) : Order[p] = n
<1>1. Len(Order) \in Nat
  BY LenProperties DEF Aging!OrderAssumption
<1> QED BY <1>1 DEF Aging!Names, Aging!Sources

\* Every name has a file behind it, and names with one file have one source.
LEMMA FilesBehind ==
  ASSUME Aging!TypeOK, NEW n \in Aging!Names, NEW m \in Aging!Names,
         n.src \in Aging!Sources, m.src \in Aging!Sources
  PROVE  /\ Aging!Behind(n) \in Aging!FilesOnDisk
         /\ Aging!Source(n.src) \in Aging!FilesOnDisk
         /\ Aging!Behind(n) = Aging!Behind(m) => n.src = m.src
         /\ \A s : Aging!Behind(n) = Aging!Source(s) => n.src = s /\ entry[n] \in {"hard", "sym"}
<1>1. entry[n] \in {"none", "own", "hard", "sym", "astray"}
  BY DEF Aging!TypeOK
<1>2. entry[m] \in {"none", "own", "hard", "sym", "astray"}
  BY DEF Aging!TypeOK
<1>3. \/ entry[n] \in {"none", "own"} /\ Aging!Behind(n) = <<"own", n>>
      \/ entry[n] \in {"hard", "sym"} /\ Aging!Behind(n) = <<"source", n.src>>
      \/ entry[n] = "astray" /\ Aging!Behind(n) = <<"beside", n.src>>
  BY <1>1 DEF Aging!Behind, Aging!Own, Aging!Source, Aging!Beside
<1>4. \/ entry[m] \in {"none", "own"} /\ Aging!Behind(m) = <<"own", m>>
      \/ entry[m] \in {"hard", "sym"} /\ Aging!Behind(m) = <<"source", m.src>>
      \/ entry[m] = "astray" /\ Aging!Behind(m) = <<"beside", m.src>>
  BY <1>2 DEF Aging!Behind, Aging!Own, Aging!Source, Aging!Beside
<1>5. /\ <<"own", n>> \in Aging!FilesOnDisk /\ <<"source", n.src>> \in Aging!FilesOnDisk
      /\ <<"beside", n.src>> \in Aging!FilesOnDisk
  BY DEF Aging!FilesOnDisk, Aging!Own, Aging!Source, Aging!Beside
<1>6. Aging!Behind(n) \in Aging!FilesOnDisk /\ Aging!Source(n.src) \in Aging!FilesOnDisk
  BY <1>3, <1>5 DEF Aging!Source
<1>7. Aging!Behind(n) = Aging!Behind(m) => n.src = m.src
  BY <1>3, <1>4
<1>8. \A s : Aging!Behind(n) = Aging!Source(s) => n.src = s /\ entry[n] \in {"hard", "sym"}
  BY <1>3 DEF Aging!Source
<1> QED BY <1>6, <1>7, <1>8

\* The next name, if there is one, and none between.
LEMMA GoesOn ==
  ASSUME Aging!OrderAssumption, NEW p \in 0 .. Len(Order), NEW jj \in Aging!Jobs,
         Aging!GoOn(p, jj)
  PROVE  /\ place' \in 0 .. Len(Order)
         /\ \/ /\ place' \in 1 .. Len(Order) /\ p < place' /\ Aging!Takes(jj, Order[place'])
               /\ cpPc' \in {"purge", "import", "link"}
               /\ cpPc' = "purge" <=> jj.mode = "purge"
               /\ \A r \in 1 .. Len(Order) : p < r /\ r < place' => ~Aging!Takes(jj, Order[r])
            \/ /\ cpPc' = "ended"
               /\ \A r \in 1 .. Len(Order) : p < r => ~Aging!Takes(jj, Order[r])
<1>1. Len(Order) \in Nat
  BY AgingOrder
<1>3. CASE \E q \in p + 1 .. Len(Order) :
             /\ Aging!Takes(jj, Order[q])
             /\ \A r \in p + 1 .. q - 1 : ~Aging!Takes(jj, Order[r])
             /\ place' = q /\ cpPc' = Aging!FirstStep(jj)
  <2>1. /\ place' \in p + 1 .. Len(Order) /\ Aging!Takes(jj, Order[place'])
        /\ \A r \in p + 1 .. place' - 1 : ~Aging!Takes(jj, Order[r])
        /\ cpPc' = Aging!FirstStep(jj)
    BY <1>3
  <2>2. cpPc' \in {"purge", "import", "link"} /\ (cpPc' = "purge" <=> jj.mode = "purge")
    BY <2>1 DEF Aging!FirstStep, Aging!Jobs
  <2>3. place' \in 1 .. Len(Order) /\ p < place' /\ place' \in Nat /\ p \in Nat
    BY <1>1, <2>1
  <2>4. \A r \in 1 .. Len(Order) : p < r /\ r < place' => r \in p + 1 .. place' - 1
    <3> SUFFICES ASSUME NEW r \in 1 .. Len(Order), p < r, r < place'
                 PROVE  r \in p + 1 .. place' - 1
      OBVIOUS
    <3>1. \A a, b, c \in Nat : a < b /\ b < c => b \in a + 1 .. c - 1
      OBVIOUS
    <3>2. r \in Nat
      BY <1>1
    <3> QED BY ONLY <2>3, <3>1, <3>2, p < r, r < place'
  <2>5. place' \in 0 .. Len(Order)
    BY <1>1, <2>3
  <2> QED BY <2>1, <2>2, <2>3, <2>4, <2>5
<1>4. CASE /\ \A r \in p + 1 .. Len(Order) : ~Aging!Takes(jj, Order[r])
           /\ place' = 0 /\ cpPc' = "ended"
  <2>1. \A r \in 1 .. Len(Order) : p < r => r \in p + 1 .. Len(Order)
    BY <1>1
  <2> QED BY <1>1, <1>4, <2>1
<1> QED BY <1>3, <1>4 DEF Aging!GoOn

LEMMA AgingStart ==
  ASSUME Aging!OrderAssumption, AgingInv, NEW jj \in Aging!Jobs, Aging!Start(jj), MaxRuns \in Nat
  PROVE  AgingInv' /\ HarmSeen
<1>1. /\ ~Aging!Running /\ runs < MaxRuns /\ runs' = runs + 1 /\ job' = jj
      /\ Aging!GoOn(0, jj)
      /\ entry' = entry /\ data' = data /\ madeIn' = madeIn
      /\ cached' = cached /\ sameVolume' = sameVolume
  BY DEF Aging!Start, Aging!disk
<1>2. Len(Order) \in Nat /\ 0 \in 0 .. Len(Order)
  BY AgingOrder
<1>3. /\ place' \in 0 .. Len(Order)
      /\ \/ /\ place' \in 1 .. Len(Order) /\ 0 < place' /\ Aging!Takes(jj, Order[place'])
            /\ cpPc' \in {"purge", "import", "link"}
            /\ cpPc' = "purge" <=> jj.mode = "purge"
            /\ \A r \in 1 .. Len(Order) : 0 < r /\ r < place' => ~Aging!Takes(jj, Order[r])
         \/ /\ cpPc' = "ended"
            /\ \A r \in 1 .. Len(Order) : 0 < r => ~Aging!Takes(jj, Order[r])
  BY <1>1, <1>2, GoesOn
<1>4. /\ runs \in 0 .. MaxRuns /\ runs' \in 0 .. MaxRuns /\ runs' > 0 /\ runs < runs'
      /\ \A n \in Aging!Names : madeIn[n] \in 0 .. MaxRuns
  BY <1>1 DEF AgingInv, Aging!TypeOK
<1>5. Aging!TypeOK'
  BY <1>1, <1>3, <1>4 DEF AgingInv, Aging!TypeOK
<1>6. RunInPlace'
  BY <1>1, <1>3, <1>4 DEF RunInPlace, Aging!Running, Aging!Now
<1>7. ThroughHonest'
  BY <1>1, <1>2, <1>3 DEF ThroughHonest, Through, Aging!Running
<1>8. \A n \in Aging!Names : madeIn[n] <= runs /\ madeIn[n] < runs' /\ madeIn[n] <= runs'
  BY <1>4 DEF AgingInv, MadeByThis
<1>9. MadeByThis'
  BY <1>1, <1>8, AgingOrder DEF MadeByThis
<1> QED BY <1>1, <1>5, <1>6, <1>7, <1>9 DEF AgingInv, HarmSeen

\* A run is through with the name it is at.
LEMMA NameIsDone ==
  ASSUME Aging!OrderAssumption, AgingInv, Aging!Running, Aging!GoOn(place, job),
         job' = job, runs' = runs, sameVolume' = sameVolume, Aging!TypeOK',
         \A p \in 1 .. Len(Order) : Aging!Takes(job, Order[p]) /\ p <= place => Honest(Order[p])',
         \A n \in Aging!Names : madeIn'[n] <= runs,
         \A p \in 1 .. Len(Order) : entry'[Order[p]] # "none" /\ madeIn'[Order[p]] = runs => p <= place
  PROVE  AgingInv'
<1>1. Len(Order) \in Nat /\ place \in 0 .. Len(Order) /\ place \in 1 .. Len(Order) /\ runs > 0
  BY AgingOrder DEF AgingInv, RunInPlace
<1>2. job \in Aging!Jobs
  BY DEF AgingInv, Aging!TypeOK
<1>3. /\ place' \in 0 .. Len(Order)
      /\ \/ /\ place' \in 1 .. Len(Order) /\ place < place' /\ Aging!Takes(job, Order[place'])
            /\ cpPc' \in {"purge", "import", "link"}
            /\ cpPc' = "purge" <=> job.mode = "purge"
            /\ \A r \in 1 .. Len(Order) : place < r /\ r < place' => ~Aging!Takes(job, Order[r])
         \/ /\ cpPc' = "ended"
            /\ \A r \in 1 .. Len(Order) : place < r => ~Aging!Takes(job, Order[r])
  BY <1>1, <1>2, GoesOn
<1>4. RunInPlace'
  BY <1>1, <1>3 DEF RunInPlace, Aging!Running, Aging!Now
<1>5. \A p \in 1 .. Len(Order) : Aging!Takes(job, Order[p]) /\ Through(p)' => p <= place
  <2> SUFFICES ASSUME NEW p \in 1 .. Len(Order), Aging!Takes(job, Order[p]), Through(p)', ~(p <= place)
               PROVE  FALSE
    OBVIOUS
  <2>1. place < p
    BY <1>1
  <2>2. cpPc' # "ended"
    BY <1>3, <2>1
  <2>3. p < place' /\ place' \in 1 .. Len(Order)
    BY <1>3, <2>2 DEF Through
  <2> QED BY <1>3, <2>1, <2>2, <2>3
<1>6. ThroughHonest'
  BY <1>5 DEF ThroughHonest
<1>7. MadeByThis'
  <2>1. \A p \in 1 .. Len(Order) : p <= place /\ cpPc' # "ended" => p < place'
    BY <1>1, <1>3
  <2> QED BY <1>3, <2>1 DEF MadeByThis, Aging!Running
<1> QED BY <1>4, <1>6, <1>7 DEF AgingInv

LEMMA AgingAt ==
  ASSUME Aging!OrderAssumption, AgingInv, Aging!Running
  PROVE  /\ place \in 1 .. Len(Order) /\ Aging!Now \in Aging!Names
         /\ Aging!Now.src \in Aging!Sources
         /\ \A p \in 1 .. Len(Order) :
              /\ Order[p] \in Aging!Names /\ Order[p].src \in Aging!Sources
              /\ Order[p] = Aging!Now <=> p = place
              /\ p <= place <=> p < place \/ p = place
         /\ runs \in 0 .. MaxRuns
         /\ \A n \in Aging!Names : madeIn[n] <= runs
<1>1. Len(Order) \in Nat /\ place \in 1 .. Len(Order)
  BY AgingOrder DEF AgingInv, RunInPlace
<1>2. \A p \in 1 .. Len(Order) : Order[p] = Order[place] <=> p = place
  BY <1>1 DEF Aging!OrderAssumption
<1>3. \A p \in 1 .. Len(Order) : p <= place <=> p < place \/ p = place
  BY <1>1
<1>4. runs \in 0 .. MaxRuns /\ \A n \in Aging!Names : madeIn[n] <= runs
  BY DEF AgingInv, Aging!TypeOK, MadeByThis
<1> QED BY <1>1, <1>2, <1>3, <1>4, AgingOrder DEF Aging!Now

LEMMA AgingImport ==
  ASSUME Aging!OrderAssumption, AgingInv, Aging!Import
  PROVE  AgingInv' /\ HarmSeen
<1>1. /\ cpPc = "import" /\ cpPc' = "link" /\ cached' \in {cached, cached \cup {Aging!Now}}
      /\ sameVolume' = sameVolume /\ entry' = entry /\ data' = data /\ madeIn' = madeIn
      /\ job' = job /\ place' = place /\ runs' = runs
  BY DEF Aging!Import, Aging!disk
<1>2. Aging!Running
  BY <1>1 DEF Aging!Running
<1>3. Aging!Now \in Aging!Names
  BY <1>2, AgingAt
<1>4. job.mode # "purge"
  BY <1>1 DEF AgingInv, RunInPlace
<1>5. Aging!TypeOK'
  BY <1>1, <1>3 DEF AgingInv, Aging!TypeOK
<1>6. RunInPlace'
  BY <1>1, <1>2, <1>4 DEF AgingInv, RunInPlace, Aging!Running, Aging!Now
<1>7. ThroughHonest'
  <2>1. \A n : Honest(n) => Honest(n)'
    BY <1>1, <1>4 DEF Honest, Aging!Reads, Aging!Behind
  <2>2. \A p : Through(p)' => Through(p)
    BY <1>1, <1>2 DEF Through
  <2>3. \A n : ~Rewritten(n)
    BY <1>1 DEF Rewritten
  <2> QED BY <1>1, <2>1, <2>2, <2>3 DEF AgingInv, ThroughHonest, Aging!Takes
<1>8. MadeByThis'
  BY <1>1, <1>2 DEF AgingInv, MadeByThis
<1> QED BY <1>1, <1>5, <1>6, <1>7, <1>8 DEF AgingInv, HarmSeen

LEMMA AgingSymlink ==
  ASSUME Aging!OrderAssumption, AgingInv, Aging!Symlink
  PROVE  AgingInv' /\ HarmSeen
<1>0. Aging!Running
  BY DEF Aging!Symlink, Aging!Running
<1> PICK n \in Aging!Names : n = Aging!Now
  BY <1>0, AgingAt
<1>1. /\ cpPc = "link" /\ job.mode = "link" /\ entry[n] = "none"
      /\ entry' = [entry EXCEPT ![n] = IF job.relative THEN "astray" ELSE "sym"]
      /\ madeIn' = [madeIn EXCEPT ![n] = runs]
      /\ Aging!GoOn(place, job)
      /\ sameVolume' = sameVolume /\ data' = data /\ cached' = cached
      /\ job' = job /\ runs' = runs
  BY DEF Aging!Symlink, Aging!Make
<1>2. Aging!Running
  BY <1>1 DEF Aging!Running
<1>3. /\ place \in 1 .. Len(Order) 
      /\ n.src \in Aging!Sources
      /\ \A p \in 1 .. Len(Order) :
           /\ Order[p] \in Aging!Names /\ Order[p].src \in Aging!Sources
           /\ Order[p] = n <=> p = place
           /\ p <= place <=> p < place \/ p = place
      /\ runs \in 0 .. MaxRuns
      /\ \A m \in Aging!Names : madeIn[m] <= runs
  BY <1>2, AgingAt
<1>4. /\ entry \in [Aging!Names -> {"none", "own", "hard", "sym", "astray"}]
      /\ madeIn \in [Aging!Names -> 0 .. MaxRuns]
      /\ job.relative \in BOOLEAN
  BY DEF AgingInv, Aging!TypeOK, Aging!Jobs
<1>5. Aging!TypeOK'
  <2>1. entry' \in [Aging!Names -> {"none", "own", "hard", "sym", "astray"}]
    BY <1>1, <1>3, <1>4
  <2>2. madeIn' \in [Aging!Names -> 0 .. MaxRuns]
    BY <1>1, <1>3, <1>4
  <2>3. place' \in 0 .. Len(Order) /\ cpPc' \in {"purge", "import", "link", "ended"}
    <3>1. place \in 0 .. Len(Order) /\ job \in Aging!Jobs
      BY DEF AgingInv, Aging!TypeOK
    <3> QED BY <1>1, <3>1, GoesOn
  <2> QED BY <1>1, <2>1, <2>2, <2>3 DEF AgingInv, Aging!TypeOK
<1>6. ASSUME NEW p \in 1 .. Len(Order), Aging!Takes(job, Order[p]), p <= place
      PROVE  Honest(Order[p])'
  <2>1. CASE p = place
    <3>1. Order[p] = n /\ entry'[n] \in {"astray", "sym"} /\ madeIn'[n] = runs
          /\ (~job.relative => entry'[n] = "sym")
      BY <1>1, <1>3, <1>4, <2>1
    <3>2. CASE job.relative
      BY <1>1, <3>1, <3>2 DEF Honest
    <3>3. CASE ~job.relative
      <4>1. entry'[n] = "sym"
        BY <3>1, <3>3
      <4>2. Aging!Behind(n)' = <<"source", n.src>>
        BY <4>1 DEF Aging!Behind, Aging!Own, Aging!Source, Aging!Beside
      <4>3. Aging!Reads(n)' = data'[<<"source", n.src>>]
        BY <4>2 DEF Aging!Reads
      <4> QED BY <1>1, <3>1, <4>3 DEF Honest, Aging!Source
    <3> QED BY <3>2, <3>3
  <2>2. CASE p < place
    <3>1. Order[p] # n /\ Order[p] \in Aging!Names
      BY <1>3, <1>6, <2>2
    <3>2. Honest(Order[p])
      BY <1>1, <1>2, <1>6, <2>2 DEF AgingInv, ThroughHonest, Through, Rewritten
    <3>3. entry'[Order[p]] = entry[Order[p]] /\ madeIn'[Order[p]] = madeIn[Order[p]]
      BY <1>1, <1>4, <3>1
    <3> QED BY <1>1, <3>2, <3>3 DEF Honest, Aging!Reads, Aging!Behind, Aging!Source, Aging!Own, Aging!Beside
  <2> QED BY <1>3, <1>6, <2>1, <2>2
<1>7. \A m \in Aging!Names : madeIn'[m] <= runs
  BY <1>1, <1>3, <1>4
<1>8. \A p \in 1 .. Len(Order) : entry'[Order[p]] # "none" /\ madeIn'[Order[p]] = runs => p <= place
  <2> SUFFICES ASSUME NEW p \in 1 .. Len(Order), entry'[Order[p]] # "none", madeIn'[Order[p]] = runs,
                      Order[p] # n
               PROVE  p < place
    BY <1>3
  <2>1. entry[Order[p]] # "none" /\ madeIn[Order[p]] = runs
    BY <1>1, <1>3, <1>4
  <2> QED BY <1>1, <1>2, <2>1 DEF AgingInv, MadeByThis
<1>9. AgingInv'
  BY <1>1, <1>2, <1>5, <1>6, <1>7, <1>8, NameIsDone
<1> QED BY <1>1, <1>9 DEF HarmSeen

LEMMA AgingHardLink ==
  ASSUME Aging!OrderAssumption, AgingInv, Aging!HardLink
  PROVE  AgingInv' /\ HarmSeen
<1>0. Aging!Running
  BY DEF Aging!HardLink, Aging!Running
<1> PICK n \in Aging!Names : n = Aging!Now
  BY <1>0, AgingAt
<1>1. /\ cpPc = "link" /\ job.mode = "copy" /\ entry[n] = "none"
      /\ entry' = [entry EXCEPT ![n] = "hard"]
      /\ madeIn' = [madeIn EXCEPT ![n] = runs]
      /\ Aging!GoOn(place, job)
      /\ sameVolume' = sameVolume /\ data' = data /\ cached' = cached
      /\ job' = job /\ runs' = runs
  BY DEF Aging!HardLink, Aging!Make
<1>2. Aging!Running
  BY <1>1 DEF Aging!Running
<1>3. /\ place \in 1 .. Len(Order)
      /\ \A p \in 1 .. Len(Order) :
           /\ Order[p] \in Aging!Names
           /\ Order[p] = n <=> p = place
           /\ p <= place <=> p < place \/ p = place
      /\ runs \in 0 .. MaxRuns
      /\ \A m \in Aging!Names : madeIn[m] <= runs
  BY <1>2, AgingAt
<1>4. /\ entry \in [Aging!Names -> {"none", "own", "hard", "sym", "astray"}]
      /\ madeIn \in [Aging!Names -> 0 .. MaxRuns]
  BY DEF AgingInv, Aging!TypeOK
<1>5. Aging!TypeOK'
  <2>1. entry' \in [Aging!Names -> {"none", "own", "hard", "sym", "astray"}]
    BY <1>1, <1>3, <1>4
  <2>2. madeIn' \in [Aging!Names -> 0 .. MaxRuns]
    BY <1>1, <1>3, <1>4
  <2>3. place' \in 0 .. Len(Order) /\ cpPc' \in {"purge", "import", "link", "ended"}
    <3>1. place \in 0 .. Len(Order) /\ job \in Aging!Jobs
      BY DEF AgingInv, Aging!TypeOK
    <3> QED BY <1>1, <3>1, GoesOn
  <2> QED BY <1>1, <2>1, <2>2, <2>3 DEF AgingInv, Aging!TypeOK
<1>6. ASSUME NEW p \in 1 .. Len(Order), Aging!Takes(job, Order[p]), p <= place
      PROVE  Honest(Order[p])'
  <2>1. CASE p = place
    <3>1. Order[p] = n /\ entry'[n] = "hard"
      BY <1>1, <1>3, <1>4, <2>1
    <3>2. Aging!Behind(n)' = <<"source", n.src>>
      BY <3>1 DEF Aging!Behind, Aging!Own, Aging!Source, Aging!Beside
    <3>3. Aging!Reads(n)' = data'[<<"source", n.src>>]
      BY <3>2 DEF Aging!Reads
    <3> QED BY <1>1, <3>1, <3>3 DEF Honest, Aging!Source
  <2>2. CASE p < place
    <3>1. Order[p] # n /\ Order[p] \in Aging!Names
      BY <1>3, <1>6, <2>2
    <3>2. Honest(Order[p])
      BY <1>1, <1>2, <1>6, <2>2 DEF AgingInv, ThroughHonest, Through, Rewritten
    <3>3. entry'[Order[p]] = entry[Order[p]] /\ madeIn'[Order[p]] = madeIn[Order[p]]
      BY <1>1, <1>4, <3>1
    <3> QED BY <1>1, <3>2, <3>3 DEF Honest, Aging!Reads, Aging!Behind, Aging!Source, Aging!Own, Aging!Beside
  <2> QED BY <1>3, <1>6, <2>1, <2>2
<1>7. \A m \in Aging!Names : madeIn'[m] <= runs
  BY <1>1, <1>3, <1>4
<1>8. \A p \in 1 .. Len(Order) : entry'[Order[p]] # "none" /\ madeIn'[Order[p]] = runs => p <= place
  <2> SUFFICES ASSUME NEW p \in 1 .. Len(Order), entry'[Order[p]] # "none", madeIn'[Order[p]] = runs,
                      Order[p] # n
               PROVE  p < place
    BY <1>3
  <2>1. entry[Order[p]] # "none" /\ madeIn[Order[p]] = runs
    BY <1>1, <1>3, <1>4
  <2> QED BY <1>1, <1>2, <2>1 DEF AgingInv, MadeByThis
<1>9. AgingInv'
  BY <1>1, <1>2, <1>5, <1>6, <1>7, <1>8, NameIsDone
<1> QED BY <1>1, <1>9 DEF HarmSeen

LEMMA AgingHardLinkFails ==
  ASSUME Aging!OrderAssumption, AgingInv, Aging!HardLinkFails
  PROVE  AgingInv' /\ HarmSeen
<1>1. /\ cpPc = "link" /\ cpPc' = "create" /\ job.mode = "copy"
      /\ sameVolume' = sameVolume /\ entry' = entry /\ data' = data /\ madeIn' = madeIn
      /\ cached' = cached /\ job' = job /\ place' = place /\ runs' = runs
  BY DEF Aging!HardLinkFails, Aging!disk
<1>2. Aging!Running
  BY <1>1 DEF Aging!Running
<1>3. Aging!TypeOK'
  BY <1>1 DEF AgingInv, Aging!TypeOK
<1>4. RunInPlace'
  BY <1>1, <1>2 DEF AgingInv, RunInPlace, Aging!Running, Aging!Now, Aging!Takes
<1>5. ThroughHonest'
  <2>1. \A n : Honest(n) => Honest(n)'
    BY <1>1 DEF Honest, Aging!Reads, Aging!Behind
  <2>2. \A p : Through(p)' => Through(p)
    BY <1>1, <1>2 DEF Through
  <2>3. \A n : ~Rewritten(n)
    BY <1>1 DEF Rewritten
  <2> QED BY <1>1, <2>1, <2>2, <2>3 DEF AgingInv, ThroughHonest, Aging!Takes
<1>6. MadeByThis'
  BY <1>1, <1>2 DEF AgingInv, MadeByThis
<1> QED BY <1>1, <1>3, <1>4, <1>5, <1>6 DEF AgingInv, HarmSeen

LEMMA AgingDie ==
  ASSUME Aging!OrderAssumption, AgingInv, Aging!Die
  PROVE  AgingInv' /\ HarmSeen
<1>1. /\ cpPc' = "died"
      /\ sameVolume' = sameVolume /\ entry' = entry /\ data' = data /\ madeIn' = madeIn
      /\ cached' = cached /\ job' = job /\ place' = place /\ runs' = runs
  BY DEF Aging!Die, Aging!disk
<1>2. Aging!TypeOK'
  BY <1>1 DEF AgingInv, Aging!TypeOK
<1>3. RunInPlace'
  BY <1>1 DEF RunInPlace, Aging!Running
<1>4. ThroughHonest'
  BY <1>1 DEF ThroughHonest, Through, Aging!Running
<1>5. MadeByThis'
  BY <1>1 DEF AgingInv, MadeByThis, Aging!Running
<1> QED BY <1>1, <1>2, <1>3, <1>4, <1>5 DEF AgingInv, HarmSeen

LEMMA AgingPurge ==
  ASSUME Aging!OrderAssumption, AgingInv, Aging!Purge
  PROVE  AgingInv' /\ HarmSeen
<1>1. /\ cpPc = "purge" /\ cached' = cached \ {Aging!Now} /\ Aging!GoOn(place, job)
      /\ sameVolume' = sameVolume /\ entry' = entry /\ data' = data /\ madeIn' = madeIn
      /\ job' = job /\ runs' = runs
  BY DEF Aging!Purge, Aging!disk
<1>2. Aging!Running
  BY <1>1 DEF Aging!Running
<1>3. job.mode = "purge"
  BY <1>1 DEF AgingInv, RunInPlace
<1>4. /\ \A p \in 1 .. Len(Order) :
           /\ Order[p] = Aging!Now <=> p = place
           /\ p <= place <=> p < place \/ p = place
      /\ \A m \in Aging!Names : madeIn[m] <= runs
  BY <1>2, AgingAt
<1>5. Aging!TypeOK'
  <2>1. place \in 0 .. Len(Order) /\ job \in Aging!Jobs
    BY DEF AgingInv, Aging!TypeOK
  <2>2. place' \in 0 .. Len(Order) /\ cpPc' \in {"purge", "import", "link", "ended"}
    BY <1>1, <2>1, GoesOn
  <2> QED BY <1>1, <2>2 DEF AgingInv, Aging!TypeOK
<1>6. ASSUME NEW p \in 1 .. Len(Order), Aging!Takes(job, Order[p]), p <= place
      PROVE  Honest(Order[p])'
  <2>1. CASE p = place
    BY <1>1, <1>3, <1>4, <2>1 DEF Honest
  <2>2. CASE p < place
    <3>1. Honest(Order[p])
      BY <1>1, <1>2, <1>6, <2>2 DEF AgingInv, ThroughHonest, Through, Rewritten
    <3> QED BY <1>1, <1>3, <3>1 DEF Honest
  <2> QED BY <1>4, <1>6, <2>1, <2>2
<1>7. \A p \in 1 .. Len(Order) : entry[Order[p]] # "none" /\ madeIn[Order[p]] = runs => p <= place
  BY <1>1, <1>2, <1>4 DEF AgingInv, MadeByThis
<1>8. AgingInv'
  BY <1>1, <1>2, <1>4, <1>5, <1>6, <1>7, NameIsDone
<1> QED BY <1>1, <1>8 DEF HarmSeen

\* os.Create, which empties the file behind a name.
LEMMA AgingCreate ==
  ASSUME Aging!OrderAssumption, AgingInv, Aging!Create
  PROVE  AgingInv' /\ HarmSeen
<1>0. Aging!Running
  BY DEF Aging!Create, Aging!Running
<1> PICK n \in Aging!Names : n = Aging!Now
  BY <1>0, AgingAt
<1>1. /\ cpPc = "create" /\ cpPc' = "copy"
      /\ \/ /\ entry[n] = "none"
            /\ entry' = [entry EXCEPT ![n] = "own"] /\ madeIn' = [madeIn EXCEPT ![n] = runs]
         \/ entry[n] # "none" /\ entry' = entry /\ madeIn' = madeIn
      /\ data' = [data EXCEPT ![Aging!Behind(n)] = "empty"]
      /\ sameVolume' = sameVolume /\ cached' = cached
      /\ job' = job /\ place' = place /\ runs' = runs
  BY DEF Aging!Create, Aging!Make
<1>2. /\ place \in 1 .. Len(Order) /\ n.src \in Aging!Sources /\ n = Order[place]
      /\ \A p \in 1 .. Len(Order) :
           /\ Order[p] \in Aging!Names /\ Order[p].src \in Aging!Sources
           /\ Order[p] = n <=> p = place
      /\ runs \in 0 .. MaxRuns
      /\ \A m \in Aging!Names : madeIn[m] <= runs
  BY <1>0, AgingAt DEF Aging!Now
<1>3. /\ entry \in [Aging!Names -> {"none", "own", "hard", "sym", "astray"}]
      /\ madeIn \in [Aging!Names -> 0 .. MaxRuns]
      /\ data \in [Aging!FilesOnDisk -> {"missing", "empty", "part", "whole"}]
  BY DEF AgingInv, Aging!TypeOK
<1>4. job.mode = "copy" /\ job.mode # "link" /\ job.mode # "purge"
  BY <1>1 DEF AgingInv, RunInPlace
<1>5. /\ entry' \in [Aging!Names -> {"none", "own", "hard", "sym", "astray"}]
      /\ madeIn' \in [Aging!Names -> 0 .. MaxRuns]
      /\ data' \in [Aging!FilesOnDisk -> {"missing", "empty", "part", "whole"}]
      /\ entry'[n] # "none"
      /\ \A m \in Aging!Names : m # n => entry'[m] = entry[m] /\ madeIn'[m] = madeIn[m]
      /\ \A f \in Aging!FilesOnDisk : f # Aging!Behind(n) => data'[f] = data[f]
      /\ \A f \in Aging!FilesOnDisk : data'[f] = "whole" => data[f] = "whole"
  <2>1. /\ entry' \in [Aging!Names -> {"none", "own", "hard", "sym", "astray"}]
        /\ entry'[n] # "none" /\ \A m \in Aging!Names : m # n => entry'[m] = entry[m]
    BY <1>1, <1>3
  <2>2. /\ madeIn' \in [Aging!Names -> 0 .. MaxRuns]
        /\ \A m \in Aging!Names : m # n => madeIn'[m] = madeIn[m]
    BY <1>1, <1>2, <1>3
  <2>3. /\ data' \in [Aging!FilesOnDisk -> {"missing", "empty", "part", "whole"}]
        /\ \A f \in Aging!FilesOnDisk : f # Aging!Behind(n) => data'[f] = data[f]
        /\ \A f \in Aging!FilesOnDisk : data'[f] = "whole" => data[f] = "whole"
    BY <1>1, <1>3
  <2> QED BY <2>1, <2>2, <2>3
<1>6. \A m \in Aging!Names : Aging!Behind(m)' = Aging!Behind(m)
  <2> SUFFICES ASSUME NEW m \in Aging!Names PROVE Aging!Behind(m)' = Aging!Behind(m)
    OBVIOUS
  <2>1. CASE entry'[m] = entry[m]
    BY <2>1 DEF Aging!Behind, Aging!Own, Aging!Source, Aging!Beside
  <2>2. CASE m = n /\ entry[n] = "none" /\ entry'[n] = "own"
    BY <2>2 DEF Aging!Behind, Aging!Own, Aging!Source, Aging!Beside
  <2> QED BY <1>1, <1>3, <1>5, <2>1, <2>2
<1>7. Aging!TypeOK'
  BY <1>1, <1>5 DEF AgingInv, Aging!TypeOK
<1>8. Aging!Now' = n
  BY <1>1, <1>2 DEF Aging!Now
<1>9. RunInPlace'
  BY <1>0, <1>1, <1>4, <1>5, <1>8 DEF AgingInv, RunInPlace, Aging!Running, Aging!Now, Aging!Takes
<1>10. ThroughHonest'
  <2> SUFFICES ASSUME NEW p \in 1 .. Len(Order), Aging!Takes(job, Order[p]), Through(p)',
                      ~Rewritten(Order[p])'
               PROVE  Honest(Order[p])'
    BY <1>1 DEF ThroughHonest, Aging!Takes
  <2> DEFINE m == Order[p]
  <2>1. p < place /\ m \in Aging!Names /\ m # n /\ m.src \in Aging!Sources
    BY <1>1, <1>2 DEF Through
  <2>2. Honest(m)
    BY <1>0, <1>1, <2>1 DEF AgingInv, ThroughHonest, Through, Rewritten
  <2>3. Aging!Behind(m) # Aging!Behind(n)
    BY <1>1, <1>6, <1>8, <2>1 DEF Rewritten
  <2>4. Aging!Behind(m) \in Aging!FilesOnDisk /\ Aging!Source(m.src) \in Aging!FilesOnDisk
    BY <2>1, FilesBehind DEF AgingInv
  <2>5. Aging!Reads(m)' = Aging!Reads(m)
    BY <1>5, <1>6, <2>1, <2>3, <2>4 DEF Aging!Reads
  <2>6. data'[Aging!Source(m.src)] = "whole" => data[Aging!Source(m.src)] = "whole"
    BY <1>5, <2>4
  <2> QED BY <1>1, <1>4, <2>2, <2>5, <2>6 DEF Honest, Aging!Source
<1>11. MadeByThis'
  <2>1. \A m \in Aging!Names : madeIn'[m] <= runs
    BY <1>1, <1>2, <1>3
  <2>2. ASSUME NEW p \in 1 .. Len(Order), entry'[Order[p]] # "none", madeIn'[Order[p]] = runs
        PROVE  p < place \/ p = place
    <3>1. CASE Order[p] = n
      BY <1>2, <3>1
    <3>2. CASE Order[p] # n
      BY <1>0, <1>1, <1>2, <1>5, <2>2, <3>2 DEF AgingInv, MadeByThis
    <3> QED BY <3>1, <3>2
  <2> QED BY <1>1, <2>1, <2>2 DEF MadeByThis
<1>12. HarmSeen
  <2> SUFFICES ASSUME NEW s \in Aging!Sources, data[Aging!Source(s)] = "whole",
                      data'[Aging!Source(s)] # "whole"
               PROVE  n.src = s /\ entry[n] \in {"hard", "sym"} /\ madeIn[n] < runs
    BY <1>4 DEF HarmSeen
  <2>1. Aging!Source(s) \in Aging!FilesOnDisk
    BY DEF Aging!FilesOnDisk
  <2>2. Aging!Behind(n) = Aging!Source(s)
    BY <1>5, <2>1
  <2>3. n.src = s /\ entry[n] \in {"hard", "sym"}
    BY <1>2, <2>2, FilesBehind DEF AgingInv
  <2>4. ~(madeIn[n] = runs)
    <3>1. place \in Int
      BY AgingOrder, <1>2
    <3> QED BY <1>0, <1>1, <1>2, <2>3, <3>1 DEF AgingInv, MadeByThis
  <2>5. madeIn[n] \in 0 .. MaxRuns /\ madeIn[n] <= runs
    BY <1>2, <1>3
  <2> QED BY <1>2, <2>3, <2>4, <2>5
<1> QED BY <1>7, <1>9, <1>10, <1>11, <1>12 DEF AgingInv

\* io.Copy writes the file behind the name that is done now: with a part of the
\* source, or with all there is.
LEMMA AgingCopySome ==
  ASSUME Aging!OrderAssumption, AgingInv, Aging!CopySome
  PROVE  AgingInv' /\ HarmSeen
<1>0. Aging!Running
  BY DEF Aging!CopySome, Aging!Running
<1> PICK n \in Aging!Names : n = Aging!Now
  BY <1>0, AgingAt
<1>1. /\ cpPc = "copy" /\ cpPc' = "copy"
      /\ data[Aging!Source(n.src)] = "whole" /\ data[Aging!Behind(n)] = "empty"
      /\ data' = [data EXCEPT ![Aging!Behind(n)] = "part"]
      /\ entry' = entry /\ madeIn' = madeIn
      /\ sameVolume' = sameVolume /\ cached' = cached
      /\ job' = job /\ place' = place /\ runs' = runs
  BY DEF Aging!CopySome
<1>2. /\ n.src \in Aging!Sources
      /\ \A p \in 1 .. Len(Order) : Order[p] \in Aging!Names /\ Order[p].src \in Aging!Sources
  BY <1>0, AgingAt
<1>3. data \in [Aging!FilesOnDisk -> {"missing", "empty", "part", "whole"}]
  BY DEF AgingInv, Aging!TypeOK
<1>4. job.mode = "copy" /\ job.mode # "link" /\ job.mode # "purge"
  BY <1>1 DEF AgingInv, RunInPlace
<1>5. /\ data' \in [Aging!FilesOnDisk -> {"missing", "empty", "part", "whole"}]
      /\ \A f \in Aging!FilesOnDisk : f # Aging!Behind(n) => data'[f] = data[f]
      /\ \A f \in Aging!FilesOnDisk : data'[f] = "whole" <=> data[f] = "whole"
  BY <1>1, <1>3
<1>6. \A m : Aging!Behind(m)' = Aging!Behind(m)
  BY <1>1 DEF Aging!Behind, Aging!Own, Aging!Source, Aging!Beside
<1>7. Aging!TypeOK'
  BY <1>1, <1>5 DEF AgingInv, Aging!TypeOK
<1>8. Aging!Now' = n
  BY <1>1 DEF Aging!Now
<1>9. RunInPlace'
  BY <1>0, <1>1, <1>4 DEF AgingInv, RunInPlace, Aging!Running, Aging!Now, Aging!Takes
<1>10. ThroughHonest'
  <2> SUFFICES ASSUME NEW p \in 1 .. Len(Order), Aging!Takes(job, Order[p]), Through(p)',
                      ~Rewritten(Order[p])'
               PROVE  Honest(Order[p])'
    BY <1>1 DEF ThroughHonest, Aging!Takes
  <2> DEFINE m == Order[p]
  <2>1. p < place /\ m \in Aging!Names /\ m.src \in Aging!Sources
    BY <1>1, <1>2 DEF Through
  <2>2. ~Rewritten(m)
    BY <1>1, <1>6, <1>8 DEF Rewritten
  <2>3. Honest(m)
    BY <1>0, <2>1, <2>2 DEF AgingInv, ThroughHonest, Through
  <2>4. Aging!Behind(m) \in Aging!FilesOnDisk /\ Aging!Source(m.src) \in Aging!FilesOnDisk
    BY <2>1, FilesBehind DEF AgingInv
  <2>5. /\ Aging!Reads(m)' = "whole" <=> Aging!Reads(m) = "whole"
        /\ data'[Aging!Source(m.src)] = "whole" <=> data[Aging!Source(m.src)] = "whole"
    BY <1>5, <1>6, <2>4 DEF Aging!Reads
  <2> QED BY <1>1, <1>4, <2>3, <2>5 DEF Honest, Aging!Source
<1>11. MadeByThis'
  BY <1>0, <1>1 DEF AgingInv, MadeByThis
<1>12. HarmSeen
  <2>1. \A s \in Aging!Sources : Aging!Source(s) \in Aging!FilesOnDisk
    BY DEF Aging!FilesOnDisk
  <2> QED BY <1>5, <2>1 DEF HarmSeen
<1> QED BY <1>7, <1>9, <1>10, <1>11, <1>12 DEF AgingInv

LEMMA AgingCopyRest ==
  ASSUME Aging!OrderAssumption, AgingInv, Aging!CopyRest
  PROVE  AgingInv' /\ HarmSeen
<1>0. Aging!Running
  BY DEF Aging!CopyRest, Aging!Running
<1> PICK n \in Aging!Names : n = Aging!Now
  BY <1>0, AgingAt
<1>1. /\ cpPc = "copy" /\ Aging!GoOn(place, job)
      /\ data' = [data EXCEPT ![Aging!Behind(n)] = data[Aging!Source(n.src)]]
      /\ entry' = entry /\ madeIn' = madeIn
      /\ sameVolume' = sameVolume /\ cached' = cached
      /\ job' = job /\ runs' = runs
  BY DEF Aging!CopyRest
<1>2. /\ n.src \in Aging!Sources
      /\ \A p \in 1 .. Len(Order) :
           /\ Order[p] \in Aging!Names /\ Order[p].src \in Aging!Sources
           /\ Order[p] = n <=> p = place
           /\ p <= place <=> p < place \/ p = place
      /\ \A m \in Aging!Names : madeIn[m] <= runs
  BY <1>0, AgingAt
<1>3. data \in [Aging!FilesOnDisk -> {"missing", "empty", "part", "whole"}]
  BY DEF AgingInv, Aging!TypeOK
<1>4. job.mode = "copy" /\ job.mode # "link" /\ job.mode # "purge"
  BY <1>1 DEF AgingInv, RunInPlace
<1>5. /\ Aging!Behind(n) \in Aging!FilesOnDisk /\ Aging!Source(n.src) \in Aging!FilesOnDisk
  BY <1>2, FilesBehind DEF AgingInv
<1>6. /\ data' \in [Aging!FilesOnDisk -> {"missing", "empty", "part", "whole"}]
      /\ \A f \in Aging!FilesOnDisk : f # Aging!Behind(n) => data'[f] = data[f]
      /\ data'[Aging!Behind(n)] = data[Aging!Source(n.src)]
  BY <1>1, <1>3, <1>5
<1>7. \A s \in Aging!Sources : data'[Aging!Source(s)] = data[Aging!Source(s)]
  <2> SUFFICES ASSUME NEW s \in Aging!Sources
               PROVE  data'[Aging!Source(s)] = data[Aging!Source(s)]
    OBVIOUS
  <2>1. Aging!Source(s) \in Aging!FilesOnDisk
    BY DEF Aging!FilesOnDisk
  <2>2. Aging!Behind(n) = Aging!Source(s) => n.src = s
    BY <1>2, FilesBehind DEF AgingInv
  <2> QED BY <1>6, <2>1, <2>2
<1>8. \A m : Aging!Behind(m)' = Aging!Behind(m)
  BY <1>1 DEF Aging!Behind, Aging!Own, Aging!Source, Aging!Beside
<1>9. Aging!TypeOK'
  <2>1. place \in 0 .. Len(Order) /\ job \in Aging!Jobs
    BY DEF AgingInv, Aging!TypeOK
  <2>2. place' \in 0 .. Len(Order) /\ cpPc' \in {"purge", "import", "link", "ended"}
    BY <1>1, <2>1, GoesOn
  <2> QED BY <1>1, <1>6, <2>2 DEF AgingInv, Aging!TypeOK
<1>10. ASSUME NEW p \in 1 .. Len(Order), Aging!Takes(job, Order[p]), p <= place
       PROVE  Honest(Order[p])'
  <2> DEFINE m == Order[p]
  <2>1. m \in Aging!Names /\ m.src \in Aging!Sources
    BY <1>2
  <2>2. Aging!Behind(m) \in Aging!FilesOnDisk
    BY <2>1, FilesBehind DEF AgingInv
  <2>3. data'[Aging!Source(m.src)] = data[Aging!Source(m.src)]
    BY <1>7, <2>1
  <2>4. CASE Aging!Behind(m) = Aging!Behind(n)
    <3>1. m.src = n.src
      BY <1>2, <2>1, <2>4, FilesBehind DEF AgingInv
    <3>2. Aging!Reads(m)' = data'[Aging!Source(m.src)]
      BY <1>6, <1>8, <2>3, <2>4, <3>1 DEF Aging!Reads
    <3> QED BY <1>1, <1>4, <3>2 DEF Honest, Aging!Source
  <2>5. CASE Aging!Behind(m) # Aging!Behind(n)
    <3>1. p < place
      BY <1>2, <1>10, <2>5
    <3>2. Honest(m)
      BY <1>0, <1>10, <2>5, <3>1 DEF AgingInv, ThroughHonest, Through, Rewritten
    <3>3. Aging!Reads(m)' = Aging!Reads(m)
      BY <1>6, <1>8, <2>2, <2>5 DEF Aging!Reads
    <3> QED BY <1>1, <1>4, <2>3, <3>2, <3>3 DEF Honest, Aging!Source
  <2> QED BY <2>4, <2>5
<1>11. \A p \in 1 .. Len(Order) : entry[Order[p]] # "none" /\ madeIn[Order[p]] = runs => p <= place
  BY <1>0, <1>1, <1>2 DEF AgingInv, MadeByThis
<1>12. AgingInv'
  BY <1>0, <1>1, <1>2, <1>9, <1>10, <1>11, NameIsDone
<1> QED BY <1>7, <1>12 DEF HarmSeen

LEMMA AgingStarts ==
  ASSUME Aging!OrderAssumption, MaxRuns \in Nat
  PROVE  Aging!Init => AgingInv
<1> SUFFICES ASSUME Aging!Init PROVE AgingInv
  OBVIOUS
<1>1. /\ cpPc = "ended" /\ runs = 0 /\ place = 0 /\ job \in Aging!Jobs
      /\ entry = [n \in Aging!Names |-> "none"] /\ madeIn = [n \in Aging!Names |-> 0]
      /\ cached = {} /\ sameVolume \in BOOLEAN
      /\ data \in [Aging!FilesOnDisk -> {"missing", "empty", "part", "whole"}]
  BY DEF Aging!Init
<1>2. Len(Order) \in Nat
  BY AgingOrder
<1>3. Aging!TypeOK
  BY <1>1, <1>2 DEF Aging!TypeOK
<1>4. RunInPlace /\ ThroughHonest /\ MadeByThis
  BY <1>1 DEF RunInPlace, ThroughHonest, Through, MadeByThis, Aging!Running
<1> QED BY <1>3, <1>4 DEF AgingInv

LEMMA AgingSafe ==
  ASSUME Aging!OrderAssumption, Aging!RunsAssumption
  PROVE  Aging!Spec => []Aging!EndedRunsHonest /\ Aging!SourceHarmedByRerun
<1>0. MaxRuns \in Nat
  BY DEF Aging!RunsAssumption
<1>1. AgingInv /\ [Aging!Next]_(Aging!vars) => AgingInv' /\ [HarmSeen]_(Aging!vars)
  <2> SUFFICES ASSUME AgingInv, [Aging!Next]_(Aging!vars)
               PROVE  AgingInv' /\ [HarmSeen]_(Aging!vars)
    OBVIOUS
  <2>1. CASE UNCHANGED Aging!vars
    <3>1. /\ cpPc' = cpPc /\ entry' = entry /\ data' = data /\ madeIn' = madeIn
          /\ sameVolume' = sameVolume /\ cached' = cached
          /\ job' = job /\ place' = place /\ runs' = runs
      BY <2>1 DEF Aging!vars, Aging!disk
    <3>2. Aging!TypeOK' /\ RunInPlace' /\ MadeByThis'
      BY <3>1 DEF AgingInv, Aging!TypeOK, RunInPlace, MadeByThis, Aging!Running, Aging!Now, Aging!Takes
    <3>3. /\ \A n : Honest(n)' <=> Honest(n)
          /\ \A n : Rewritten(n)' <=> Rewritten(n)
      BY <3>1 DEF Honest, Rewritten, Aging!Reads, Aging!Behind, Aging!Now
    <3>4. \A p : Through(p)' <=> Through(p)
      BY <3>1 DEF Through, Aging!Running
    <3>5. ThroughHonest'
      BY <3>1, <3>3, <3>4 DEF AgingInv, ThroughHonest, Aging!Takes
    <3> QED BY <2>1, <3>2, <3>5 DEF AgingInv
  <2> QED BY <1>0, <2>1, AgingStart, AgingImport, AgingSymlink, AgingHardLink, AgingHardLinkFails,
             AgingCreate, AgingCopySome, AgingCopyRest, AgingPurge, AgingDie
          DEF Aging!Next
<1>2. AgingInv => Aging!EndedRunsHonest
  <2> SUFFICES ASSUME AgingInv, cpPc = "ended", runs > 0, NEW n \in Aging!Done
               PROVE  Honest(n)
    BY DEF AgingInv, Aging!EndedRunsHonest, Honest
  <2>1. n \in Aging!Names /\ Aging!Takes(job, n)
    BY DEF Aging!Done
  <2> PICK p \in 1 .. Len(Order) : Order[p] = n
    BY <2>1, AgingOrder
  <2> QED BY <2>1 DEF AgingInv, ThroughHonest, Through, Rewritten
<1>3. [HarmSeen]_(Aging!vars) =>
        [\A s \in Aging!Sources :
           data[Aging!Source(s)] = "whole" /\ data'[Aging!Source(s)] # "whole" =>
             \E n \in Aging!Names : /\ n.src = s /\ n = Aging!Now /\ job.mode = "copy"
                                    /\ entry[n] \in {"hard", "sym"} /\ madeIn[n] < runs]_(Aging!vars)
  BY DEF HarmSeen
<1> QED BY <1>0, <1>1, <1>2, <1>3, AgingStarts, PTL DEF Aging!Spec, Aging!SourceHarmedByRerun

-----------------------------------------------------------------------------
(* filereader: users that read a part each, and hand on what they read.      *)

\* The places in a part: with more users than contents there is only the first.
Places == IF Reader!userContentLimit = 0 THEN 1 ELSE Reader!userContentLimit

\* A user goes round: what it has read of a place behind the present one is one
\* less than of those up to it.
RoundAndRound ==
  \A u \in Reader!Users :
    /\ detail[u] <= Places
    /\ \A f \in Reader!Contents :
         (\A d \in 1 .. Places : Reader!fi(u, d) # f) => reads[u][f] = 0
    /\ detail[u] = 0 => \A f \in Reader!Contents : reads[u][f] = 0
    /\ detail[u] > 0 =>
         \A d \in 1 .. Places :
           reads[u][Reader!fi(u, 1)] = reads[u][Reader!fi(u, d)] + (IF d <= detail[u] THEN 0 ELSE 1)

Sending == {u \in Reader!Users : userPc[u] = "send"}
DoneReads == {r \in Reader!Users \X (1 .. loop) : r[2] <= j[r[1]]}
Counted ==
  /\ \A u \in Reader!Users : userPc[u] # "next" => j[u] < loop
  /\ IsFiniteSet(Sending) /\ IsFiniteSet(DoneReads)
  /\ totalReaded + Cardinality(Sending) = good + userLost
  /\ totalReaded = Cardinality(DoneReads)
  /\ via = "http" => userLost = 0
  /\ process = "panicked" => via = "http"

ReaderInv == Reader!TypeOK /\ RoundAndRound /\ Counted

LEMMA ReaderSets ==
  ASSUME NEW S
  PROVE  Reader!Cardinality(S) = Cardinality(S)
<1>1. Reader!IsFiniteSet(S) <=> IsFiniteSet(S)
  BY DEF IsFiniteSet, Reader!IsFiniteSet
<1> QED BY <1>1 DEF Cardinality, Reader!Cardinality

\* Parts lie one after the other.
LEMMA PartsApart ==
  ASSUME NEW L \in Nat, L > 0, NEW u \in Nat, NEW v \in Nat, u < v,
         NEW d \in 1 .. L, NEW e \in 1 .. L
  PROVE  (u - 1) * L + d < (v - 1) * L + e
<1>1. (v - u) * L >= L
  <2>1. v - u >= 1 /\ v - u \in Nat
    OBVIOUS
  <2> QED BY <2>1
<1>2. (v - 1) * L = (u - 1) * L + (v - u) * L
  OBVIOUS
<1>3. (u - 1) * L \in Int /\ (v - u) * L \in Int
  OBVIOUS
<1> QED BY <1>1, <1>2, <1>3

LEMMA PartsFit ==
  ASSUME NEW N \in Nat, N > 0, NEW c \in Nat, NEW u \in 1 .. N, NEW d \in 1 .. c \div N
  PROVE  (u - 1) * (c \div N) + d \in 1 .. c
<1> DEFINE L == c \div N
<1>1. c = N * L + (c % N) /\ L \in Nat /\ c % N \in 0 .. N - 1
  BY Laps
<1> HIDE DEF L
<1>2. (N - u) * L >= 0 /\ (u - 1) * L >= 0
  <2>1. N - u \in Nat /\ u - 1 \in Nat
    OBVIOUS
  <2> QED BY <1>1, <2>1
<1>3. N * L = (u - 1) * L + L + (N - u) * L
  BY <1>1
<1>4. d \in 1 .. L
  BY DEF L
<1>5. (u - 1) * L \in Int /\ (N - u) * L \in Int /\ N * L \in Int
  BY <1>1
<1>6. (u - 1) * L + d \in 1 .. c
  BY <1>1, <1>2, <1>3, <1>4, <1>5
<1> QED BY <1>6 DEF L

LEMMA ReaderTyped ==
  ASSUME Reader!FlagsAssumption, Reader!RetryAssumption, ReaderInv
  PROVE  /\ userN \in Nat /\ userN > 0 /\ loop \in Nat /\ retryCnt \in Nat
         /\ contentN \in Nat /\ Reader!userContentLimit \in Nat
         /\ Places \in Nat /\ Places > 0
         /\ \A u \in Reader!Users : u \in Nat /\ u \in 1 .. userN
         /\ userPc \in [Reader!Users -> {"next", "read", "send"}]
         /\ j \in [Reader!Users -> 0 .. loop] /\ detail \in [Reader!Users -> Nat]
         /\ tries \in [Reader!Users -> 0 .. retryCnt]
         /\ reads \in [Reader!Users -> [Reader!Contents -> Nat]]
         /\ totalReaded \in Nat /\ good \in Nat /\ userLost \in Nat
<1>1. userN \in Nat /\ userN > 0 /\ loop \in Nat /\ retryCnt \in Nat
  BY DEF Reader!FlagsAssumption, Reader!RetryAssumption
<1>2. contentN \in Nat
  BY DEF ReaderInv, Reader!TypeOK, Reader!FlagsAssumption
<1>3. Reader!userContentLimit \in Nat
  BY <1>1, <1>2, Laps DEF Reader!userContentLimit
<1>4. Places \in Nat /\ Places > 0
  BY <1>3 DEF Places
<1>5. \A u \in Reader!Users : u \in Nat /\ u \in 1 .. userN
  BY <1>1 DEF Reader!Users
<1> QED BY <1>1, <1>2, <1>3, <1>4, <1>5 DEF ReaderInv, Reader!TypeOK

\* The files of a part.
LEMMA PartIs ==
  ASSUME Reader!FlagsAssumption, Reader!RetryAssumption, ReaderInv, NEW u \in Reader!Users
  PROVE  /\ \A d \in 1 .. Places : Reader!fi(u, d) \in Reader!Contents
         /\ \E base \in Int : \A d \in 1 .. Places : Reader!fi(u, d) = base + d
         /\ Reader!userContentLimit = 0 => Reader!fi(u, 1) = 1
<1> DEFINE L == Reader!userContentLimit
<1>1. /\ userN \in Nat /\ userN > 0 /\ contentN \in Nat /\ L \in Nat /\ u \in Nat
      /\ u \in 1 .. userN
  BY ReaderTyped
<1>2. contentN \in ContentNs
  BY DEF ReaderInv, Reader!TypeOK
<1>3. L = contentN \div userN
  BY DEF Reader!userContentLimit
<1>4. \A d : Reader!fi(u, d) = (u - 1) * L + d
  BY DEF Reader!fi
<1>5. (u - 1) * L \in Int
  BY <1>1
<1>6. L = 0 => (u - 1) * L = 0
  BY <1>1
<1>7. Places = IF L = 0 THEN 1 ELSE L
  BY DEF Places
<1> HIDE DEF L
<1>8. ASSUME NEW d \in 1 .. Places
      PROVE  Reader!fi(u, d) \in Reader!Contents
  <2>1. CASE L = 0
    <3>1. Reader!fi(u, d) = 1
      BY <1>4, <1>6, <1>7, <1>8, <2>1
    <3> QED BY <3>1 DEF Reader!Contents
  <2>2. CASE L # 0
    <3>1. d \in 1 .. contentN \div userN
      BY <1>3, <1>7, <1>8, <2>2
    <3>2. (u - 1) * (contentN \div userN) + d \in 1 .. contentN
      BY <1>1, <3>1, PartsFit
    <3>3. Reader!fi(u, d) \in 1 .. contentN
      BY <1>3, <1>4, <3>2
    <3> QED BY <1>2, <3>3 DEF Reader!Contents
  <2> QED BY <2>1, <2>2
<1>9. \A d \in 1 .. Places : Reader!fi(u, d) = (u - 1) * L + d
  BY <1>4
<1>10. L = 0 => Reader!fi(u, 1) = 1
  BY <1>4, <1>6
<1> QED BY <1>5, <1>8, <1>9, <1>10 DEF L

\* One place on, and round.
LEMMA GoRound ==
  ASSUME NEW n \in Nat, n > 0, NEW q \in 0 .. n, NEW d \in Nat, d = IF q = n THEN 1 ELSE q + 1,
         NEW e \in 1 .. n, NEW x \in Nat, NEW y \in Nat,
         q = 0 => x = 0 /\ y = 0,
         q > 0 => x = y + (IF e <= q THEN 0 ELSE 1)
  PROVE  x + (IF 1 = d THEN 1 ELSE 0) =
           y + (IF e = d THEN 1 ELSE 0) + (IF e <= d THEN 0 ELSE 1)
OBVIOUS

LEMMA ReaderBegin ==
  ASSUME Reader!FlagsAssumption, Reader!RetryAssumption, ReaderInv,
         NEW u \in Reader!Users, Reader!Begin(u)
  PROVE  ReaderInv'
<1> PICK d \in Nat : d = Reader!Roll(detail[u])
  BY ReaderTyped DEF Reader!Roll
<1>1. /\ userPc[u] = "next" /\ j[u] < loop
      /\ detail' = [detail EXCEPT ![u] = d]
      /\ tries' = [tries EXCEPT ![u] = 0]
      /\ userPc' = [userPc EXCEPT ![u] = "read"]
      /\ contentN' = contentN /\ via' = via /\ process' = process /\ j' = j
      /\ totalReaded' = totalReaded /\ good' = good /\ userLost' = userLost
  BY DEF Reader!Begin, Reader!Goto
<1>2. /\ Places \in Nat /\ Places > 0 /\ retryCnt \in Nat
      /\ userPc \in [Reader!Users -> {"next", "read", "send"}]
      /\ detail \in [Reader!Users -> Nat]
      /\ tries \in [Reader!Users -> 0 .. retryCnt]
      /\ reads \in [Reader!Users -> [Reader!Contents -> Nat]]
      /\ Reader!userContentLimit \in Nat
  BY ReaderTyped
<1>3. detail[u] \in Nat /\ detail[u] <= Places
  BY <1>2 DEF ReaderInv, RoundAndRound
<1>4. d = (IF detail[u] = Places THEN 1 ELSE detail[u] + 1) /\ d \in 1 .. Places
  <2>1. d = IF detail[u] + 1 > Reader!userContentLimit THEN 1 ELSE detail[u] + 1
    BY DEF Reader!Roll
  <2>2. Places = IF Reader!userContentLimit = 0 THEN 1 ELSE Reader!userContentLimit
    BY DEF Places
  <2>3. \A q, lim, n \in Nat :
          n = (IF lim = 0 THEN 1 ELSE lim) /\ q <= n =>
            /\ (IF q + 1 > lim THEN 1 ELSE q + 1) = (IF q = n THEN 1 ELSE q + 1)
            /\ (IF q + 1 > lim THEN 1 ELSE q + 1) \in 1 .. n
    OBVIOUS
  <2> QED BY ONLY <1>2, <1>3, <2>1, <2>2, <2>3
<1>5. /\ \A e \in 1 .. Places : Reader!fi(u, e) \in Reader!Contents
      /\ \E base \in Int : \A e \in 1 .. Places : Reader!fi(u, e) = base + e
  BY PartIs
<1> DEFINE f0 == Reader!fi(u, d)
<1>6. f0 \in Reader!Contents /\ \A e \in 1 .. Places : Reader!fi(u, e) = f0 <=> e = d
  <2> PICK base \in Int : \A e \in 1 .. Places : Reader!fi(u, e) = base + e
    BY <1>5
  <2>1. \A e \in 1 .. Places : base + e = base + d <=> e = d
    BY <1>2, <1>4
  <2> QED BY <1>4, <1>5, <2>1
<1>7. detail'[u] = d
  BY <1>1, <1>2
<1>8. reads' = [reads EXCEPT ![u] = [reads[u] EXCEPT ![f0] = reads[u][f0] + 1]]
  BY <1>2, <1>6, <1>7 DEF Reader!Begin
<1>9. /\ reads' \in [Reader!Users -> [Reader!Contents -> Nat]]
      /\ reads'[u][f0] = reads[u][f0] + 1
      /\ \A f \in Reader!Contents : f # f0 => reads'[u][f] = reads[u][f]
      /\ \A f \in Reader!Contents : reads[u][f] \in Nat
      /\ \A v \in Reader!Users : v # u => reads'[v] = reads[v] /\ detail'[v] = detail[v]
  <2>1. reads[u] \in [Reader!Contents -> Nat]
    BY <1>2
  <2> DEFINE g == [reads[u] EXCEPT ![f0] = reads[u][f0] + 1]
  <2>2. /\ g \in [Reader!Contents -> Nat] /\ g[f0] = reads[u][f0] + 1
        /\ \A f \in Reader!Contents : f # f0 => g[f] = reads[u][f]
    BY <1>6, <2>1
  <2>3. reads' = [reads EXCEPT ![u] = g]
    BY <1>8
  <2> HIDE DEF g, f0
  <2>4. reads'[u] = g
    BY <1>2, <2>3
  <2> QED BY <1>1, <1>2, <2>1, <2>2, <2>3, <2>4
<1>10. Reader!TypeOK'
  <2>1. /\ detail' \in [Reader!Users -> Nat] /\ tries' \in [Reader!Users -> 0 .. retryCnt]
        /\ userPc' \in [Reader!Users -> {"next", "read", "send"}]
    BY <1>1, <1>2
  <2> QED BY <1>1, <1>9, <2>1 DEF ReaderInv, Reader!TypeOK
<1>11. /\ Places' = Places /\ \A v, e : Reader!fi(v, e)' = Reader!fi(v, e)
  BY <1>1 DEF Places, Reader!userContentLimit, Reader!fi
<1>12. \A f \in Reader!Contents :
         (\A e \in 1 .. Places : Reader!fi(u, e) # f) => reads'[u][f] = 0
  <2> SUFFICES ASSUME NEW f \in Reader!Contents, \A e \in 1 .. Places : Reader!fi(u, e) # f
               PROVE  reads'[u][f] = 0
    OBVIOUS
  <2>1. f # f0
    BY <1>4
  <2>2. reads[u][f] = 0
    BY DEF ReaderInv, RoundAndRound
  <2> QED BY <1>9, <2>1, <2>2
<1>13. ASSUME NEW e \in 1 .. Places
       PROVE  reads'[u][Reader!fi(u, 1)] =
                reads'[u][Reader!fi(u, e)] + (IF e <= d THEN 0 ELSE 1)
  <2> DEFINE x == Reader!fi(u, 1)  y == Reader!fi(u, e)
  <2>1. 1 \in 1 .. Places /\ x \in Reader!Contents /\ y \in Reader!Contents
    BY <1>2, <1>5
  <2>2. /\ x = f0 <=> 1 = d
        /\ y = f0 <=> e = d
    BY <1>6, <2>1
  <2>3. reads[u][x] \in Nat /\ reads[u][y] \in Nat /\ reads[u][f0] \in Nat
    BY <1>6, <1>9, <2>1
  <2>4. /\ reads'[u][x] = reads[u][x] + (IF 1 = d THEN 1 ELSE 0)
        /\ reads'[u][y] = reads[u][y] + (IF e = d THEN 1 ELSE 0)
    BY <1>9, <2>1, <2>2, <2>3
  <2>5. /\ detail[u] = 0 => reads[u][x] = 0 /\ reads[u][y] = 0
        /\ detail[u] > 0 => reads[u][x] = reads[u][y] + (IF e <= detail[u] THEN 0 ELSE 1)
    BY <2>1 DEF ReaderInv, RoundAndRound
  <2>6. e \in 1 .. Places
    OBVIOUS
  <2> HIDE DEF x, y
  <2>7. reads'[u][x] = reads'[u][y] + (IF e <= d THEN 0 ELSE 1)
    <3>1. detail[u] \in 0 .. Places
      BY <1>2, <1>3
    <3>2. reads[u][x] + (IF 1 = d THEN 1 ELSE 0) =
            reads[u][y] + (IF e = d THEN 1 ELSE 0) + (IF e <= d THEN 0 ELSE 1)
      BY <1>2, <1>4, <2>3, <2>5, <2>6, <3>1, GoRound
    <3> QED BY <2>4, <3>2
  <2> QED BY <2>7 DEF x, y
<1> HIDE DEF f0
<1>14. RoundAndRound'
  <2> SUFFICES ASSUME NEW v \in Reader!Users
               PROVE  /\ detail'[v] <= Places
                      /\ \A f \in Reader!Contents :
                           (\A e \in 1 .. Places : Reader!fi(v, e) # f) => reads'[v][f] = 0
                      /\ detail'[v] = 0 => \A f \in Reader!Contents : reads'[v][f] = 0
                      /\ detail'[v] > 0 =>
                           \A e \in 1 .. Places :
                             reads'[v][Reader!fi(v, 1)] =
                               reads'[v][Reader!fi(v, e)] + (IF e <= detail'[v] THEN 0 ELSE 1)
    BY <1>11 DEF RoundAndRound
  <2>1. CASE v = u
    <3>1. d <= Places /\ d # 0
      BY <1>2, <1>4
    <3> QED BY <1>7, <1>12, <1>13, <2>1, <3>1
  <2>2. CASE v # u
    BY <1>9, <2>2 DEF ReaderInv, RoundAndRound
  <2> QED BY <2>1, <2>2
<1>15. Counted'
  <2>1. Sending' = Sending
    BY <1>1, <1>2 DEF Sending
  <2>2. DoneReads' = DoneReads
    BY <1>1 DEF DoneReads
  <2> QED BY <1>1, <1>2, <2>1, <2>2 DEF ReaderInv, Counted
<1> QED BY <1>10, <1>14, <1>15 DEF ReaderInv

\* Whatever else happens, no user goes on in its part.
LEMMA NoneGoesOn ==
  ASSUME RoundAndRound, contentN' = contentN, detail' = detail, reads' = reads
  PROVE  RoundAndRound'
BY DEF RoundAndRound, Places, Reader!userContentLimit, Reader!fi

LEMMA ReaderAnswered ==
  ASSUME Reader!FlagsAssumption, Reader!RetryAssumption, ReaderInv,
         NEW u \in Reader!Users, Reader!ReadOk(u) \/ Reader!ReadLost(u)
  PROVE  ReaderInv'
<1>1. /\ userPc[u] = "read" /\ userPc' = [userPc EXCEPT ![u] = "send"]
      /\ \/ good' = good + 1 /\ userLost' = userLost
         \/ good' = good /\ userLost' = userLost + 1 /\ via # "http"
      /\ contentN' = contentN /\ via' = via /\ process' = process /\ j' = j
      /\ detail' = detail /\ tries' = tries /\ reads' = reads /\ totalReaded' = totalReaded
  BY DEF Reader!ReadOk, Reader!ReadLost, Reader!Goto
<1>2. /\ userPc \in [Reader!Users -> {"next", "read", "send"}]
      /\ totalReaded \in Nat /\ good \in Nat /\ userLost \in Nat
  BY ReaderTyped
<1>3. Reader!TypeOK'
  <2>1. userPc' \in [Reader!Users -> {"next", "read", "send"}] /\ good' \in Nat /\ userLost' \in Nat
    BY <1>1, <1>2
  <2> QED BY <1>1, <2>1 DEF ReaderInv, Reader!TypeOK
<1>4. Sending' = Sending \cup {u} /\ u \notin Sending
  BY <1>1, <1>2 DEF Sending
<1>5. IsFiniteSet(Sending) /\ Cardinality(Sending) \in Nat
  BY FS_CardinalityType DEF ReaderInv, Counted
<1>6. IsFiniteSet(Sending') /\ Cardinality(Sending') = Cardinality(Sending) + 1
  BY <1>4, <1>5, FS_AddElement
<1>7. DoneReads' = DoneReads
  BY <1>1 DEF DoneReads
<1>8. totalReaded + Cardinality(Sending') = good' + userLost'
  <2>1. totalReaded + Cardinality(Sending) = good + userLost
    BY DEF ReaderInv, Counted
  <2> QED BY ONLY <1>1, <1>2, <1>5, <1>6, <2>1
<1>9. \A v \in Reader!Users : userPc'[v] # "next" => userPc[v] # "next"
  BY <1>1, <1>2
<1>10. Counted'
  BY <1>1, <1>6, <1>7, <1>8, <1>9 DEF ReaderInv, Counted
<1> QED BY <1>1, <1>3, <1>10, NoneGoesOn DEF ReaderInv

LEMMA ReaderSend ==
  ASSUME Reader!FlagsAssumption, Reader!RetryAssumption, ReaderInv,
         NEW u \in Reader!Users, Reader!Send(u)
  PROVE  ReaderInv'
<1>1. /\ userPc[u] = "send" /\ userPc' = [userPc EXCEPT ![u] = "next"]
      /\ totalReaded' = totalReaded + 1 /\ j' = [j EXCEPT ![u] = j[u] + 1]
      /\ contentN' = contentN /\ via' = via /\ process' = process
      /\ detail' = detail /\ tries' = tries /\ reads' = reads
      /\ good' = good /\ userLost' = userLost
  BY DEF Reader!Send, Reader!Goto
<1>2. /\ userPc \in [Reader!Users -> {"next", "read", "send"}]
      /\ j \in [Reader!Users -> 0 .. loop] /\ loop \in Nat
      /\ totalReaded \in Nat /\ good \in Nat /\ userLost \in Nat
  BY ReaderTyped
<1>3. j[u] < loop /\ j[u] \in Nat
  BY <1>1, <1>2 DEF ReaderInv, Counted
<1>4. Reader!TypeOK'
  <2>1. /\ userPc' \in [Reader!Users -> {"next", "read", "send"}]
        /\ j' \in [Reader!Users -> 0 .. loop] /\ totalReaded' \in Nat
    BY <1>1, <1>2, <1>3
  <2> QED BY <1>1, <2>1 DEF ReaderInv, Reader!TypeOK
<1>5. /\ IsFiniteSet(Sending) /\ Cardinality(Sending) \in Nat
      /\ IsFiniteSet(DoneReads) /\ Cardinality(DoneReads) \in Nat
  BY FS_CardinalityType DEF ReaderInv, Counted
<1>6. Sending' = Sending \ {u} /\ u \in Sending
  BY <1>1, <1>2 DEF Sending
<1>7. IsFiniteSet(Sending') /\ Cardinality(Sending') = Cardinality(Sending) - 1
  BY <1>5, <1>6, FS_RemoveElement
<1>8. DoneReads' = DoneReads \cup {<<u, j[u] + 1>>} /\ <<u, j[u] + 1>> \notin DoneReads
  <2>1. <<u, j[u] + 1>> \in Reader!Users \X (1 .. loop)
    BY <1>2, <1>3
  <2>2. ASSUME NEW v \in Reader!Users, NEW k \in 1 .. loop
        PROVE  k <= j'[v] <=> k <= j[v] \/ (v = u /\ k = j[u] + 1)
    <3>1. CASE v = u
      <4>1. j'[v] = j[u] + 1
        BY <1>1, <1>2, <3>1
      <4>2. k \in Nat
        BY <1>2
      <4> QED BY <1>3, <3>1, <4>1, <4>2
    <3>2. CASE v # u
      BY <1>1, <1>2, <3>2
    <3> QED BY <3>1, <3>2
  <2>3. ASSUME NEW r \in Reader!Users \X (1 .. loop)
        PROVE  r[2] <= j'[r[1]] <=> r[2] <= j[r[1]] \/ r = <<u, j[u] + 1>>
    <3>1. r[1] \in Reader!Users /\ r[2] \in 1 .. loop /\ r = <<r[1], r[2]>>
      OBVIOUS
    <3>2. r = <<u, j[u] + 1>> <=> r[1] = u /\ r[2] = j[u] + 1
      BY <3>1
    <3> QED BY <2>2, <3>1, <3>2
  <2>4. DoneReads' = DoneReads \cup {<<u, j[u] + 1>>}
    BY <2>1, <2>3 DEF DoneReads
  <2>5. ~(j[u] + 1 <= j[u])
    BY <1>3
  <2> QED BY <2>4, <2>5 DEF DoneReads
<1>9. IsFiniteSet(DoneReads') /\ Cardinality(DoneReads') = Cardinality(DoneReads) + 1
  BY <1>5, <1>8, FS_AddElement
<1>10. /\ totalReaded' + Cardinality(Sending') = good + userLost
       /\ totalReaded' = Cardinality(DoneReads')
  <2>1. totalReaded + Cardinality(Sending) = good + userLost /\ totalReaded = Cardinality(DoneReads)
    BY DEF ReaderInv, Counted
  <2> QED BY ONLY <1>1, <1>2, <1>5, <1>7, <1>9, <2>1
<1>11. \A v \in Reader!Users : userPc'[v] # "next" => userPc[v] # "next" /\ j'[v] = j[v]
  BY <1>1, <1>2
<1>12. Counted'
  BY <1>1, <1>7, <1>9, <1>10, <1>11 DEF ReaderInv, Counted
<1> QED BY <1>1, <1>4, <1>12, NoneGoesOn DEF ReaderInv

LEMMA ReaderElse ==
  ASSUME Reader!FlagsAssumption, Reader!RetryAssumption, ReaderInv,
         \/ Reader!TimeUp
         \/ \E u \in Reader!Users : Reader!Retry(u) \/ Reader!HttpReadPanics(u)
         \/ UNCHANGED Reader!vars
  PROVE  ReaderInv'
<1>1. /\ contentN' = contentN /\ via' = via /\ j' = j /\ userPc' = userPc
      /\ detail' = detail /\ reads' = reads /\ totalReaded' = totalReaded
      /\ good' = good /\ userLost' = userLost
      /\ process' \in {process, "ended"} \/ (process' = "panicked" /\ via = "http")
  BY DEF Reader!TimeUp, Reader!Retry, Reader!HttpReadPanics, Reader!vars
<1>2. tries' \in [Reader!Users -> 0 .. retryCnt]
  <2>1. tries \in [Reader!Users -> 0 .. retryCnt] /\ retryCnt \in Nat
    BY ReaderTyped
  <2>2. CASE \E u \in Reader!Users : Reader!Retry(u)
    <3> PICK u \in Reader!Users : Reader!Retry(u)
      BY <2>2
    <3>1. tries' = [tries EXCEPT ![u] = tries[u] + 1] /\ tries[u] < retryCnt
      BY DEF Reader!Retry
    <3> QED BY <2>1, <3>1
  <2> QED BY <2>1, <2>2 DEF Reader!TimeUp, Reader!HttpReadPanics, Reader!vars
<1>3. Reader!TypeOK'
  BY <1>1, <1>2 DEF ReaderInv, Reader!TypeOK
<1>4. Sending' = Sending /\ DoneReads' = DoneReads
  BY <1>1 DEF Sending, DoneReads
<1>5. Counted'
  BY <1>1, <1>4 DEF ReaderInv, Counted
<1> QED BY <1>1, <1>3, <1>5, NoneGoesOn DEF ReaderInv

LEMMA ReaderStarts ==
  ASSUME Reader!FlagsAssumption, Reader!RetryAssumption
  PROVE  Reader!Init => ReaderInv
<1> SUFFICES ASSUME Reader!Init PROVE ReaderInv
  OBVIOUS
<1>1. userN \in Nat /\ userN > 0 /\ loop \in Nat /\ retryCnt \in Nat /\ contentN \in Nat
  BY DEF Reader!FlagsAssumption, Reader!RetryAssumption, Reader!Init
<1>2. Places \in Nat /\ Places > 0
  <2>1. Reader!userContentLimit \in Nat
    BY <1>1, Laps DEF Reader!userContentLimit
  <2> QED BY <2>1 DEF Places
<1>3. Reader!TypeOK
  BY <1>1 DEF Reader!Init, Reader!TypeOK
<1>4. RoundAndRound
  BY <1>2 DEF Reader!Init, RoundAndRound
<1>5. Sending = {} /\ DoneReads = {}
  BY DEF Reader!Init, Sending, DoneReads
<1>6. Cardinality(Sending) = 0 /\ Cardinality(DoneReads) = 0 /\ IsFiniteSet(Sending) /\ IsFiniteSet(DoneReads)
  BY <1>5, FS_EmptySet
<1>7. Counted
  BY <1>6 DEF Reader!Init, Counted
<1> QED BY <1>3, <1>4, <1>7 DEF ReaderInv

LEMMA PartsAreEven ==
  ASSUME Reader!FlagsAssumption, Reader!RetryAssumption, ReaderInv
  PROVE  Reader!UsersExplained
<1> DEFINE L == Reader!userContentLimit
<1>1. /\ L \in Nat /\ Places = IF L = 0 THEN 1 ELSE L
      /\ \A u \in Reader!Users : u \in Nat
      /\ detail \in [Reader!Users -> Nat]
      /\ reads \in [Reader!Users -> [Reader!Contents -> Nat]]
  BY ReaderTyped DEF Places
<1>2. L = 0 => \A u \in Reader!Users, f \in Reader!Contents \ {1} : reads[u][f] = 0
  <2> SUFFICES ASSUME L = 0, NEW u \in Reader!Users, NEW f \in Reader!Contents, f # 1
               PROVE  reads[u][f] = 0
    OBVIOUS
  <2>1. Reader!fi(u, 1) = 1
    BY PartIs
  <2>2. \A d \in 1 .. Places : d = 1
    BY <1>1
  <2>3. \A d \in 1 .. Places : Reader!fi(u, d) # f
    BY <2>1, <2>2
  <2> QED BY <2>3 DEF ReaderInv, RoundAndRound
<1>3. L # 0 => \A u \in Reader!Users : \A f \in Reader!Contents \ Reader!Part(u) : reads[u][f] = 0
  <2> SUFFICES ASSUME L # 0, NEW u \in Reader!Users, NEW f \in Reader!Contents, f \notin Reader!Part(u)
               PROVE  reads[u][f] = 0
    OBVIOUS
  <2>1. \A d \in 1 .. Places : Reader!fi(u, d) # f
    BY <1>1 DEF Reader!Part
  <2> QED BY <2>1 DEF ReaderInv, RoundAndRound
<1>4. L # 0 => \A u \in Reader!Users : \A f, g \in Reader!Part(u) :
                 f < g => reads[u][f] - reads[u][g] \in {0, 1}
  <2> SUFFICES ASSUME L # 0, NEW u \in Reader!Users,
                      NEW d \in 1 .. L, NEW e \in 1 .. L, Reader!fi(u, d) < Reader!fi(u, e)
               PROVE  reads[u][Reader!fi(u, d)] - reads[u][Reader!fi(u, e)] \in {0, 1}
    BY DEF Reader!Part
  <2>1. d \in 1 .. Places /\ e \in 1 .. Places /\ 1 \in 1 .. Places
    BY <1>1
  <2>2. d < e
    <3> PICK base \in Int : \A c \in 1 .. Places : Reader!fi(u, c) = base + c
      BY PartIs
    <3>1. base + d < base + e
      BY <2>1
    <3> QED BY <1>1, <3>1
  <2>3. /\ Reader!fi(u, 1) \in Reader!Contents /\ Reader!fi(u, d) \in Reader!Contents
        /\ Reader!fi(u, e) \in Reader!Contents
    BY <2>1, PartIs
  <2> DEFINE x == reads[u][Reader!fi(u, 1)]  y == reads[u][Reader!fi(u, d)]
             z == reads[u][Reader!fi(u, e)]
  <2>4. x \in Nat /\ y \in Nat /\ z \in Nat /\ detail[u] \in Nat
    BY <1>1, <2>3
  <2>5. /\ detail[u] = 0 => y = 0 /\ z = 0
        /\ detail[u] > 0 => /\ x = y + (IF d <= detail[u] THEN 0 ELSE 1)
                            /\ x = z + (IF e <= detail[u] THEN 0 ELSE 1)
    BY <2>1, <2>3 DEF ReaderInv, RoundAndRound
  <2>6. d \in Nat /\ e \in Nat
    BY <1>1
  <2> HIDE DEF x, y, z
  <2>7. y - z \in {0, 1}
    BY ONLY <2>2, <2>4, <2>5, <2>6
  <2> QED BY <2>7 DEF y, z
<1>5. L # 0 => \A u, v \in Reader!Users : u # v => Reader!Part(u) \cap Reader!Part(v) = {}
  <2>1. ASSUME L # 0, NEW u \in Reader!Users, NEW v \in Reader!Users, u < v,
               NEW d \in 1 .. L, NEW e \in 1 .. L
        PROVE  Reader!fi(u, d) # Reader!fi(v, e)
    <3>0. L \in Nat /\ L > 0 /\ u \in Nat /\ v \in Nat
      BY <1>1, <2>1
    <3> HIDE DEF L
    <3>1. (u - 1) * L + d < (v - 1) * L + e
      BY <2>1, <3>0, PartsApart
    <3>2. (u - 1) * L + d \in Int /\ (v - 1) * L + e \in Int
      BY <3>0
    <3>3. (u - 1) * L + d # (v - 1) * L + e
      BY <3>1, <3>2
    <3> QED BY <3>3 DEF Reader!fi, L
  <2>2. \A u, v \in Reader!Users : u # v => u < v \/ v < u
    <3> SUFFICES ASSUME NEW u \in Reader!Users, NEW v \in Reader!Users, u # v
                 PROVE  u < v \/ v < u
      OBVIOUS
    <3>1. u \in Nat /\ v \in Nat
      BY <1>1
    <3> QED BY <3>1
  <2> QED BY <2>1, <2>2 DEF Reader!Part
<1>6. Reader!CountExplained
  BY ReaderSets DEF ReaderInv, Counted, Sending, DoneReads, Reader!CountExplained
<1> QED BY <1>2, <1>3, <1>4, <1>5, <1>6 DEF Reader!UsersExplained, Reader!ReadsEven, ReaderInv

LEMMA ReaderSafe ==
  ASSUME Reader!FlagsAssumption, Reader!RetryAssumption
  PROVE  Reader!Spec => []Reader!UsersExplained
<1>1. ReaderInv /\ [Reader!Next]_(Reader!vars) => ReaderInv'
  BY ReaderBegin, ReaderAnswered, ReaderSend, ReaderElse DEF Reader!Next, Reader!Step
<1> QED BY <1>1, ReaderStarts, PartsAreEven, PTL DEF Reader!Spec

-----------------------------------------------------------------------------
(* hlsclient: the first chunks of a playlist.                              *)

\* The proofs about the tools that send and write a stream, and with them what is
\* known of loops.
Dumps == INSTANCE StreamDumpProofs WITH MaxSize <- MaxStream, out <- dumpOut

\* The step of the loop over the lines of the playlist.
TakeChunk ==
  [x \in Nat \X Seq(Nat) |-> IF Hls!IsChunk(x[1]) THEN Append(x[2], x[1]) ELSE x[2]]

LEMMA TakeIs ==
  /\ TakeChunk \in [Nat \X Seq(Nat) -> Seq(Nat)]
  /\ \A k \in Nat, x \in Seq(Nat) :
       TakeChunk[<<k, x>>] = IF Hls!IsChunk(k) THEN Append(x, k) ELSE x
<1>1. ASSUME NEW x \in Nat \X Seq(Nat)
      PROVE  (IF Hls!IsChunk(x[1]) THEN Append(x[2], x[1]) ELSE x[2]) \in Seq(Nat)
  <2>1. x[1] \in Nat /\ x[2] \in Seq(Nat)
    OBVIOUS
  <2>2. Append(x[2], x[1]) \in Seq(Nat)
    BY <2>1, AppendProperties
  <2> QED BY <2>1, <2>2
<1>2. TakeChunk \in [Nat \X Seq(Nat) -> Seq(Nat)]
  BY <1>1 DEF TakeChunk
<1>3. ASSUME NEW k \in Nat, NEW x \in Seq(Nat)
      PROVE  TakeChunk[<<k, x>>] = IF Hls!IsChunk(k) THEN Append(x, k) ELSE x
  <2>1. <<k, x>> \in Nat \X Seq(Nat)
    OBVIOUS
  <2> QED BY <2>1 DEF TakeChunk
<1> QED BY <1>2, <1>3

LEMMA ChunksAreLoop ==
  ASSUME NEW n \in Nat, NEW f, Dumps!Loop(f, 0, n, <<>>, TakeChunk, Seq(Nat))
  PROVE  Hls!ChunksUpTo(n) = f[n]
<1> DEFINE Sol(g) == g = [k \in 0 .. n |->
                            IF k = 0 THEN <<>>
                            ELSE IF Hls!IsChunk(k) THEN Append(g[k - 1], k) ELSE g[k - 1]]
           upTo == CHOOSE g : Sol(g)
           step == TakeChunk
<1>1. Hls!ChunksUpTo(n) = upTo[n]
  BY DEF Hls!ChunksUpTo
<1> HIDE DEF step
<1>0. \A k \in Nat, x \in Seq(Nat) : step[<<k, x>>] = IF Hls!IsChunk(k) THEN Append(x, k) ELSE x
  BY TakeIs DEF step
<1>2. Sol(f)
  <2>1. f \in [0 .. n -> Seq(Nat)] /\ f[0] = <<>>
    BY DEF Dumps!Loop
  <2>2. ASSUME NEW k \in 0 .. n, k > 0
        PROVE  f[k] = IF Hls!IsChunk(k) THEN Append(f[k - 1], k) ELSE f[k - 1]
    <3>1. f[k - 1] \in Seq(Nat) /\ k \in Nat
      BY <2>1, <2>2
    <3>2. f[k] = step[<<k, f[k - 1]>>]
      BY <2>2 DEF Dumps!Loop, step
    <3> QED BY <1>0, <3>1, <3>2
  <2> QED BY <2>1, <2>2
<1>3. Sol(upTo)
  <2> HIDE DEF Sol
  <2> QED BY <1>2
<1> HIDE DEF upTo
<1>4. upTo[0] = <<>>
  BY <1>3
<1>7. \A k \in 0 .. n : k # 0 =>
        upTo[k] = IF Hls!IsChunk(k) THEN Append(upTo[k - 1], k) ELSE upTo[k - 1]
  BY <1>3
<1> HIDE DEF Sol
<1>5. ASSUME NEW k \in 0 .. n, k > 0, upTo[k - 1] \in Seq(Nat)
      PROVE  upTo[k] = step[<<k, upTo[k - 1]>>]
  <2>1. k # 0 /\ k \in Nat
    BY <1>5
  <2> QED BY <1>0, <1>5, <1>7, <2>1
<1>6. \A k \in 0 .. n : upTo[k] = f[k]
  <2>1. Dumps!Meets(upTo, 0, n, <<>>, step, Seq(Nat)) /\ 0 \in Nat
    BY <1>4, <1>5 DEF Dumps!Meets
  <2>2. Dumps!Loop(f, 0, n, <<>>, step, Seq(Nat))
    BY DEF step
  <2> QED BY <2>1, <2>2, Dumps!LoopIsOne
<1> QED BY <1>1, <1>6

\* The chunks of one line more.
LEMMA ChunksMore ==
  ASSUME NEW n \in Nat
  PROVE  /\ Hls!ChunksUpTo(0) = <<>>
         /\ Hls!ChunksUpTo(n) \in Seq(Nat)
         /\ Hls!ChunksUpTo(n + 1) =
              IF Hls!IsChunk(n + 1) THEN Append(Hls!ChunksUpTo(n), n + 1) ELSE Hls!ChunksUpTo(n)
<1> DEFINE step == TakeChunk
           S == Seq(Nat)
<1>0. step \in [Nat \X S -> S] /\ <<>> \in S
  BY TakeIs, EmptySeq
<1> HIDE DEF step, S
<1>1. PICK f : Dumps!Loop(f, 0, n + 1, <<>>, step, S)
  <2>1. n + 1 \in Nat /\ 0 <= n + 1 /\ 0 \in Nat
    OBVIOUS
  <2> QED BY <1>0, <2>1, Dumps!LoopEnds
<1>2. ASSUME NEW q \in 0 .. n + 1
      PROVE  Hls!ChunksUpTo(q) = f[q]
  <2> DEFINE g == [k \in 0 .. q |-> f[k]]
  <2>1. Dumps!Loop(g, 0, q, <<>>, step, S)
    <3>1. 0 \in Nat /\ n + 1 \in Nat
      OBVIOUS
    <3> QED BY <1>1, <3>1, Dumps!LoopShorter
  <2>2. g[q] = f[q]
    OBVIOUS
  <2> HIDE DEF g
  <2>3. q \in Nat
    OBVIOUS
  <2> QED BY <2>1, <2>2, <2>3, ChunksAreLoop DEF step, S
<1>3. f \in [0 .. n + 1 -> S] /\ f[0] = <<>> /\ f[n + 1] = step[<<n + 1, f[n]>>]
  <2>1. n + 1 \in 0 .. n + 1 /\ n + 1 > 0 /\ (n + 1) - 1 = n
    OBVIOUS
  <2> QED BY <1>1, <2>1 DEF Dumps!Loop
<1>4. f[n] \in S /\ n + 1 \in Nat
  BY <1>3
<1>5. f[n + 1] = IF Hls!IsChunk(n + 1) THEN Append(f[n], n + 1) ELSE f[n]
  <2>1. step[<<n + 1, f[n]>>] = IF Hls!IsChunk(n + 1) THEN Append(f[n], n + 1) ELSE f[n]
    BY <1>4, TakeIs DEF step, S
  <2> QED BY <1>3, <2>1
<1>6. 0 \in 0 .. n + 1 /\ n \in 0 .. n + 1 /\ n + 1 \in 0 .. n + 1
  OBVIOUS
<1> QED BY <1>2, <1>3, <1>4, <1>5, <1>6 DEF S

\* More lines have the chunks of fewer lines first, and then chunks behind those.
LEMMA ChunksPrefix ==
  ASSUME NEW m \in Nat
  PROVE  \A n \in Nat : m <= n =>
           LET x == Hls!ChunksUpTo(m)
               y == Hls!ChunksUpTo(n)
           IN /\ x \in Seq(Nat) /\ y \in Seq(Nat)
              /\ Len(x) \in Nat /\ Len(y) \in Nat /\ Len(x) <= Len(y)
              /\ \A k \in 1 .. Len(x) : y[k] = x[k]
              /\ \A k \in 1 .. Len(y) : k > Len(x) => y[k] \in m + 1 .. n
<1> DEFINE C(n) == Hls!ChunksUpTo(n)
           Ok == {n \in Nat : m <= n =>
                    /\ Len(C(m)) <= Len(C(n))
                    /\ \A k \in 1 .. Len(C(m)) : C(n)[k] = C(m)[k]
                    /\ \A k \in 1 .. Len(C(n)) : k > Len(C(m)) => C(n)[k] \in m + 1 .. n}
<1>1. \A n \in Nat : /\ C(n) \in Seq(Nat) /\ Len(C(n)) \in Nat
                     /\ C(n + 1) = IF Hls!IsChunk(n + 1) THEN Append(C(n), n + 1) ELSE C(n)
  BY ChunksMore, LenProperties
<1> HIDE DEF C
<1>2. 0 \in Ok
  <2> SUFFICES ASSUME m <= 0
               PROVE  /\ Len(C(m)) <= Len(C(0))
                      /\ \A k \in 1 .. Len(C(m)) : C(0)[k] = C(m)[k]
                      /\ \A k \in 1 .. Len(C(0)) : k > Len(C(m)) => C(0)[k] \in m + 1 .. 0
    OBVIOUS
  <2>1. m = 0
    OBVIOUS
  <2> QED BY <1>1, <2>1
<1>3. ASSUME NEW n \in Nat, n \in Ok
      PROVE  n + 1 \in Ok
  <2> DEFINE x == C(m)  y == C(n)  z == C(n + 1)
  <2> SUFFICES ASSUME m <= n + 1
               PROVE  /\ Len(x) <= Len(z)
                      /\ \A k \in 1 .. Len(x) : z[k] = x[k]
                      /\ \A k \in 1 .. Len(z) : k > Len(x) => z[k] \in m + 1 .. n + 1
    OBVIOUS
  <2>0. x \in Seq(Nat) /\ y \in Seq(Nat) /\ z \in Seq(Nat)
        /\ Len(x) \in Nat /\ Len(y) \in Nat /\ Len(z) \in Nat
    <3>1. n + 1 \in Nat
      OBVIOUS
    <3> QED BY <1>1, <3>1
  <2>1. CASE m = n + 1
    BY <2>0, <2>1
  <2>2. CASE m # n + 1
    <3>1. /\ m <= n /\ Len(x) <= Len(y)
          /\ \A k \in 1 .. Len(x) : y[k] = x[k]
          /\ \A k \in 1 .. Len(y) : k > Len(x) => y[k] \in m + 1 .. n
      BY <1>3, <2>2
    <3>2. CASE ~ Hls!IsChunk(n + 1)
      <4>1. z = y
        BY <1>1, <3>2
      <4> HIDE DEF x, y, z
      <4> QED BY <2>0, <3>1, <4>1
    <3>3. CASE Hls!IsChunk(n + 1)
      <4>1. z = Append(y, n + 1)
        BY <1>1, <3>3
      <4> HIDE DEF x, y, z
      <4>2. /\ Len(z) = Len(y) + 1 /\ z[Len(y) + 1] = n + 1
            /\ \A k \in 1 .. Len(y) : z[k] = y[k]
        BY <2>0, <4>1, AppendProperties
      <4>3. \A k \in 1 .. Len(x) : z[k] = x[k]
        BY <2>0, <3>1, <4>2
      <4>4. ASSUME NEW k \in 1 .. Len(z), k > Len(x)
            PROVE  z[k] \in m + 1 .. n + 1
        <5>1. k \in 1 .. Len(y) \/ k = Len(y) + 1
          BY <2>0, <4>2
        <5>2. CASE k \in 1 .. Len(y)
          <6>1. z[k] = y[k] /\ y[k] \in m + 1 .. n
            BY <3>1, <4>2, <4>4, <5>2
          <6> QED BY <6>1
        <5>3. CASE k = Len(y) + 1
          <6>1. z[k] = n + 1
            BY <4>2, <5>3
          <6> QED BY <3>1, <6>1
        <5> QED BY <5>1, <5>2, <5>3
      <4> QED BY <2>0, <3>1, <4>2, <4>3, <4>4
    <3> QED BY <3>2, <3>3
  <2> QED BY <2>1, <2>2
<1>4. Nat \subseteq Ok
  <2> HIDE DEF Ok
  <2> QED BY <1>2, <1>3, Dumps!NaturalInduction
<1> QED BY <1>1, <1>4 DEF C

\* The client is right about the lines it has scanned: an EXTINF was followed by an
\* absolute URI, and those are the chunks.  A line that broke off is the last one.
AbsoluteSoFar ==
  \A k \in 1 .. at - 1 : playlist[k] = "extinf" => playlist[k + 1] = "absolute"

HlsInv ==
  /\ Hls!TypeOK
  /\ fetched = Hls!ChunksUpTo(at)
  /\ ~cut => (nextContent <=> at > 0 /\ playlist[at] = "extinf")
  /\ AbsoluteSoFar
  /\ maxChunk >= 0 => Len(fetched) <= maxChunk
  /\ hlsPc = "playlist" \/ m3u8only => at = 0
  /\ hlsPc = "scan" => ~m3u8only /\ (at = 0 \/ Len(fetched) # maxChunk)
  /\ hlsPc = "done" => m3u8only \/ Len(fetched) = maxChunk \/ at = Len(playlist) \/ cut
  /\ hlsPc = "fatal" /\ ~broke /\ ~cut =>
       /\ ~m3u8only /\ at < Len(playlist) /\ nextContent /\ playlist[at + 1] # "absolute"
       /\ Len(fetched) # maxChunk

LEMMA HlsTyped ==
  ASSUME Hls!CountsAssumption, Hls!TypeOK
  PROVE  /\ Len(playlist) \in Nat /\ at \in Nat /\ at <= Len(playlist)
         /\ \A k \in 1 .. Len(playlist) : playlist[k] \in Hls!Lines
         /\ maxChunk \in Int /\ m3u8only \in BOOLEAN /\ nextContent \in BOOLEAN /\ broke \in BOOLEAN
         /\ cut \in BOOLEAN
         /\ fetched \in Seq(1 .. at) /\ Len(fetched) \in Nat /\ cntCount = Len(fetched)
<1>1. maxChunk \in Int /\ MaxLines \in Nat
  BY DEF Hls!CountsAssumption, Hls!TypeOK
<1>2. playlist \in Seq(Hls!Lines)
  <2>1. playlist \in UNION {[1 .. m -> Hls!Lines] : m \in 0 .. MaxLines}
    BY DEF Hls!TypeOK, Hls!BoundedSeq, Hls!SeqOf
  <2>2. PICK m \in 0 .. MaxLines : playlist \in [1 .. m -> Hls!Lines]
    BY <2>1
  <2>3. m \in Nat
    BY <1>1
  <2> QED BY <2>2, <2>3, FunctionIsSeq
<1>3. Len(playlist) \in Nat /\ \A k \in 1 .. Len(playlist) : playlist[k] \in Hls!Lines
  BY <1>2, LenProperties, ElementOfSeq
<1>4. at \in 0 .. Len(playlist) /\ fetched \in Seq(1 .. at) /\ cntCount = Len(fetched)
  BY DEF Hls!TypeOK
<1>5. Len(fetched) \in Nat
  BY <1>4, LenProperties
<1> QED BY <1>1, <1>3, <1>4, <1>5 DEF Hls!TypeOK

\* Which line is a chunk, after the lines that were scanned.
LEMMA NextIsChunk ==
  ASSUME Hls!CountsAssumption, HlsInv, at < Len(playlist), ~cut,
         nextContent => playlist[at + 1] = "absolute"
  PROVE  Hls!IsChunk(at + 1) <=> nextContent
<1>1. at \in Nat /\ at + 1 \in Nat /\ (at + 1) - 1 = at
  BY HlsTyped DEF HlsInv
<1>2. Hls!IsChunk(at + 1) <=>
        /\ playlist[at + 1] \in Hls!URIs
        /\ \E e \in 1 .. at :
             playlist[e] = "extinf" /\ \A k \in e + 1 .. at : playlist[k] \notin Hls!URIs
  BY <1>1 DEF Hls!IsChunk
<1>3. ASSUME nextContent
      PROVE  Hls!IsChunk(at + 1)
  <2>1. at \in 1 .. at /\ playlist[at] = "extinf" /\ playlist[at + 1] \in Hls!URIs
    BY <1>1, <1>3 DEF HlsInv, Hls!URIs
  <2>2. at + 1 .. at = {}
    BY <1>1
  <2> QED BY <1>2, <2>1, <2>2
<1>4. ASSUME Hls!IsChunk(at + 1), ~nextContent
      PROVE  FALSE
  <2>1. PICK e \in 1 .. at :
          playlist[e] = "extinf" /\ \A k \in e + 1 .. at : playlist[k] \notin Hls!URIs
    BY <1>2, <1>4
  <2>2. e # at
    BY <1>1, <1>4, <2>1 DEF HlsInv
  <2>3. e \in 1 .. at - 1 /\ e + 1 \in e + 1 .. at
    BY <1>1, <2>2
  <2>4. playlist[e + 1] = "absolute"
    BY <2>1, <2>3 DEF HlsInv, AbsoluteSoFar
  <2> QED BY <2>1, <2>3, <2>4 DEF Hls!URIs
<1> QED BY <1>3, <1>4 DEF HlsInv

LEMMA PlaylistStays ==
  ASSUME playlist' = playlist
  PROVE  Hls!ChunksUpTo(at)' = Hls!ChunksUpTo(at')
BY DEF Hls!ChunksUpTo, Hls!IsChunk

\* What s.Scan() gives is the next line; of one that breaks off it is not told
\* whether it was an EXTINF.
LEMMA ScanIs ==
  ASSUME cut \in BOOLEAN, NEW line, Hls!Scan(line)
  PROVE  /\ hlsPc = "scan" /\ ~cut /\ at < Len(playlist) /\ cut' \in BOOLEAN
         /\ line = "absolute" => playlist[at + 1] = "absolute"
         /\ ~cut' => line = playlist[at + 1]
<1>1. CASE line = playlist[at + 1] /\ cut' = cut
  BY <1>1 DEF Hls!Scan
<1>2. CASE line \in Hls!Beginnings(playlist[at + 1]) /\ cut' = TRUE
  <2>1. line = "absolute" => playlist[at + 1] = "absolute"
    BY <1>2 DEF Hls!Beginnings
  <2> QED BY <1>2, <2>1 DEF Hls!Scan
<1> QED BY <1>1, <1>2 DEF Hls!Scan

\* A line was scanned, and fetched if it is a chunk.
LEMMA HlsLineStep ==
  ASSUME Hls!CountsAssumption, HlsInv, Hls!PassLine \/ Hls!FetchChunk
  PROVE  HlsInv'
<1>0. /\ Len(playlist) \in Nat /\ at \in Nat /\ maxChunk \in Int /\ Len(fetched) \in Nat
      /\ fetched \in Seq(1 .. at) /\ cntCount = Len(fetched) /\ nextContent \in BOOLEAN
      /\ cut \in BOOLEAN
  BY HlsTyped DEF HlsInv
<1>1. PICK line :
        /\ Hls!Scan(line) /\ Hls!EndLine(line, cntCount')
        /\ playlist' = playlist /\ maxChunk' = maxChunk /\ m3u8only' = m3u8only /\ broke' = broke
        /\ IF nextContent
             THEN line = "absolute" /\ fetched' = Append(fetched, at + 1) /\ cntCount' = cntCount + 1
             ELSE fetched' = fetched /\ cntCount' = cntCount
  <2>1. CASE Hls!PassLine
    <3>1. PICK line \in Hls!Lines : Hls!Scan(line) /\ Hls!EndLine(line, cntCount)
      BY <2>1 DEF Hls!PassLine
    <3>2. /\ ~nextContent /\ cntCount' = cntCount
          /\ UNCHANGED <<playlist, maxChunk, m3u8only, broke, fetched>>
      BY <2>1, <3>1 DEF Hls!PassLine, Hls!EndLine, Hls!given
    <3> QED BY <3>1, <3>2
  <2>2. CASE Hls!FetchChunk
    <3>1. /\ Hls!Scan("absolute") /\ Hls!EndLine("absolute", cntCount + 1)
          /\ cntCount' = cntCount + 1 /\ nextContent /\ fetched' = Append(fetched, at + 1)
          /\ UNCHANGED <<playlist, maxChunk, m3u8only, broke>>
      BY <2>2 DEF Hls!FetchChunk, Hls!EndLine, Hls!given
    <3> QED BY <3>1
  <2> QED BY <2>1, <2>2
<1>2. /\ hlsPc = "scan" /\ ~cut /\ at < Len(playlist) /\ cut' \in BOOLEAN
      /\ nextContent => playlist[at + 1] = "absolute"
      /\ at' = at + 1 /\ nextContent' \in BOOLEAN
      /\ ~cut' => (nextContent' <=> playlist[at + 1] = "extinf")
      /\ hlsPc' = IF cntCount' = maxChunk THEN "done" ELSE "scan"
  BY <1>0, <1>1, ScanIs DEF Hls!EndLine, Hls!Enough
<1>3. Hls!ChunksUpTo(at + 1) =
        IF nextContent THEN Append(Hls!ChunksUpTo(at), at + 1) ELSE Hls!ChunksUpTo(at)
  BY <1>0, <1>2, ChunksMore, NextIsChunk
<1>4. fetched' = Hls!ChunksUpTo(at + 1)
  BY <1>1, <1>3 DEF HlsInv
<1>5. fetched' = Hls!ChunksUpTo(at)'
  BY <1>1, <1>2, <1>4, PlaylistStays
<1>6. fetched' \in Seq(1 .. at + 1) /\ cntCount' = Len(fetched')
      /\ Len(fetched') = IF nextContent THEN Len(fetched) + 1 ELSE Len(fetched)
  <2> DEFINE T == 1 .. at + 1
             new == at + 1
  <2>1. 1 .. at \subseteq T /\ new \in T
    BY <1>0
  <2>2. fetched \in Seq(T)
    BY <1>0, <2>1, SeqMonotonic
  <2> HIDE DEF T
  <2>3. Append(fetched, new) \in Seq(T) /\ Len(Append(fetched, new)) = Len(fetched) + 1
    BY <2>1, <2>2, AppendProperties
  <2>4. CASE nextContent
    BY <1>0, <1>1, <2>3, <2>4 DEF T
  <2>5. CASE ~nextContent
    BY <1>0, <1>1, <2>2, <2>5 DEF T
  <2> QED BY <2>4, <2>5
<1>7. Hls!TypeOK'
  <2>1. at' \in 0 .. Len(playlist)
    BY <1>0, <1>1, <1>2
  <2>2. 1 .. at' = 1 .. at + 1
    BY <1>2
  <2> QED BY <1>1, <1>2, <1>6, <2>1, <2>2 DEF HlsInv, Hls!TypeOK
<1>8. ~cut' => (nextContent' <=> at' > 0 /\ playlist'[at'] = "extinf")
  BY <1>0, <1>1, <1>2
<1>9. AbsoluteSoFar'
  <2> SUFFICES ASSUME NEW k \in 1 .. at, playlist[k] = "extinf"
               PROVE  playlist[k + 1] = "absolute"
    BY <1>0, <1>1, <1>2 DEF AbsoluteSoFar
  <2>1. CASE k = at
    BY <1>0, <1>2, <2>1 DEF HlsInv
  <2>2. CASE k # at
    <3>1. k \in 1 .. at - 1
      BY <1>0, <2>2
    <3> QED BY <3>1 DEF HlsInv, AbsoluteSoFar
  <2> QED BY <2>1, <2>2
<1>10. maxChunk >= 0 => Len(fetched') <= maxChunk
  <2>1. nextContent => at # 0
    BY <1>0, <1>2 DEF HlsInv
  <2>2. maxChunk >= 0 => Len(fetched) <= maxChunk
    BY DEF HlsInv
  <2>3. at = 0 \/ Len(fetched) # maxChunk
    BY <1>2 DEF HlsInv
  <2> QED BY <1>0, <1>6, <2>1, <2>2, <2>3
<1>11. ~m3u8only
  BY <1>2 DEF HlsInv
<1> QED BY <1>0, <1>1, <1>2, <1>5, <1>6, <1>7, <1>8, <1>9, <1>10, <1>11 DEF HlsInv

LEMMA HlsStep ==
  ASSUME Hls!CountsAssumption, HlsInv, [Hls!Next]_(Hls!vars)
  PROVE  HlsInv'
<1>0. /\ Len(playlist) \in Nat /\ at \in Nat /\ at <= Len(playlist) /\ m3u8only \in BOOLEAN
      /\ broke \in BOOLEAN /\ cut \in BOOLEAN
  BY HlsTyped DEF HlsInv
<1>1. CASE Hls!PassLine \/ Hls!FetchChunk
  BY <1>1, HlsLineStep
<1>2. ASSUME UNCHANGED <<maxChunk, m3u8only, playlist, at, nextContent, cntCount, fetched>>
      PROVE  /\ Hls!ChunksUpTo(at)' = Hls!ChunksUpTo(at)
             /\ AbsoluteSoFar' <=> AbsoluteSoFar
             /\ Hls!TypeOK /\ hlsPc' \in {"playlist", "scan", "done", "fatal"}
                /\ broke' \in BOOLEAN /\ cut' \in BOOLEAN
                  => Hls!TypeOK'
  BY <1>2 DEF Hls!ChunksUpTo, Hls!IsChunk, AbsoluteSoFar, Hls!TypeOK
<1>3. CASE Hls!GetPlaylist
  BY <1>0, <1>2, <1>3 DEF Hls!GetPlaylist, Hls!given, HlsInv
<1>4. CASE Hls!NoScheme
  <2>1. PICK line \in Hls!Lines \ {"absolute"} : Hls!Scan(line)
    BY <1>4 DEF Hls!NoScheme
  <2>2. /\ hlsPc = "scan" /\ ~cut /\ at < Len(playlist) /\ cut' \in BOOLEAN
        /\ ~cut' => playlist[at + 1] # "absolute"
    BY <1>0, <2>1, ScanIs
  <2>3. nextContent /\ hlsPc' = "fatal" /\ broke' = broke
        /\ UNCHANGED <<maxChunk, m3u8only, playlist, at, nextContent, cntCount, fetched>>
    BY <1>4 DEF Hls!NoScheme, Hls!given
  <2>4. at # 0 /\ ~m3u8only /\ Len(fetched) # maxChunk
    BY <1>0, <2>2, <2>3 DEF HlsInv
  <2> QED BY <1>0, <1>2, <2>2, <2>3, <2>4 DEF HlsInv
<1>5. CASE Hls!RequestFails
  <2>1. /\ hlsPc' = "fatal" /\ broke' = TRUE
        /\ UNCHANGED <<maxChunk, m3u8only, playlist, at, nextContent, cntCount, fetched>>
    BY <1>5 DEF Hls!RequestFails, Hls!given
  <2>2. CASE hlsPc = "playlist" /\ cut' = cut
    BY <1>0, <1>2, <2>1, <2>2 DEF HlsInv
  <2>3. CASE \E line \in Hls!Lines : Hls!Scan(line)
    <3>1. hlsPc = "scan" /\ ~cut /\ cut' \in BOOLEAN
      BY <1>0, <2>3, ScanIs
    <3> QED BY <1>0, <1>2, <2>1, <3>1 DEF HlsInv
  <2> QED BY <1>5, <2>2, <2>3 DEF Hls!RequestFails
<1>6. CASE Hls!EndOfPlaylist
  <2>1. /\ hlsPc = "scan" /\ hlsPc' = "done" /\ broke' = broke
        /\ cut' = (cut \/ at < Len(playlist))
        /\ UNCHANGED <<maxChunk, m3u8only, playlist, at, nextContent, cntCount, fetched>>
    BY <1>6 DEF Hls!EndOfPlaylist, Hls!given
  <2>2. cut' \in BOOLEAN /\ (cut' <=> cut \/ at < Len(playlist))
    BY <2>1
  <2> QED BY <1>0, <1>2, <2>1, <2>2 DEF HlsInv
<1>7. CASE UNCHANGED Hls!vars
  <2>1. hlsPc \in {"playlist", "scan", "done", "fatal"}
    BY DEF HlsInv, Hls!TypeOK
  <2> QED BY <1>0, <1>2, <1>7, <2>1 DEF Hls!vars, Hls!given, HlsInv
<1> QED BY <1>1, <1>3, <1>4, <1>5, <1>6, <1>7 DEF Hls!Next

LEMMA HlsStarts ==
  ASSUME Hls!CountsAssumption, Hls!Init
  PROVE  HlsInv
<1>1. Hls!ChunksUpTo(0) = <<>>
  BY ChunksMore
<1>2. playlist \in Hls!BoundedSeq(Hls!Lines, MaxLines) /\ Len(playlist) \in Nat /\ MaxLines \in Nat
  <2>1. playlist \in UNION {[1 .. m -> Hls!Lines] : m \in 0 .. MaxLines} /\ MaxLines \in Nat
    BY DEF Hls!Init, Hls!BoundedSeq, Hls!SeqOf, Hls!CountsAssumption
  <2>2. PICK m \in 0 .. MaxLines : playlist \in [1 .. m -> Hls!Lines]
    BY <2>1
  <2>3. m \in Nat
    BY <2>1
  <2>4. playlist \in Seq(Hls!Lines)
    BY <2>2, <2>3, FunctionIsSeq
  <2>5. Len(playlist) \in Nat
    BY <2>4, LenProperties
  <2> QED BY <2>1, <2>5 DEF Hls!Init
<1>3. at = 0 /\ fetched = <<>> /\ hlsPc = "playlist" /\ ~nextContent /\ cntCount = 0 /\ ~cut
      /\ Len(fetched) = 0 /\ maxChunk \in Int
  BY DEF Hls!Init, Hls!CountsAssumption
<1>4. fetched \in Seq(1 .. at)
  BY <1>3
<1>5. Hls!TypeOK
  <2>1. maxChunk \in ChunkCounts /\ m3u8only \in BOOLEAN /\ nextContent \in BOOLEAN
        /\ broke \in BOOLEAN /\ cut \in BOOLEAN
    BY DEF Hls!Init
  <2>2. at \in 0 .. Len(playlist) /\ cntCount = Len(fetched)
    BY <1>2, <1>3
  <2> QED BY <1>2, <1>3, <1>4, <2>1, <2>2 DEF Hls!TypeOK
<1>6. AbsoluteSoFar
  BY <1>3 DEF AbsoluteSoFar
<1> QED BY <1>1, <1>3, <1>5, <1>6 DEF HlsInv

LEMMA HlsInvFetches ==
  ASSUME Hls!CountsAssumption, HlsInv
  PROVE  Hls!FirstChunksFetched
<1> DEFINE all == Hls!Chunks
           wanted == Hls!Wanted
<1>0. /\ Len(playlist) \in Nat /\ at \in Nat /\ at <= Len(playlist)
      /\ maxChunk \in Int /\ m3u8only \in BOOLEAN
  BY HlsTyped DEF HlsInv
<1>1. /\ fetched \in Seq(Nat) /\ all \in Seq(Nat)
      /\ Len(fetched) \in Nat /\ Len(all) \in Nat /\ Len(fetched) <= Len(all)
      /\ \A k \in 1 .. Len(fetched) : all[k] = fetched[k]
      /\ \A k \in 1 .. Len(all) : k > Len(fetched) => all[k] \in at + 1 .. Len(playlist)
  BY <1>0, ChunksPrefix DEF HlsInv, Hls!Chunks
<1>2. maxChunk >= 0 => Len(fetched) <= maxChunk
  BY DEF HlsInv
<1>3. m3u8only => fetched = <<>> /\ Len(fetched) = 0
  <2> HAVE m3u8only
  <2>1. at = 0
    BY <1>0 DEF HlsInv, Hls!TypeOK
  <2>2. fetched = Hls!ChunksUpTo(0)
    BY <2>1 DEF HlsInv
  <2> QED BY <2>2, ChunksMore
<1>4. wanted = IF m3u8only THEN <<>>
               ELSE IF maxChunk \in 0 .. Len(all) THEN SubSeq(all, 1, maxChunk) ELSE all
  BY DEF Hls!Wanted
<1>5. hlsPc = "done" /\ ~cut => m3u8only \/ Len(fetched) = maxChunk \/ at = Len(playlist)
  BY DEF HlsInv
<1>6. at = Len(playlist) => fetched = all
  BY DEF HlsInv, Hls!Chunks
<1>7. ASSUME hlsPc = "fatal", ~broke, ~cut
      PROVE  ~ Hls!Plain
  <2>1. /\ ~m3u8only /\ at < Len(playlist) /\ nextContent /\ playlist[at + 1] # "absolute"
        /\ Len(fetched) # maxChunk
    BY <1>7 DEF HlsInv
  <2>2. at \in Nat /\ at > 0 /\ playlist[at] = "extinf"
    BY <1>0, <1>7, <2>1 DEF HlsInv
  <2>3. Hls!LastLine \in Nat /\ at < Hls!LastLine
    <3>1. CASE maxChunk = 0
      BY <1>1, <1>2, <2>1, <3>1
    <3>2. CASE maxChunk \in 1 .. Len(all)
      <4>1. Hls!LastLine = all[maxChunk]
        BY <1>1, <3>2 DEF Hls!LastLine
      <4>2. maxChunk > Len(fetched)
        BY <1>1, <1>2, <2>1, <3>2
      <4>3. all[maxChunk] \in at + 1 .. Len(playlist)
        BY <1>1, <3>2, <4>2
      <4> QED BY <1>0, <4>1, <4>3
    <3>3. CASE maxChunk # 0 /\ maxChunk \notin 1 .. Len(all)
      <4>1. Hls!LastLine = Len(playlist)
        BY <3>3 DEF Hls!LastLine
      <4> QED BY <1>0, <2>1, <4>1
    <3> QED BY <3>1, <3>2, <3>3
  <2>4. at \in 1 .. Hls!LastLine - 1
    BY <2>2, <2>3
  <2> QED BY <2>1, <2>2, <2>4 DEF Hls!Plain
<1> HIDE DEF all, wanted
<1>8. /\ wanted \in Seq(Nat) /\ Len(wanted) \in Nat /\ Len(fetched) <= Len(wanted)
      /\ \A k \in 1 .. Len(fetched) : wanted[k] = fetched[k]
      /\ hlsPc = "done" /\ ~cut => Len(fetched) = Len(wanted)
  <2>1. CASE m3u8only
    BY <1>1, <1>3, <1>4, <2>1
  <2>2. CASE ~m3u8only /\ maxChunk \in 0 .. Len(all)
    <3>1. wanted = SubSeq(all, 1, maxChunk) /\ maxChunk \in Nat /\ maxChunk <= Len(all)
      BY <1>1, <1>4, <2>2
    <3>2. /\ wanted \in Seq(Nat) /\ Len(wanted) = maxChunk
          /\ \A k \in 1 .. maxChunk : wanted[k] = all[k]
      <4> DEFINE T == Nat
      <4> HIDE DEF T
      <4>1. all \in Seq(T) /\ Len(all) \in Nat
        BY <1>1 DEF T
      <4>2. /\ wanted \in Seq(T) /\ Len(wanted) = maxChunk
            /\ \A k \in 1 .. maxChunk : wanted[k] = all[k]
        BY <3>1, <4>1
      <4> QED BY <4>2 DEF T
    <3>3. Len(fetched) <= maxChunk
      BY <1>2, <3>1
    <3>4. hlsPc = "done" /\ ~cut => Len(fetched) = maxChunk
      <4> SUFFICES ASSUME at = Len(playlist), hlsPc = "done", ~cut
                   PROVE  Len(fetched) = maxChunk
        BY <1>5, <2>2
      <4> QED BY <1>1, <1>6, <3>1, <3>3
    <3> QED BY <1>1, <3>1, <3>2, <3>3, <3>4
  <2>3. CASE ~m3u8only /\ maxChunk \notin 0 .. Len(all)
    <3>1. wanted = all
      BY <1>4, <2>3
    <3>2. Len(fetched) # maxChunk
      BY <1>1, <2>3
    <3>3. hlsPc = "done" /\ ~cut => Len(fetched) = Len(all)
      BY <1>5, <1>6, <2>3, <3>2
    <3> QED BY <1>1, <3>1, <3>3
  <2> QED BY <1>0, <2>1, <2>2, <2>3
<1>9. Hls!IsPrefix(fetched, wanted)
  <2> DEFINE T == Nat
  <2> HIDE DEF T
  <2>1. fetched \in Seq(T) /\ wanted \in Seq(T) /\ Len(fetched) \in Nat /\ Len(wanted) \in Nat
        /\ Len(fetched) <= Len(wanted) /\ \A k \in 1 .. Len(fetched) : wanted[k] = fetched[k]
    BY <1>1, <1>8 DEF T
  <2>2. SubSeq(fetched, 1, Len(fetched)) = SubSeq(wanted, 1, Len(fetched))
    BY ONLY <2>1
  <2> QED BY <2>1, <2>2 DEF Hls!IsPrefix
<1>10. hlsPc = "done" /\ ~cut => fetched = wanted
  <2> HAVE hlsPc = "done" /\ ~cut
  <2>1. Len(fetched) = Len(wanted)
    BY <1>8
  <2> QED BY <1>1, <1>8, <2>1, SeqEqual
<1> QED BY <1>7, <1>9, <1>10 DEF HlsInv, Hls!FirstChunksFetched, wanted

LEMMA HlsSafe ==
  ASSUME Hls!CountsAssumption
  PROVE  Hls!Spec => []Hls!FirstChunksFetched
<1>1. Hls!Init => HlsInv
  BY HlsStarts
<1>2. HlsInv /\ [Hls!Next]_(Hls!vars) => HlsInv'
  BY HlsStep
<1>3. HlsInv => Hls!FirstChunksFetched
  BY HlsInvFetches
<1> QED BY <1>1, <1>2, <1>3, PTL DEF Hls!Spec

-----------------------------------------------------------------------------
(* Toolbox: each program is itself, or rests.                              *)

\* The proofs about multicast-sender are in UdpStreamProofs, which has in front
\* of it the programs it gets its datagrams from.  They do not occur in what is
\* cited here: nothing is sent.
Stream == INSTANCE UdpStreamProofs WITH
  out <- groupOut, FileBlocks <- 1, MaxSent <- 0, MaxRounds <- 0, MaxInFlight <- 0,
  repeat <- FALSE, lossPercent <- 0, sending <- FALSE, pos <- 0, seq <- 0, relaying <- FALSE,
  toRelay <- {}, toGroups <- {}, sent <- 0, rounds <- 0

LEMMA SameGroups ==
  /\ Groups!Init <=> Stream!Init
  /\ Groups!Next <=> Stream!Next
  /\ Groups!vars = Stream!vars
  /\ Groups!SameStream <=> Stream!SameStream
  /\ Groups!LagBounded <=> Stream!LagBounded
<1> USE DEF Groups!Ids, Stream!Ids, Groups!vars, Stream!vars, Groups!loopVars, Stream!loopVars,
            Groups!Reading, Stream!Reading
<1>1. Groups!Init <=> Stream!Init
  BY DEF Groups!Init, Stream!Init
<1>2. Groups!Forward <=> Stream!Forward
  BY DEF Groups!Forward, Stream!Forward, Groups!HandOver, Stream!HandOver, Groups!Take,
         Stream!Take, Groups!Write, Stream!Write, Groups!WriteFails, Stream!WriteFails
<1>3. ASSUME NEW d \in Datagrams PROVE Groups!Receive(d) <=> Stream!Receive(d)
  BY DEF Groups!Receive, Stream!Receive, Groups!IntoNewBuffer, Stream!IntoNewBuffer,
         Groups!Mismatch, Stream!Mismatch, Groups!Expected, Stream!Expected
<1>4. Groups!Next <=> Stream!Next
  BY <1>2, <1>3 DEF Groups!Next, Stream!Next, Groups!ReadFails, Stream!ReadFails
<1>5. Groups!SameStream <=> Stream!SameStream
  BY DEF Groups!SameStream, Stream!SameStream
<1>6. Groups!LagBounded <=> Stream!LagBounded
  BY DEF Groups!LagBounded, Stream!LagBounded, Groups!TypeOK, Stream!TypeOK
<1> QED BY <1>1, <1>4, <1>5, <1>6

LEMMA GroupPremises ==
  /\ Stream!DatagramsAssumption /\ Stream!SendersAssumption
  /\ Stream!FileAssumption /\ Stream!PacketsAssumption
<1>1. Stream!DatagramsAssumption /\ Stream!SendersAssumption
  BY ToolsAssumption DEF Groups!DatagramsAssumption, Groups!SendersAssumption,
     Stream!DatagramsAssumption, Stream!SendersAssumption
<1>2. Stream!FileAssumption /\ Stream!PacketsAssumption
  BY DEF Stream!FileAssumption, Stream!PacketsAssumption, Stream!Packets
<1> QED BY <1>1, <1>2

LEMMA GroupsSafe == Groups!Spec => [](Groups!SameStream /\ Groups!LagBounded)
<1>1. Stream!Spec => []Stream!SameStream
  BY GroupPremises, Stream!StreamIsSame
<1>2. Stream!Spec => []Stream!LagBounded
  BY GroupPremises, Stream!LagIsBounded
<1>3. [Groups!Next]_(Groups!vars) => [Stream!Next]_(Stream!vars)
  BY SameGroups DEF Groups!vars, Stream!vars, Groups!loopVars, Stream!loopVars
<1>4. Groups!Init => Stream!Init
  BY SameGroups
<1>5. Stream!SameStream /\ Stream!LagBounded => Groups!SameStream /\ Groups!LagBounded
  BY SameGroups
<1> QED BY <1>1, <1>2, <1>3, <1>4, <1>5, PTL DEF Groups!Spec, Stream!Spec

LEMMA SameDump ==
  /\ Dump!Init <=> Dumps!Init
  /\ Dump!Next <=> Dumps!Next
  /\ Dump!vars = Dumps!vars
  /\ Dump!DumpExplained <=> Dumps!DumpExplained
<1> USE DEF Dump!vars, Dumps!vars, Dump!flags, Dumps!flags, Dump!Block, Dumps!Block,
            Dump!Least, Dumps!Least
<1>1. Dump!TypeOK <=> Dumps!TypeOK
  BY DEF Dump!TypeOK, Dumps!TypeOK, Dump!Kinds, Dumps!Kinds
<1>2. Dump!Init <=> Dumps!Init
  BY DEF Dump!Init, Dumps!Init, Dump!Kinds, Dumps!Kinds
<1>3. Dump!Next <=> Dumps!Next
  <2>1. Dump!SendBlock <=> Dumps!SendBlock
    BY DEF Dump!SendBlock, Dumps!SendBlock, Dump!Datagram, Dumps!Datagram
  <2>2. (Dump!StartOver <=> Dumps!StartOver) /\ (Dump!SenderEnds <=> Dumps!SenderEnds)
        /\ (Dump!Lose <=> Dumps!Lose) /\ (Dump!DumpEnds <=> Dumps!DumpEnds)
    BY DEF Dump!StartOver, Dumps!StartOver, Dump!SenderEnds, Dumps!SenderEnds, Dump!Lose,
           Dumps!Lose, Dump!DumpEnds, Dumps!DumpEnds
  <2>3. Dump!DumpArrive <=> Dumps!DumpArrive
    BY DEF Dump!DumpArrive, Dumps!DumpArrive, Dump!Buffer, Dumps!Buffer, Dump!headerSize,
           Dumps!headerSize
  <2>4. Dump!ServerArrive <=> Dumps!ServerArrive
    BY DEF Dump!ServerArrive, Dumps!ServerArrive
  <2> QED BY <2>1, <2>2, <2>3, <2>4 DEF Dump!Next, Dumps!Next
<1>4. Dump!Sent = Dumps!Sent
  <2>1. ASSUME NEW from, NEW to PROVE Dump!Stream(from, to) = Dumps!Stream(from, to)
    BY DEF Dump!Stream, Dumps!Stream, Dump!RtpToTs, Dumps!RtpToTs
  <2>2. ASSUME NEW q PROVE Dump!FlattenSeq(q) = Dumps!FlattenSeq(q)
    BY DEF Dump!FlattenSeq, Dumps!FlattenSeq
  <2>3. [k \in 1 .. rounds |-> Dump!Stream(IF k = 1 THEN first ELSE 0, size)]
          = [k \in 1 .. rounds |-> Dumps!Stream(IF k = 1 THEN first ELSE 0, size)]
    BY <2>1
  <2> QED BY <2>1, <2>2, <2>3 DEF Dump!Sent, Dumps!Sent
<1>5. Dump!Agreed <=> Dumps!Agreed
  BY DEF Dump!Agreed, Dumps!Agreed, Dump!Headers, Dumps!Headers
<1>6. Dump!DumpExact <=> Dumps!DumpExact
  BY <1>4, <1>5 DEF Dump!DumpExact, Dumps!DumpExact, Dump!AllArrived, Dumps!AllArrived,
     Dump!WholeBlockSent, Dumps!WholeBlockSent
<1>7. Dump!PanicOnTail <=> Dumps!PanicOnTail
  BY DEF Dump!PanicOnTail, Dumps!PanicOnTail
<1> QED BY <1>1, <1>2, <1>3, <1>6, <1>7 DEF Dump!DumpExplained, Dumps!DumpExplained

LEMMA DumpSafe ==
  ASSUME Dump!SizesAssumption
  PROVE  Dump!Spec => []Dump!DumpExplained
<1>1. Dumps!SizesAssumption
  BY DEF Dump!SizesAssumption, Dumps!SizesAssumption
<1>2. Dumps!Spec => []Dumps!DumpExplained
  BY <1>1, Dumps!DumpSafe
<1>3. [Dump!Next]_(Dump!vars) => [Dumps!Next]_(Dumps!vars)
  BY SameDump DEF Dump!vars, Dumps!vars, Dump!flags, Dumps!flags
<1> QED BY <1>2, <1>3, SameDump, PTL DEF Dump!Spec, Dumps!Spec

\* A behaviour of Toolbox is one of each of its programs.
LEMMA EachProgram ==
  ToolSpec => Multi!Spec /\ Sub!Spec /\ Amoc!Spec /\ Fuse!Spec /\ Groups!Spec
                /\ Adds!Spec /\ Aging!Spec /\ Reader!Spec /\ Dump!Spec /\ Hls!Spec /\ Spec
<1>1. ToolInit => Multi!Init /\ Sub!Init /\ Amoc!Init /\ Fuse!Init /\ Groups!Init
                    /\ Adds!Init /\ Aging!Init /\ Reader!Init /\ Dump!Init /\ Hls!Init /\ Init
  BY DEF ToolInit
<1> USE DEF ToolNext, toolVars
<1>2. [ToolNext]_toolVars => [Multi!Next]_(Multi!vars)
  BY DEF multiVars, Multi!vars
<1>3. [ToolNext]_toolVars => [Sub!Next]_(Sub!vars)
  BY DEF subVars, Sub!vars, Sub!flags
<1>4. [ToolNext]_toolVars => [Amoc!Next]_(Amoc!vars)
  BY DEF amocVars, Amoc!vars
<1>5. [ToolNext]_toolVars => [Fuse!Next]_(Fuse!vars)
  BY DEF fuseVars, Fuse!vars
<1>6. [ToolNext]_toolVars => [Groups!Next]_(Groups!vars)
  BY DEF groupsVars, Groups!vars, Groups!loopVars
<1>7. [ToolNext]_toolVars => [Adds!Next]_(Adds!vars)
  BY DEF addsVars, Adds!vars
<1>8. [ToolNext]_toolVars => [Aging!Next]_(Aging!vars)
  BY DEF agingVars, Aging!vars, Aging!disk
<1>9. [ToolNext]_toolVars => [Reader!Next]_(Reader!vars)
  BY DEF readerVars, Reader!vars
<1>10. [ToolNext]_toolVars => [Dump!Next]_(Dump!vars)
  BY DEF dumpVars, Dump!vars, Dump!flags
<1>11. [ToolNext]_toolVars => [Hls!Next]_(Hls!vars)
  BY DEF hlsVars, Hls!vars, Hls!given
<1>12. [ToolNext]_toolVars => [Next]_vars
  OBVIOUS
<1> QED BY <1>1, <1>2, <1>3, <1>4, <1>5, <1>6, <1>7, <1>8, <1>9, <1>10, <1>11, <1>12, PTL
        DEF ToolSpec, Spec, Multi!Spec, Sub!Spec, Amoc!Spec, Fuse!Spec, Groups!Spec, Adds!Spec,
            Aging!Spec, Reader!Spec, Dump!Spec, Hls!Spec

\* multi-proc-server: at most one start of the program has the port, and workers
\* without their main process are those whose main process died (l.17-55).
THEOREM PortIsKept == ToolSpec => []PortKept
BY EachProgram, MultiSafe, ToolsAssumption, PTL DEF PortKept

\* subfile: what is written is the beginning of the range, and for a size above 0
\* all of it when the program ends, however the reads are split (l.46-67).
THEOREM RangeIsCopied == ToolSpec => []RangeCopied
BY EachProgram, SubSafe, ToolsAssumption, PTL DEF RangeCopied

\* dummy-amoc: what is in the table is the wish of a request that no other one of
\* the content followed, however the goroutines overlap (l.113-126).
THEOREM LastOneIsKept == ToolSpec => []LastOneCounts
BY EachProgram, AmocSafe, ToolsAssumption, PTL DEF LastOneCounts

\* fusefs: after a lookup that ran beside no other one, every number is greater,
\* however late a store of GenerateInode comes (l.71-74).
THEOREM NumbersAreExplained == ToolSpec => []NumbersExplained
BY EachProgram, InodesSafe, ToolsAssumption, PTL DEF NumbersExplained

\* multicast-sender: every group gets the stream as it was read, in order, nothing
\* left out and nothing twice (l.82, l.97-99, l.131-135).
THEOREM GroupsGetTheStream == ToolSpec => []SameStream
BY EachProgram, GroupsSafe, PTL DEF SameStream

\* multicast-sender: no group is further ahead of another than a channel, the
\* datagram in hand and the one being handed over (l.98).
THEOREM GroupsStayTogether == ToolSpec => []LagBounded
BY EachProgram, GroupsSafe, PTL DEF LagBounded

\* dummy-adds: a name comes again only after all others of its kind, and the misses
\* are never a whole request behind the percentage, nor ahead of it if the rate
\* divides 100, until a counter passes its width (l.35-63).
THEOREM RequestsAreCounted == ToolSpec => []RequestsCounted
BY EachProgram, AddsSafe, ToolsAssumption, PTL DEF RequestsCounted

\* agingcp: a run that ended left what it says, whatever runs died before it
\* (l.94-125, l.157-248).
THEOREM EndedRunsAreHonest == ToolSpec => []EndedRunsHonest
BY EachProgram, AgingSafe, ToolsAssumption, PTL DEF EndedRunsHonest

\* agingcp: a source is harmed only by a copy over a link that an earlier run made
\* (l.24, l.113-117).
THEOREM SourcesAreHarmedByReruns == ToolSpec => SourceHarmedByRerun
BY EachProgram, AgingSafe, ToolsAssumption, PTL DEF SourceHarmedByRerun

\* filereader: each user reads its own part, round and round, and the total counts
\* what users did, one by one (l.33, l.143-147, l.192-217).
THEOREM UsersAreExplained == ToolSpec => []UsersExplained
BY EachProgram, ReaderSafe, ToolsAssumption, PTL DEF UsersExplained

\* The UDP tools: what multicast-dump or udp-server writes down is the stream, round
\* after round, if the flags of sender and receiver agree and nothing is lost, and
\* after a whole block only then; and multicast-dump dies of a short end of a file
\* only (multicast-dump l.67-73, udp-sender l.67-106, rtp-to-ts l.28-38).
THEOREM DumpsAreExplained == ToolSpec => []DumpExplained
BY EachProgram, DumpSafe, ToolsAssumption, PTL DEF DumpExplained

\* hlsclient: what is fetched is a beginning of the chunks of the playlist up to the
\* bound, all of those among the lines scanned, and all of it unless the scanner
\* stopped early (l.80); the client gives up over odd playlists only (l.77-126).
THEOREM FirstChunksAreFetched == ToolSpec => []FirstChunksFetched
BY EachProgram, HlsSafe, ToolsAssumption, PTL DEF FirstChunksFetched

\* httpfsrv: whatever the file, the range, the alignment, the number of chunks and
\* what each Read gives, a 200 or a 206 carries bytes of the range in their places
\* or zeros, and the bytes asked for if nobody rewrote the file and the Read was not
\* short (l.85-142, l.189-219).
THEOREM BytesAreRight == ToolSpec => []BodyRight
BY EachProgram, HttpAnswers, PTL

\* httpfsrv: a Content-Length that was sent is the length of the body, but where
\* reading fails, after a 304 and for an aligned read that gives less than was asked
\* for (l.189-199, l.277, l.292).
THEOREM LengthsAreHonest == ToolSpec => []LengthHonest
BY EachProgram, HttpAnswers, PTL

\* httpfsrv: HEAD foretells GET, but for the cases that HeadForetells lists; whatever
\* else fails, a file that cannot be opened or read is answered with a 500
\* (l.221-381).
THEOREM HeadIsKept == ToolSpec => []HeadForetells
BY EachProgram, HttpAnswers, PTL

\* httpfsrv: where the flags ask for at most three chunks (the default is 3), only
\* -read-all of a file that was rewritten, is a directory or cannot be read panics:
\* the arithmetic of ranges, aligned blocks and chunks never does, nor a short Read
\* (l.101, l.200-217, l.288).
THEOREM PanicsAreExplained ==
  ASSUME \A c \in Confs : c.ceCount <= 3
  PROVE  ToolSpec => []PanicExplained
BY EachProgram, HttpPanics, PTL
=============================================================================
