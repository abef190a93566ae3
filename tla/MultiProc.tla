----------------------------- MODULE MultiProc ------------------------------
(***************************************************************************)
(* The HTTP server of several processes,                                   *)
(* src/multi-proc-server/multi-proc-server.go.  The main process listens,  *)
(* starts its workers with the listening socket as descriptor 3, and waits *)
(* for one after the other to end; it accepts no connection itself.  A     *)
(* worker looks for the socket among its descriptors and serves on it.     *)
(*                                                                         *)
(* The port is taken as long as any process has the socket.  A main        *)
(* process that dies takes no worker with it: those go on serving, and the *)
(* next start of the program cannot listen.                                *)
(*                                                                         *)
(* Left out: requests (a worker answers all alike).  A worker ends only by *)
(* an error of its own, log.Fatal, or because it is killed.                *)
(*                                                                         *)
(* External: listen, which fails while another process has the port;       *)
(* processes and wait; a terminal, whose interrupt reaches all processes.  *)
(***************************************************************************)
EXTENDS Naturals

CONSTANTS
  workerN,            \* -nworker
  MaxStarts           \* bound: how often the program is started

WorkersAssumption == workerN \in Nat /\ MaxStarts \in Nat \ {0}

Runs == 1 .. MaxStarts
Workers == 1 .. workerN

VARIABLES
  starts,             \* starts so far; the last one has this number
  main,               \* main[r]: see Phases
  i,                  \* i[r]: the loop variable of main process r
  worker              \* worker[r][w]: "none", "started", "serving", "ended"

vars == <<starts, main, i, worker>>

\* "refused": it could not listen; "died": it ended without having waited.
Phases == {"none", "starting", "waiting", "done", "refused", "died"}

TypeOK ==
  /\ starts \in 0 .. MaxStarts
  /\ main \in [Runs -> Phases]
  /\ i \in [Runs -> 1 .. workerN + 1]
  /\ worker \in [Runs -> [Workers -> {"none", "started", "serving", "ended"}]]

Init ==
  /\ starts = 0 /\ i = [r \in Runs |-> 1]
  /\ main = [r \in Runs |-> "none"]
  /\ worker = [r \in Runs |-> [w \in Workers |-> "none"]]

-----------------------------------------------------------------------------
MainRuns(r) == main[r] \in {"starting", "waiting"}
Lives(r, w) == worker[r][w] \in {"started", "serving"}

\* The processes of run r have the socket.
HasPort(r) == MainRuns(r) \/ \E w \in Workers : Lives(r, w)

\* Mutant: nobody looks whether main could listen.
CanListenAlways(r) == TRUE
CanListen(r) == \A q \in Runs \ {r} : ~HasPort(q)

\* The program is started, maybe while it runs.
Start ==
  /\ starts < MaxStarts
  /\ starts' = starts + 1
  /\ main' = [main EXCEPT ![starts + 1] = IF CanListen(starts + 1) THEN "starting" ELSE "refused"]
  /\ UNCHANGED <<i, worker>>

StartProcess(r) ==
  /\ main[r] = "starting" /\ i[r] <= workerN
  /\ worker' = [worker EXCEPT ![r][i[r]] = "started"]
  /\ i' = [i EXCEPT ![r] = @ + 1]
  /\ UNCHANGED <<starts, main>>

\* log.Fatalf: the workers started so far are left behind.
StartProcessFails(r) ==
  /\ main[r] = "starting" /\ i[r] <= workerN
  /\ main' = [main EXCEPT ![r] = "died"]
  /\ UNCHANGED <<starts, i, worker>>

AllStarted(r) ==
  /\ main[r] = "starting" /\ i[r] > workerN
  /\ main' = [main EXCEPT ![r] = "waiting"]
  /\ i' = [i EXCEPT ![r] = 1]
  /\ UNCHANGED <<starts, worker>>

\* Mutant: the first worker that ends is taken for all.
WaitForOne(r) ==
  /\ main[r] = "waiting" /\ i[r] <= workerN /\ worker[r][i[r]] = "ended"
  /\ i' = [i EXCEPT ![r] = workerN + 1]
  /\ UNCHANGED <<starts, main, worker>>

\* p.Wait returns; an end before its turn is noticed only then.
Wait(r) ==
  /\ main[r] = "waiting" /\ i[r] <= workerN /\ worker[r][i[r]] = "ended"
  /\ i' = [i EXCEPT ![r] = @ + 1]
  /\ UNCHANGED <<starts, main, worker>>

MainEnds(r) ==
  /\ main[r] = "waiting" /\ i[r] > workerN
  /\ main' = [main EXCEPT ![r] = "done"]
  /\ UNCHANGED <<starts, i, worker>>

\* Main alone is killed, or waiting fails.
MainDies(r) ==
  /\ MainRuns(r)
  /\ main' = [main EXCEPT ![r] = "died"]
  /\ UNCHANGED <<starts, i, worker>>

\* The walk over /proc/<pid>/fd finds the socket.
FindSocket(r, w) ==
  /\ worker[r][w] = "started"
  /\ worker' = [worker EXCEPT ![r][w] = "serving"]
  /\ UNCHANGED <<starts, main, i>>

\* The walk or FileListener fails; Serve fails, and the second Serve at once,
\* because the first one closed the listener; the worker is killed.
WorkerEnds(r, w) ==
  /\ Lives(r, w)
  /\ worker' = [worker EXCEPT ![r][w] = "ended"]
  /\ UNCHANGED <<starts, main, i>>

\* The interrupt of a terminal that started run r.
Interrupt(r) ==
  /\ MainRuns(r)
  /\ main' = [main EXCEPT ![r] = "died"]
  /\ worker' = [worker EXCEPT ![r] = [w \in Workers |-> IF Lives(r, w) THEN "ended" ELSE @[w]]]
  /\ UNCHANGED <<starts, i>>

MainStep(r) == StartProcess(r) \/ AllStarted(r) \/ Wait(r) \/ MainEnds(r)

Next ==
  \/ Start
  \/ \E r \in Runs : MainStep(r) \/ StartProcessFails(r) \/ MainDies(r) \/ Interrupt(r)
  \/ \E r \in Runs, w \in Workers : FindSocket(r, w) \/ WorkerEnds(r, w)

Spec == Init /\ [][Next]_vars

-----------------------------------------------------------------------------
(* Properties.                                                             *)

\* Never do processes of two starts answer at one port, although workers may
\* outlive their main process (l.17-20, l.46-47).
OneRunServes == \A q, r \in Runs : HasPort(q) /\ HasPort(r) => q = r

\* Main ends by itself only when none of its workers is left (l.50-55), though
\* it looks at one after the other: workers without their main process are
\* those whose main process died.
OrphansExplained == \A r \in Runs : HasPort(r) /\ ~MainRuns(r) => main[r] = "died"

\* Both, over starts that fail half way or come too early, kills and interrupts.
PortKept == TypeOK /\ OneRunServes /\ OrphansExplained
=============================================================================
