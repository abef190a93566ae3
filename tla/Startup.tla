------------------------------ MODULE Startup ------------------------------
(***************************************************************************)
(* kt-simul from its start to its sessions, main of                        *)
(* src/kt-simul/kt-simul.go l.57-75: the pool is dialled (ClientPool), the *)
(* files are copied (RemoteCopy), and the loops begin, whose sessions      *)
(* borrow connections.  Whatever ends the process ends the pool with it,   *)
(* in the middle of commands too; the next start dials anew and meets what *)
(* the earlier ones left on the machines.                                  *)
(*                                                                         *)
(* Left out: what the commands do (PooledSetup), and the other loops.      *)
(***************************************************************************)
EXTENDS ClientPool, RemoteCopy

startVars == <<vars, copyVars>>

StartInit == PoolInit /\ CopyInit

-----------------------------------------------------------------------------
\* remote.Init comes before anything is copied; it gives up with os.Exit(1).
Dial ==
  /\ pc = "test" /\ (DialOk \/ DialFail \/ DialFailAgain \/ InitDone)
  /\ IF phase' = "exited" THEN Die ELSE UNCHANGED copyVars

\* The maps of a process that has just started.
NoPool ==
  /\ phase' = "init" /\ dialled' = 0 /\ idx' = 0 /\ retrying' = FALSE
  /\ gClientMap' = {} /\ gClientSession' = [k \in Keys |-> 0]
  /\ cl' = [g \in Callers |-> NoClient]

Copy ==
  /\ phase = "up" /\ (Progress \/ CopyFails \/ TakePipe \/ LateWrites)
  /\ IF pc' = "stopped" THEN NoPool ELSE UNCHANGED vars

\* The sessions run beside goroutines that came too late for the copying.
Borrow ==
  /\ pc = "run" /\ \E g \in Callers : Release(g) \/ \E ip \in IPs : Alloc(g, ip)
  /\ UNCHANGED copyVars

\* At any time, in the middle of commands too.
End == (Interrupt \/ LatePanic) /\ NoPool

StartAgain == Restart /\ NoPool

StartNext == Dial \/ Copy \/ Borrow \/ End \/ StartAgain

StartSpec == StartInit /\ [][StartNext]_startVars
=============================================================================
