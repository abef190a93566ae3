---------------------------- MODULE PooledSetup ----------------------------
(***************************************************************************)
(* The VOD sessions of kt-simul on its pool of connections: SetupSession   *)
(* run over ClientPool, as Run2 and Delete2 of                             *)
(* src/kt-simul/remote/remote.go tie them together.  Every command of a    *)
(* session borrows a connection, runs on it and gives it back.  A          *)
(* connection may die: NewSession then fails for every command that gets   *)
(* it, at once, it is given back like any other, and nobody dials again.   *)
(*                                                                         *)
(* A command ends and gives its connection back in one step.  That hides   *)
(* nothing: whoever borrows between the two could have done so just before *)
(* the command ended, since borrowing looks at the counters only.          *)
(*                                                                         *)
(* Left out: more machines than one, which share no connections.           *)
(***************************************************************************)
EXTENDS SetupSession, Sequences

CONSTANTS
  IPs, remoteIPs,     \* the machine of the VOD clients
  gMaxSessionCount,   \* connections to it
  NoClient,
  MaxDead             \* bound: the connections that die

ASSUME MachineAssumption == remoteIPs \in Seq(IPs) /\ Len(remoteIPs) = 1
ASSUME MaxDeadAssumption == MaxDead \in Nat

VARIABLES
  phase, dialled, idx, retrying, gClientMap, gClientSession, cl,  \* ClientPool
  dead,               \* connections that are gone
  \* history
  firstDead,          \* sessions that began when the first connection was dead
  overlapped          \* sessions that ran beside another one

Pool == INSTANCE ClientPool WITH Callers <- Sessions

ASSUME PoolAssumption ==
  Pool!SessionCountAssumption /\ Pool!CallersAssumption /\ Pool!NoClientAssumption

poolVars == <<phase, dialled, idx, retrying, gClientMap, gClientSession, cl>>
pooledVars == <<vars, poolVars, dead, firstDead, overlapped>>

ip == remoteIPs[1]
FirstConnection == Pool!clientKey(ip, 0)

PooledTypeOK ==
  /\ TypeOK /\ Pool!TypeOK
  /\ dead \subseteq Pool!Keys
  /\ firstDead \cup overlapped \subseteq Sessions

PooledInit == Init /\ Pool!PoolInit /\ dead = {} /\ firstDead = {} /\ overlapped = {}

-----------------------------------------------------------------------------
Active(s) == pc[s] \notin {"idle", "done"}
Others(s) == {t \in Sessions \ {s} : Active(t)}

\* remote.Init comes before any session.
DialPool ==
  /\ Pool!DialOk \/ Pool!DialFail \/ Pool!DialFailAgain \/ Pool!InitDone
  /\ UNCHANGED <<vars, dead, firstDead, overlapped>>

Start(s) ==
  /\ phase = "up"
  /\ Begin(s)
  /\ firstDead' = IF FirstConnection \in dead THEN firstDead \cup {s} ELSE firstDead
  /\ overlapped' = IF Others(s) = {} THEN overlapped ELSE overlapped \cup {s} \cup Others(s)
  /\ UNCHANGED <<poolVars, dead>>

\* allocClient, before each command.
Borrow(s) ==
  /\ pc[s] \in {"mkdir", "play", "grep", "cat", "rm"}
  /\ Pool!Alloc(s, ip)
  /\ UNCHANGED <<vars, dead, firstDead, overlapped>>

Works(s) == cl[s] # NoClient /\ cl[s] \notin dead

\* The long command: it keeps its connection while the VOD client plays.
StartPlay(s) ==
  /\ Works(s) /\ PlayStarts(s)
  /\ UNCHANGED <<poolVars, dead, firstDead, overlapped>>

\* The command ends, and releaseClient is deferred to its end.
EndCommand(s) ==
  /\ \/ /\ Works(s)
        /\ MkdirOk(s) \/ PlayEnds(s) \/ GrepFinds(s) \/ GrepMisses(s) \/ RmOk(s)
     \/ MkdirFails(s) \/ PlayFails(s) \/ GrepFails(s) \/ Cat(s) \/ RmFails(s)
  /\ Pool!Release(s)
  /\ UNCHANGED <<dead, firstDead, overlapped>>

\* The VOD client needs no connection to play.
Play(s) ==
  /\ ClientPlays(s)
  /\ UNCHANGED <<poolVars, dead, firstDead, overlapped>>

ConnectionDies ==
  /\ phase = "up" /\ Cardinality(dead) < MaxDead
  /\ \E k \in gClientMap \ dead : dead' = dead \cup {k}
  /\ UNCHANGED <<vars, poolVars, firstDead, overlapped>>

Session(s) == Start(s) \/ Borrow(s) \/ StartPlay(s) \/ EndCommand(s) \/ Play(s)

PooledNext == DialPool \/ ConnectionDies \/ \E s \in Sessions : Session(s)

PooledSpec == PooledInit /\ [][PooledNext]_pooledVars

-----------------------------------------------------------------------------
(* Properties.                                                             *)

\* One dead connection is enough for none to work: sessions that do not overlap
\* always get the first one (l.57-62), and when it is dead they all fail,
\* however many others are idle.  Only a session beside another one is served.
FirstDeadStarves ==
  PooledTypeOK /\ \A s \in Sessions :
    verdict[s] = "success" /\ s \in firstDead => s \in overlapped
=============================================================================
