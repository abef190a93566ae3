----------------------------- MODULE ClientPool -----------------------------
(***************************************************************************)
(* The pool of SSH connections of kt-simul, src/kt-simul/remote/remote.go. *)
(*                                                                         *)
(* Init dials gMaxSessionCount connections to every VOD client address     *)
(* while it holds gClientLock; the setup goroutines that are started       *)
(* afterwards borrow one connection for one command (Run2, Delete2):       *)
(* allocClient picks the least loaded connection of the address under the  *)
(* lock, releaseClient gives it back under the lock.  The command itself   *)
(* runs outside the lock, so borrowing and giving back of different        *)
(* goroutines interleave freely: Alloc and Release are one action each     *)
(* because the lock is held throughout.                                    *)
(*                                                                         *)
(* Left out: what the command does (SetupSession), and the reconnection of *)
(* a broken connection, which the code does not have.                      *)
(***************************************************************************)
EXTENDS Naturals, Sequences, FiniteSets

CONSTANTS
  IPs,               \* addresses of the VOD clients
  remoteIPs,         \* the argument of Init: cfg.VODClientIPs, a sequence
  gMaxSessionCount,  \* connections per address (10 in the code)
  Callers,           \* goroutines that run Run2 or Delete2
  NoClient           \* a caller that borrows no connection

ASSUME RemoteIPsAssumption == remoteIPs \in Seq(IPs)
ASSUME SessionCountAssumption == gMaxSessionCount \in Nat \ {0}
ASSUME CallersAssumption == IsFiniteSet(Callers)

Indices == 0 .. gMaxSessionCount - 1
clientKey(ip, i) == <<ip, i>>
Keys == {clientKey(ip, i) : ip \in IPs, i \in Indices}

ASSUME NoClientAssumption == NoClient \notin Keys

VARIABLES
  phase,           \* "init": Init is dialling; "up"; "exited": os.Exit(1)
  dialled,         \* addresses of remoteIPs all of whose clients are dialled
  idx,             \* index of the client being dialled to the next address
  retrying,        \* its first dial failed, the second one is due
  gClientMap,      \* the keys present in the code's map
  gClientSession,  \* commands running on each connection (0 when absent)
  cl               \* cl[g]: the connection goroutine g has borrowed

initVars == <<phase, dialled, idx, retrying, gClientMap>>
vars == <<phase, dialled, idx, retrying, gClientMap, gClientSession, cl>>

TypeOK ==
  /\ phase \in {"init", "up", "exited"}
  /\ dialled \in 0 .. Len(remoteIPs)
  /\ idx \in Indices
  /\ retrying \in BOOLEAN
  /\ gClientMap \subseteq Keys
  /\ gClientSession \in [Keys -> Nat]
  /\ cl \in [Callers -> Keys \cup {NoClient}]

PoolInit ==
  /\ phase = "init" /\ dialled = 0 /\ idx = 0 /\ retrying = FALSE
  /\ gClientMap = {}
  /\ gClientSession = [k \in Keys |-> 0]
  /\ cl = [g \in Callers |-> NoClient]

-----------------------------------------------------------------------------
(* Init: one dial after the other, a failed dial is tried once more.       *)

Dialling == phase = "init" /\ dialled < Len(remoteIPs)

DialOk ==
  /\ Dialling
  /\ gClientMap' = gClientMap \cup {clientKey(remoteIPs[dialled + 1], idx)}
  /\ retrying' = FALSE
  /\ IF idx + 1 < gMaxSessionCount
       THEN idx' = idx + 1 /\ UNCHANGED dialled
       ELSE idx' = 0 /\ dialled' = dialled + 1
  /\ UNCHANGED <<phase, gClientSession, cl>>

DialFail ==
  /\ Dialling /\ ~retrying
  /\ retrying' = TRUE
  /\ UNCHANGED <<phase, dialled, idx, gClientMap, gClientSession, cl>>

\* Mutant: the address's next client is dialled instead of giving up.
SkipClient ==
  /\ Dialling /\ retrying
  /\ retrying' = FALSE
  /\ IF idx + 1 < gMaxSessionCount
       THEN idx' = idx + 1 /\ UNCHANGED dialled
       ELSE idx' = 0 /\ dialled' = dialled + 1
  /\ UNCHANGED <<phase, gClientMap, gClientSession, cl>>

\* The second failure ends the process, whatever was dialled before.
DialFailAgain ==
  /\ Dialling /\ retrying
  /\ phase' = "exited"
  /\ UNCHANGED <<dialled, idx, retrying, gClientMap, gClientSession, cl>>

InitDone ==
  /\ phase = "init" /\ dialled = Len(remoteIPs)
  /\ phase' = "up"
  /\ UNCHANGED <<dialled, idx, retrying, gClientMap, gClientSession, cl>>

-----------------------------------------------------------------------------
(* Run2 and Delete2: allocClient, the command, the deferred releaseClient. *)

Load(ip, i) == gClientSession[clientKey(ip, i)]

\* Mutants: a later client is taken on a tie as well; the first client is
\* never exchanged for another one.
ScanLoopTies(ip) ==
  LET client[i \in Indices] ==
        IF i = 0 THEN 0
        ELSE LET c == client[i - 1] IN IF Load(ip, i) <= Load(ip, c) THEN i ELSE c
  IN client[gMaxSessionCount - 1]
ScanLoopFirst(ip) == 0

\* allocClient's loop: client[i] is the client it holds after looking at
\* indices 0..i.  The first one is taken unconditionally, a later one when it
\* is strictly less loaded.
ScanLoop(ip) ==
  LET client[i \in Indices] ==
        IF i = 0 THEN 0
        ELSE LET c == client[i - 1] IN IF Load(ip, i) < Load(ip, c) THEN i ELSE c
  IN client[gMaxSessionCount - 1]

Missing(ip) == \E i \in Indices : clientKey(ip, i) \notin gClientMap

\* allocClient fails with "not exists client" and changes nothing when a
\* key is missing, so only the successful call is an action.
Alloc(g, ip) ==
  /\ phase = "up" /\ cl[g] = NoClient /\ ~Missing(ip)
  /\ LET key == clientKey(ip, ScanLoop(ip))
     IN /\ gClientSession' = [gClientSession EXCEPT ![key] = @ + 1]
        /\ cl' = [cl EXCEPT ![g] = key]
  /\ UNCHANGED initVars

\* Mutant: the session is not given back (a return before the defer).
ReleaseLeaks(g) ==
  /\ cl[g] # NoClient
  /\ cl' = [cl EXCEPT ![g] = NoClient]
  /\ UNCHANGED <<initVars, gClientSession>>

Release(g) ==
  /\ cl[g] # NoClient
  /\ gClientSession' = [gClientSession EXCEPT ![cl[g]] = @ - 1]
  /\ cl' = [cl EXCEPT ![g] = NoClient]
  /\ UNCHANGED initVars

Next ==
  \/ DialOk \/ DialFail \/ DialFailAgain \/ InitDone
  \/ \E g \in Callers : Release(g) \/ \E ip \in IPs : Alloc(g, ip)

Spec == PoolInit /\ [][Next]_vars

-----------------------------------------------------------------------------
(* Properties.                                                             *)

Users(k) == {g \in Callers : cl[g] = k}

\* No session is leaked or given back twice: what gClientSession says of a
\* connection is the number of goroutines between allocClient (l.64) and
\* releaseClient (l.72) on it, whatever the interleaving.
Conservation == \A k \in Keys : gClientSession[k] = Cardinality(Users(k))

\* "Least loaded first" never lets a connection be loaded beyond what an even
\* spread of all goroutines over the connections of one address needs: a load
\* of m means that there are more than (m - 1) * gMaxSessionCount goroutines.
\* It holds although goroutines give back connections in any order.
SpreadBound ==
  \A k \in Keys :
    gClientSession[k] > 0 =>
      (gClientSession[k] - 1) * gMaxSessionCount < Cardinality(Callers)

\* The least loaded client of an address, the first one on a tie.
IsFirstLeast(ip, i) ==
  /\ i \in Indices
  /\ \A j \in Indices : Load(ip, i) <= Load(ip, j)
  /\ \A j \in Indices : j < i => Load(ip, i) < Load(ip, j)

\* The loop of allocClient (l.52-63), which compares each client only with the
\* one it holds, ends with the least loaded client of lowest index.
ScanAgrees == phase = "up" => \A ip \in IPs : IsFirstLeast(ip, ScanLoop(ip))

\* Init leaves no hole: once it has returned, every client of every address it
\* was given exists, so "not exists client" (l.54) cannot be returned for one
\* of them, however often a dial had to be repeated.
NoMissing ==
  phase = "up" =>
    \A n \in 1 .. Len(remoteIPs) : \A i \in Indices :
      clientKey(remoteIPs[n], i) \in gClientMap
=============================================================================
