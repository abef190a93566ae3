----------------------------- MODULE SetupFiles -----------------------------
(***************************************************************************)
(* How kt-simul chooses the content that a VOD session plays,              *)
(* src/kt-simul/ktsimul/setup.go: isHotForSetup, fileForSetup,             *)
(* updateFilesForSetup and serviceFiles, as RunSetupOne calls them.        *)
(*                                                                         *)
(* Every tick of processSetupForLocal starts a goroutine.  Under           *)
(* setupFileLock it takes the next content of a list of hot or of a list   *)
(* of cold contents; when EITHER list is used up it first replaces both,   *)
(* with two queries that do not see one state of the table.  The table     *)
(* goes on changing meanwhile, and an index out of range panics, which     *)
(* ends the process.                                                       *)
(*                                                                         *)
(* Left out: the pattern starts over out of step once, when the 32-bit     *)
(* counter of sessions wraps; and two first sessions may both create the   *)
(* pattern (l.169-171), which gives the same pattern twice.                *)
(***************************************************************************)
EXTENDS ServiceContent, Sequences, FiniteSets

CONSTANTS
  Goroutines,         \* running calls of RunSetupOne
  Nobody,             \* the lock is free
  LimitN,             \* the LIMIT of the two queries (10 in the code)
  setupHotQueue       \* the pattern of hot and cold sessions

ASSUME LimitAssumption == LimitN \in Nat \ {0}
ASSUME PatternAssumption ==
  setupHotQueue \in Seq(BOOLEAN) /\ Len(setupHotQueue) > 0
ASSUME NobodyAssumption == Nobody \notin Goroutines

Kinds == {"hot", "cold"}

VARIABLES
  setupHotQueueCurIdx, \* position in the pattern, modulo its length
  queue,               \* queue["hot"] = setupHotFileQueue, queue["cold"]
  curIdx,              \* curIdx["hot"] = setupHotFileCurIdx, curIdx["cold"]
  setupFileLock,       \* the goroutine that holds it, or Nobody
  pc,                  \* where each goroutine is
  want,                \* the kind of content it is to play
  crashed,             \* the process died of an index out of range
  stale                \* stale[k][f]: times f came out of list k while absent

listVars == <<queue, curIdx, stale>>
setupVars == <<setupHotQueueCurIdx, queue, curIdx, setupFileLock, pc, want,
               crashed, stale>>
vars == <<tableVars, setupVars>>

Labels == {"idle", "lock", "hotQuery", "coldQuery", "pick"}

TypeOK ==
  /\ rows \in [Files -> {"absent", "hot", "cold"}] /\ wasCold \subseteq Files
  /\ setupHotQueueCurIdx \in 0 .. Len(setupHotQueue) - 1
  /\ queue \in [Kinds -> Seq(Files)]
  /\ curIdx \in [Kinds -> Nat]
  /\ setupFileLock \in Goroutines \cup {Nobody}
  /\ pc \in [Goroutines -> Labels]
  /\ want \in [Goroutines -> Kinds]
  /\ crashed \in BOOLEAN
  /\ stale \in [Kinds -> [Files -> Nat]]

Init ==
  /\ TableInit
  /\ setupHotQueueCurIdx = 0
  /\ queue = [k \in Kinds |-> <<>>]
  /\ curIdx = [k \in Kinds |-> 0]
  /\ setupFileLock = Nobody
  /\ pc = [g \in Goroutines |-> "idle"]
  /\ want = [g \in Goroutines |-> "hot"]
  /\ crashed = FALSE
  /\ stale = [k \in Kinds |-> [f \in Files |-> 0]]

-----------------------------------------------------------------------------
(* A goroutine of processSetupForLocal.                                    *)

At(g, label) == ~crashed /\ pc[g] = label
Goto(g, label) == pc' = [pc EXCEPT ![g] = label]
Unlock == setupFileLock' = Nobody
UsedUp(k) == curIdx[k] >= Len(queue[k])

\* isHotForSetup: the atomic increment comes before the read.
Start(g) ==
  /\ At(g, "idle")
  /\ setupHotQueueCurIdx' = (setupHotQueueCurIdx + 1) % Len(setupHotQueue)
  /\ want' = [want EXCEPT ![g] = Kind(setupHotQueue[setupHotQueueCurIdx' + 1])]
  /\ Goto(g, "lock")
  /\ UNCHANGED <<tableVars, listVars, setupFileLock, crashed>>

\* Mutant: both lists are replaced only when both are used up.
LockBoth(g) ==
  /\ At(g, "lock") /\ setupFileLock = Nobody
  /\ setupFileLock' = g
  /\ Goto(g, IF UsedUp("hot") /\ UsedUp("cold") THEN "hotQuery" ELSE "pick")
  /\ UNCHANGED <<tableVars, listVars, setupHotQueueCurIdx, want, crashed>>

\* fileForSetup up to the test of the two lists.
Lock(g) ==
  /\ At(g, "lock") /\ setupFileLock = Nobody
  /\ setupFileLock' = g
  /\ Goto(g, IF UsedUp("hot") \/ UsedUp("cold") THEN "hotQuery" ELSE "pick")
  /\ UNCHANGED <<tableVars, listVars, setupHotQueueCurIdx, want, crashed>>

\* serviceFiles: rows of the kind in any order, at most LimitN of them, and
\* fewer when reading them breaks off, because rows.Err is not looked at.
Result(k) ==
  {s \in UNION {[1 .. n -> {f \in Files : rows[f] = k}] : n \in 0 .. LimitN} :
     \A i, j \in DOMAIN s : i # j => s[i] # s[j]}

Replace(k, s) ==
  /\ queue' = [queue EXCEPT ![k] = s]
  /\ curIdx' = [curIdx EXCEPT ![k] = 0]

\* updateFilesForSetup: one list is replaced before the other is queried.
HotQuery(g) ==
  /\ At(g, "hotQuery")
  /\ \E s \in Result("hot") : Replace("hot", s)
  /\ Goto(g, "coldQuery")
  /\ UNCHANGED <<tableVars, setupHotQueueCurIdx, setupFileLock, want, crashed, stale>>

ColdQuery(g) ==
  /\ At(g, "coldQuery")
  /\ \E s \in Result("cold") : Replace("cold", s)
  /\ Goto(g, "pick")
  /\ UNCHANGED <<tableVars, setupHotQueueCurIdx, setupFileLock, want, crashed, stale>>

\* Mutant: the lock is not given back on the error path.
QueryFailsLocked(g) ==
  /\ At(g, "hotQuery") \/ At(g, "coldQuery")
  /\ Goto(g, "idle")
  /\ UNCHANGED <<tableVars, listVars, setupHotQueueCurIdx, setupFileLock, want, crashed>>

\* A query fails: fileForSetup returns the error, a list already replaced
\* stays replaced.
QueryFails(g) ==
  /\ At(g, "hotQuery") \/ At(g, "coldQuery")
  /\ Goto(g, "idle")
  /\ Unlock
  /\ UNCHANGED <<tableVars, listVars, setupHotQueueCurIdx, want, crashed>>

Taken(k) == queue[k][curIdx[k] + 1]

\* Mutant: the index is not advanced.
PickStays(g) ==
  /\ At(g, "pick") /\ ~UsedUp(want[g])
  /\ LET k == want[g] IN
       stale' = IF Present(Taken(k)) THEN stale
                ELSE [stale EXCEPT ![k][Taken(k)] = @ + 1]
  /\ Goto(g, "idle")
  /\ Unlock
  /\ UNCHANGED <<tableVars, queue, curIdx, setupHotQueueCurIdx, want, crashed>>

\* The end of fileForSetup: the content the session will ask the GLB for.
Pick(g) ==
  /\ At(g, "pick") /\ ~UsedUp(want[g])
  /\ LET k == want[g] IN
       /\ curIdx' = [curIdx EXCEPT ![k] = @ + 1]
       /\ stale' = IF Present(Taken(k)) THEN stale
                   ELSE [stale EXCEPT ![k][Taken(k)] = @ + 1]
  /\ Goto(g, "idle")
  /\ Unlock
  /\ UNCHANGED <<tableVars, queue, setupHotQueueCurIdx, want, crashed>>

\* setupHotFileQueue[setupHotFileCurIdx] with nothing there: nobody recovers.
PickPanics(g) ==
  /\ At(g, "pick") /\ UsedUp(want[g])
  /\ crashed' = TRUE
  /\ UNCHANGED <<tableVars, listVars, setupHotQueueCurIdx, setupFileLock, pc, want>>

\* The other users of the table; a content that comes back is not stale.
TableStep ==
  /\ TableNext
  /\ stale' = [k \in Kinds |-> [f \in Files |-> IF rows'[f] = "absent" THEN stale[k][f] ELSE 0]]
  /\ UNCHANGED <<setupHotQueueCurIdx, queue, curIdx, setupFileLock, pc, want, crashed>>

Step(g) ==
  \/ Start(g) \/ Lock(g) \/ HotQuery(g) \/ ColdQuery(g)
  \/ QueryFails(g) \/ Pick(g) \/ PickPanics(g)

Next == TableStep \/ \E g \in Goroutines : Step(g)

Spec == Init /\ [][Next]_vars

\* The database answers every query or fails it, and the Go mutex serves a
\* waiter that has waited long enough first (starvation mode).
Fairness ==
  \A g \in Goroutines :
    /\ SF_vars(Lock(g))
    /\ WF_vars(HotQuery(g) \/ ColdQuery(g) \/ QueryFails(g) \/ Pick(g) \/ PickPanics(g))

FairSpec == Spec /\ Fairness

-----------------------------------------------------------------------------
(* Properties.                                                             *)

\* The process dies (l.217, l.220) only if a query returned no row of the kind
\* that was wanted, never because a list was used up: replacing both lists
\* when either is used up keeps the other index in range.
CrashOnlyOnEmptyList ==
  crashed => \E g \in Goroutines : pc[g] = "pick" /\ queue[want[g]] = <<>>

\* A content whose row is gone comes out of each list at most once until it is
\* inserted again: the lists are not told of a deletion, but a list replaced
\* afterwards does not hold it (l.190-202).
StaleAtMostOnce == \A k \in Kinds, f \in Files : stale[k][f] <= 1

\* Every session that asks for a content gets one or an error, unless the
\* process dies: no goroutine waits for setupFileLock for ever.
EverySetupServed ==
  \A g \in Goroutines : pc[g] = "lock" ~> (pc[g] = "idle" \/ crashed)
=============================================================================
