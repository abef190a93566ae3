---------------------------- MODULE SetupSession ----------------------------
(***************************************************************************)
(* The VOD sessions of kt-simul, src/kt-simul/ktsimul/setup.go: setupOne   *)
(* and setupToGlb, as RunSetupOne runs them.                               *)
(*                                                                         *)
(* A session is a chain of commands on a client machine: make the log      *)
(* directory, play from a GLB with the output redirected to a log, grep    *)
(* the log for success, play from the second GLB when the first one did    *)
(* not serve (hot contents only), remove the log after a success, print it *)
(* after a failure.  Any command may fail by itself.                       *)
(*                                                                         *)
(* The name of the log is the time to the second and the content, so two   *)
(* sessions of one second that play one content on one machine write,      *)
(* truncate, grep and remove ONE file.  A path below stands for machine,   *)
(* second and content.                                                     *)
(*                                                                         *)
(* External: the shell, grep, rm and the VOD client, known from the        *)
(* commands the code builds.  A VOD client whose SSH session broke goes    *)
(* on writing.                                                             *)
(***************************************************************************)
EXTENDS Naturals, FiniteSets

CONSTANTS
  Sessions,
  Paths,              \* the log files
  NoPath              \* the path of a session that has not begun

ASSUME NoPathAssumption == NoPath \notin Paths

Glbs == {1, 2}        \* glbIP and secondGlbIP

VARIABLES
  pc,                 \* the command of the session that comes next
  path,               \* ev.logPath
  hot,                \* ev.isHot: a second GLB is known
  glb,                \* the GLB being asked
  verdict,            \* what setupOne returns: "none", "success", "failure"
  exists,             \* exists[p]: the log file is there
  marks,              \* marks[p]: 'play(): success.' lines, as <<session, GLB>>
  fd,                 \* fd[s]: "none", "open" (on the file at path), "lost"
  played,             \* played[s]: the GLBs that did serve the session
  broken              \* broken[s]: the commands that failed by themselves

sessionVars == <<path, hot>>
logVars == <<exists, marks, fd, played>>
vars == <<pc, path, hot, glb, verdict, exists, marks, fd, played, broken>>

Commands == {"mkdir", "play", "playing", "grep", "cat", "rm"}

TypeOK ==
  /\ pc \in [Sessions -> Commands \cup {"idle", "done"}]
  /\ path \in [Sessions -> Paths \cup {NoPath}]
  /\ hot \in [Sessions -> BOOLEAN]
  /\ glb \in [Sessions -> Glbs]
  /\ verdict \in [Sessions -> {"none", "success", "failure"}]
  /\ exists \in [Paths -> BOOLEAN]
  /\ marks \in [Paths -> SUBSET (Sessions \X Glbs)]
  /\ fd \in [Sessions -> {"none", "open", "lost"}]
  /\ played \in [Sessions -> SUBSET Glbs]
  /\ broken \in [Sessions -> SUBSET Commands]

Init ==
  /\ pc = [s \in Sessions |-> "idle"]
  /\ path = [s \in Sessions |-> NoPath]
  /\ hot = [s \in Sessions |-> FALSE]
  /\ glb = [s \in Sessions |-> 1]
  /\ verdict = [s \in Sessions |-> "none"]
  /\ exists = [p \in Paths |-> FALSE]
  /\ marks = [p \in Paths |-> {}]
  /\ fd = [s \in Sessions |-> "none"]
  /\ played = [s \in Sessions |-> {}]
  /\ broken = [s \in Sessions |-> {}]

-----------------------------------------------------------------------------
Goto(s, label) == pc' = [pc EXCEPT ![s] = label]

Break(s, command) == broken' = [broken EXCEPT ![s] = @ \cup {command}]

\* setupOne after an error without failover, or after the second GLB.
Fail(s) == verdict' = [verdict EXCEPT ![s] = "failure"] /\ Goto(s, "cat")

\* RunSetupOne: the event with its log path.
Begin(s) ==
  /\ pc[s] = "idle"
  /\ \E p \in Paths, h \in BOOLEAN :
       path' = [path EXCEPT ![s] = p] /\ hot' = [hot EXCEPT ![s] = h]
  /\ Goto(s, "mkdir")
  /\ UNCHANGED <<glb, verdict, logVars, broken>>

MkdirOk(s) ==
  /\ pc[s] = "mkdir"
  /\ Goto(s, "play")
  /\ UNCHANGED <<sessionVars, glb, verdict, logVars, broken>>

\* No failover when the command itself cannot be run.
MkdirFails(s) ==
  /\ pc[s] = "mkdir"
  /\ Break(s, "mkdir")
  /\ Fail(s)
  /\ UNCHANGED <<sessionVars, glb, logVars>>

\* Mutant: the log is opened for appending, " >> ".
PlayAppends(s) ==
  /\ pc[s] = "play"
  /\ exists' = [exists EXCEPT ![path[s]] = TRUE]
  /\ fd' = [fd EXCEPT ![s] = "open"]
  /\ Goto(s, "playing")
  /\ UNCHANGED <<sessionVars, glb, verdict, marks, played, broken>>

\* The shell opens " > log": it creates the file or truncates it.
PlayStarts(s) ==
  /\ pc[s] = "play"
  /\ exists' = [exists EXCEPT ![path[s]] = TRUE]
  /\ marks' = [marks EXCEPT ![path[s]] = {}]
  /\ fd' = [fd EXCEPT ![s] = "open"]
  /\ Goto(s, "playing")
  /\ UNCHANGED <<sessionVars, glb, verdict, played, broken>>

\* The VOD client writes at its own offset: over what others wrote there, and
\* into nothing when the file was removed.
ClientPlays(s) ==
  /\ fd[s] # "none" /\ glb[s] \notin played[s]
  /\ played' = [played EXCEPT ![s] = @ \cup {glb[s]}]
  /\ IF fd[s] = "open"
       THEN \E kept \in SUBSET marks[path[s]] :
              marks' = [marks EXCEPT ![path[s]] = kept \cup {<<s, glb[s]>>}]
       ELSE UNCHANGED marks
  /\ UNCHANGED <<pc, sessionVars, glb, verdict, exists, fd, broken>>

PlayEnds(s) ==
  /\ pc[s] = "playing"
  /\ fd' = [fd EXCEPT ![s] = "none"]
  /\ Goto(s, "grep")
  /\ UNCHANGED <<sessionVars, glb, verdict, exists, marks, played, broken>>

\* No SSH session, a non-zero exit status, or a session that breaks while the
\* VOD client goes on (its descriptor stays open): no failover.
PlayFails(s) ==
  /\ pc[s] \in {"play", "playing"}
  /\ \E rest \in {"none", fd[s]} : fd' = [fd EXCEPT ![s] = rest]
  /\ Break(s, "play")
  /\ Fail(s)
  /\ UNCHANGED <<sessionVars, glb, exists, marks, played>>

\* Mutant: the error of the first GLB is not replaced by the result of the
\* second one.
GrepFindsFirstError(s) ==
  /\ pc[s] = "grep" /\ exists[path[s]] /\ marks[path[s]] # {}
  /\ IF glb[s] = 2 THEN Fail(s)
     ELSE verdict' = [verdict EXCEPT ![s] = "success"] /\ Goto(s, "rm")
  /\ UNCHANGED <<sessionVars, glb, logVars, broken>>

GrepFinds(s) ==
  /\ pc[s] = "grep" /\ exists[path[s]] /\ marks[path[s]] # {}
  /\ verdict' = [verdict EXCEPT ![s] = "success"]
  /\ Goto(s, "rm")
  /\ UNCHANGED <<sessionVars, glb, logVars, broken>>

\* needsFailover, for which setupOne knows a second GLB when content is hot.
TryNext(s) ==
  IF hot[s] /\ glb[s] = 1
    THEN /\ glb' = [glb EXCEPT ![s] = 2]
         /\ Goto(s, "mkdir")
         /\ UNCHANGED verdict
    ELSE Fail(s) /\ UNCHANGED glb

\* Nothing found, or no file (another session removed it): grep exits non-zero.
GrepMisses(s) ==
  /\ pc[s] = "grep" /\ ~(exists[path[s]] /\ marks[path[s]] # {})
  /\ UNCHANGED broken
  /\ TryNext(s)
  /\ UNCHANGED <<sessionVars, logVars>>

\* grep could not be run: the session cannot tell this from a miss.
GrepFails(s) ==
  /\ pc[s] = "grep"
  /\ Break(s, "grep")
  /\ TryNext(s)
  /\ UNCHANGED <<sessionVars, logVars>>

\* After a failure the log is printed, or not, and kept.
Cat(s) ==
  /\ pc[s] = "cat"
  /\ Goto(s, "done")
  /\ UNCHANGED <<sessionVars, glb, verdict, logVars, broken>>

\* Delete2; writers of the removed file keep writing to it.
RmOk(s) ==
  /\ pc[s] = "rm" /\ exists[path[s]]
  /\ exists' = [exists EXCEPT ![path[s]] = FALSE]
  /\ marks' = [marks EXCEPT ![path[s]] = {}]
  /\ fd' = [t \in Sessions |->
              IF path[t] = path[s] /\ fd[t] = "open" THEN "lost" ELSE fd[t]]
  /\ Goto(s, "done")
  /\ UNCHANGED <<sessionVars, glb, verdict, played, broken>>

\* A warning only: the session stays a success.
RmFails(s) ==
  /\ pc[s] = "rm"
  /\ Break(s, "rm")
  /\ Goto(s, "done")
  /\ UNCHANGED <<sessionVars, glb, verdict, logVars>>

Step(s) ==
  \/ Begin(s) \/ MkdirOk(s) \/ MkdirFails(s) \/ PlayStarts(s) \/ ClientPlays(s)
  \/ PlayEnds(s) \/ PlayFails(s) \/ GrepFinds(s) \/ GrepMisses(s) \/ GrepFails(s)
  \/ Cat(s) \/ RmOk(s) \/ RmFails(s)

Next == \E s \in Sessions : Step(s)

Spec == Init /\ [][Next]_vars

-----------------------------------------------------------------------------
(* Properties.                                                             *)

\* No other session has the log of s.
Alone(s) == \A t \in Sessions \ {s} : path[t] # path[s]

\* "success" (l.99-102) is never invented: some session with this log was
\* served by a GLB.  It need not be the session itself: of two sessions of one
\* second with one log, one may be taken for the other.
SuccessBacked ==
  \A s \in Sessions : verdict[s] = "success" =>
    \E t \in Sessions : path[t] = path[s] /\ played[t] # {}

\* A session that has its log for itself judges rightly: it reports success
\* only if the GLB it asked LAST served it, although the first GLB's log had
\* the same name.
SuccessOwn ==
  \A s \in Sessions : verdict[s] = "success" /\ Alone(s) => glb[s] \in played[s]

\* A session that was served by the GLB it asked last is reported as failed
\* only if one of its commands failed by itself, or the log is shared.
FailureExplained ==
  \A s \in Sessions :
    verdict[s] = "failure" /\ glb[s] \in played[s] /\ Alone(s) => broken[s] # {}

\* A hot session that fails without having asked the second GLB failed because
\* mkdir or play could not be run (l.111, l.127), never because grep found
\* nothing or could not be run.
GivesUpOnlyOnCommand ==
  \A s \in Sessions :
    verdict[s] = "failure" /\ hot[s] /\ glb[s] = 1 => broken[s] \cap {"mkdir", "play"} # {}

\* What a success of setupOne (l.99) means: both of the above, over all
\* interleavings of sessions and their VOD clients.
SuccessJudged == SuccessBacked /\ SuccessOwn

\* What a failure of setupOne (l.90-97) means: both reasons above.
FailureJudged == FailureExplained /\ GivesUpOnlyOnCommand
=============================================================================
