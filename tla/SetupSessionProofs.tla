------------------------- MODULE SetupSessionProofs -------------------------
(***************************************************************************)
(* Proofs about the verdict of a VOD session, for any number of sessions   *)
(* and of logs: what a success and a failure say of the GLBs, although     *)
(* sessions may share a log; and about the sessions over the pool of       *)
(* connections: they implement both parts, and starve on a dead first one. *)
(*                                                                         *)
(* And about others who judge by a log that may not be theirs alone: the   *)
(* deleters of DeleteOne.                                                  *)
(***************************************************************************)
EXTENDS PooledSetup, DeleteOne, FiniteSetTheorems, TLAPS

\* A session has a path once it has begun; it is judged at its end only.
Phases ==
  \A s \in Sessions :
    /\ path[s] = NoPath <=> pc[s] = "idle"
    /\ verdict[s] # "none" <=> pc[s] \in {"cat", "rm", "done"}
    /\ pc[s] = "cat" => verdict[s] = "failure"
    /\ pc[s] = "rm" => verdict[s] = "success"

\* A line of success was written by a session of that log that was served.
MarksBacked ==
  \A p \in Paths : \A s \in Sessions, a \in Glbs :
    <<s, a>> \in marks[p] => path[s] = p /\ a \in played[s]

\* A writer that outlives its command leaves a broken command behind, and a
\* session is served only by GLBs it has asked for.
Writers ==
  \A s \in Sessions :
    /\ fd[s] # "none" /\ pc[s] # "playing" => broken[s] # {}
    /\ pc[s] \in {"idle", "mkdir", "play", "grep"} => fd[s] = "none"
    /\ \A a \in played[s] : a <= glb[s]
    /\ pc[s] \in {"idle", "mkdir", "play"} => glb[s] \notin played[s]

\* A log was truncated when the last GLB was asked.
MarksCurrent ==
  \A s \in Sessions : pc[s] \in {"playing", "grep"} =>
    \A a \in Glbs : <<s, a>> \in marks[path[s]] => a = glb[s]

\* A log of one session only keeps what that session wrote.
LogKept ==
  \A s \in Sessions : Alone(s) /\ pc[s] \in {"playing", "grep"} =>
    /\ exists[path[s]]
    /\ pc[s] = "playing" => fd[s] = "open"
    /\ glb[s] \in played[s] => <<s, glb[s]>> \in marks[path[s]]

SessionInv ==
  /\ TypeOK /\ Phases /\ MarksBacked /\ Writers /\ MarksCurrent /\ LogKept
  /\ SuccessBacked /\ SuccessOwn /\ FailureExplained /\ GivesUpOnlyOnCommand

-----------------------------------------------------------------------------
LEMMA SessionInit == Init => SessionInv
BY NoPathAssumption
   DEF Init, SessionInv, TypeOK, Phases, MarksBacked, Writers, MarksCurrent, LogKept,
       SuccessBacked, SuccessOwn, FailureExplained, GivesUpOnlyOnCommand, Glbs, Commands

LEMMA TypeStep == TypeOK /\ Phases /\ [Next]_vars => TypeOK'
<1> SUFFICES ASSUME TypeOK, Phases, [Next]_vars PROVE TypeOK'
  OBVIOUS
<1>0. ASSUME NEW s \in Sessions, pc[s] # "idle" PROVE path[s] \in Paths
  BY <1>0 DEF TypeOK, Phases
<1> USE DEF TypeOK, Goto, Commands
<1>1. ASSUME NEW s \in Sessions, Begin(s) PROVE TypeOK'
  BY <1>1 DEF Begin, logVars
<1>2. ASSUME NEW s \in Sessions, MkdirOk(s) \/ MkdirFails(s) \/ Cat(s) \/ RmFails(s)
      PROVE  TypeOK'
  BY <1>2 DEF MkdirOk, MkdirFails, Cat, RmFails, Break, Fail, logVars, sessionVars
<1>3. ASSUME NEW s \in Sessions, PlayStarts(s) PROVE TypeOK'
  BY <1>3, <1>0 DEF PlayStarts, sessionVars
<1>4. ASSUME NEW s \in Sessions, ClientPlays(s) PROVE TypeOK'
  <2>1. <<s, glb[s]>> \in Sessions \X Glbs
    OBVIOUS
  <2>2. marks' \in [Paths -> SUBSET (Sessions \X Glbs)]
    BY <1>4, <2>1 DEF ClientPlays
  <2>3. played' \in [Sessions -> SUBSET Glbs]
    BY <1>4 DEF ClientPlays
  <2> QED BY <1>4, <2>2, <2>3 DEF ClientPlays, sessionVars
<1>5. ASSUME NEW s \in Sessions, PlayEnds(s) \/ PlayFails(s) PROVE TypeOK'
  BY <1>5 DEF PlayEnds, PlayFails, Break, Fail, sessionVars
<1>6. ASSUME NEW s \in Sessions, GrepFinds(s) \/ GrepMisses(s) \/ GrepFails(s)
      PROVE  TypeOK'
  BY <1>6 DEF GrepFinds, GrepMisses, GrepFails, TryNext, Fail, Break, Glbs,
              logVars, sessionVars
<1>7. ASSUME NEW s \in Sessions, RmOk(s) PROVE TypeOK'
  BY <1>7 DEF RmOk, sessionVars
<1>8. CASE UNCHANGED vars
  BY <1>8 DEF vars
<1> QED BY <1>1, <1>2, <1>3, <1>4, <1>5, <1>6, <1>7, <1>8 DEF Next, Step

LEMMA PhasesStep == TypeOK /\ Phases /\ [Next]_vars => Phases'
<1> SUFFICES ASSUME TypeOK, Phases, [Next]_vars PROVE Phases'
  OBVIOUS
<1> USE NoPathAssumption DEF TypeOK, Phases, Goto
<1>1. ASSUME NEW s \in Sessions, Begin(s) PROVE Phases'
  BY <1>1 DEF Begin
<1>2. ASSUME NEW s \in Sessions,
             \/ MkdirOk(s) \/ MkdirFails(s) \/ PlayStarts(s) \/ ClientPlays(s)
             \/ PlayEnds(s) \/ PlayFails(s)
      PROVE  Phases'
  BY <1>2 DEF MkdirOk, MkdirFails, PlayStarts, ClientPlays, PlayEnds, PlayFails, Fail,
              sessionVars
<1>3. ASSUME NEW s \in Sessions, GrepFinds(s) \/ GrepMisses(s) \/ GrepFails(s)
      PROVE  Phases'
  BY <1>3 DEF GrepFinds, GrepMisses, GrepFails, TryNext, Fail, sessionVars
<1>4. ASSUME NEW s \in Sessions, Cat(s) \/ RmOk(s) \/ RmFails(s) PROVE Phases'
  BY <1>4 DEF Cat, RmOk, RmFails, sessionVars
<1>5. CASE UNCHANGED vars
  BY <1>5 DEF vars
<1> QED BY <1>1, <1>2, <1>3, <1>4, <1>5 DEF Next, Step

\* Which step may change what, for the invariants below.
LEMMA LogSteps ==
  ASSUME TypeOK, Phases, [Next]_vars
  PROVE  \/ UNCHANGED <<marks, exists, played, fd, path>>
         \/ \E s \in Sessions : Begin(s) \/ PlayStarts(s) \/ ClientPlays(s) \/ PlayEnds(s)
                                \/ PlayFails(s) \/ RmOk(s)
BY DEF Next, Step, MkdirOk, MkdirFails, GrepFinds, GrepMisses, GrepFails, Cat, RmFails,
       vars, logVars, sessionVars

LEMMA MarksStep == TypeOK /\ Phases /\ MarksBacked /\ [Next]_vars => MarksBacked'
<1> SUFFICES ASSUME TypeOK, Phases, MarksBacked, [Next]_vars PROVE MarksBacked'
  OBVIOUS
<1>0. ASSUME NEW s \in Sessions, pc[s] # "idle" PROVE path[s] \in Paths
  BY <1>0 DEF TypeOK, Phases
<1> USE NoPathAssumption DEF MarksBacked
<1>1. CASE UNCHANGED <<marks, played, path>>
  BY <1>1
<1>2. ASSUME NEW s \in Sessions, Begin(s) PROVE MarksBacked'
  BY <1>2 DEF Begin, logVars, TypeOK, Phases
<1>3. ASSUME NEW s \in Sessions, PlayStarts(s) PROVE MarksBacked'
  BY <1>3 DEF PlayStarts, sessionVars, TypeOK
<1>4. ASSUME NEW s \in Sessions, ClientPlays(s) PROVE MarksBacked'
  <2>1. /\ path' = path /\ played' = [played EXCEPT ![s] = @ \cup {glb[s]}]
        /\ \A t \in Sessions : played[t] \subseteq played'[t]
        /\ glb[s] \in played'[s]
    BY <1>4 DEF ClientPlays, sessionVars, TypeOK
  <2>2. \/ marks' = marks
        \/ \E kept \in SUBSET marks[path[s]] :
             marks' = [marks EXCEPT ![path[s]] = kept \cup {<<s, glb[s]>>}]
    BY <1>4 DEF ClientPlays
  <2>3. ASSUME NEW p \in Paths, NEW t \in Sessions, NEW a \in Glbs, <<t, a>> \in marks'[p]
        PROVE  path[t] = p /\ a \in played'[t]
    <3>1. <<t, a>> \in marks[p] \/ (p = path[s] /\ t = s /\ a = glb[s])
      BY <2>2, <2>3 DEF TypeOK
    <3> QED BY <2>1, <3>1
  <2> QED BY <2>1, <2>3
<1>5. ASSUME NEW s \in Sessions, PlayEnds(s) \/ PlayFails(s) PROVE MarksBacked'
  BY <1>5 DEF PlayEnds, PlayFails, sessionVars
<1>6. ASSUME NEW s \in Sessions, RmOk(s) PROVE MarksBacked'
  BY <1>6 DEF RmOk, sessionVars, TypeOK
<1> QED BY <1>1, <1>2, <1>3, <1>4, <1>5, <1>6, LogSteps

LEMMA WritersStep == TypeOK /\ Phases /\ Writers /\ [Next]_vars => Writers'
<1> SUFFICES ASSUME TypeOK, Phases, Writers, [Next]_vars PROVE Writers'
  OBVIOUS
<1> USE DEF Writers, TypeOK, Goto, Glbs
<1>1. ASSUME NEW s \in Sessions, Begin(s) \/ MkdirOk(s) \/ PlayStarts(s) \/ PlayEnds(s)
      PROVE  Writers'
  BY <1>1 DEF Begin, MkdirOk, PlayStarts, PlayEnds, logVars, sessionVars
<1>2. ASSUME NEW s \in Sessions, ClientPlays(s) PROVE Writers'
  BY <1>2 DEF ClientPlays
<1>3. ASSUME NEW s \in Sessions, MkdirFails(s) \/ PlayFails(s) PROVE Writers'
  BY <1>3 DEF MkdirFails, PlayFails, Fail, Break, logVars, sessionVars
<1>4. ASSUME NEW s \in Sessions, GrepFinds(s) \/ GrepMisses(s) \/ GrepFails(s)
      PROVE  Writers'
  BY <1>4 DEF GrepFinds, GrepMisses, GrepFails, TryNext, Fail, Break, logVars
<1>5. ASSUME NEW s \in Sessions, Cat(s) \/ RmFails(s) PROVE Writers'
  BY <1>5 DEF Cat, RmFails, Break, logVars
<1>6. ASSUME NEW s \in Sessions, RmOk(s) PROVE Writers'
  <2>1. \A t \in Sessions : fd'[t] = "none" <=> fd[t] = "none"
    BY <1>6 DEF RmOk
  <2> QED BY <1>6, <2>1 DEF RmOk
<1>7. CASE UNCHANGED vars
  BY <1>7 DEF vars
<1> QED BY <1>1, <1>2, <1>3, <1>4, <1>5, <1>6, <1>7 DEF Next, Step

LEMMA MarksCurrentStep ==
  TypeOK /\ Phases /\ MarksBacked /\ MarksCurrent /\ [Next]_vars => MarksCurrent'
<1> SUFFICES ASSUME TypeOK, Phases, MarksBacked, MarksCurrent, [Next]_vars
             PROVE  MarksCurrent'
  OBVIOUS
<1>0. ASSUME NEW s \in Sessions, pc[s] # "idle" PROVE path[s] \in Paths
  BY <1>0 DEF TypeOK, Phases
<1> USE DEF MarksCurrent, TypeOK, Goto
<1>1. ASSUME NEW s \in Sessions, Begin(s) \/ MkdirOk(s) \/ MkdirFails(s) PROVE MarksCurrent'
  BY <1>1 DEF Begin, MkdirOk, MkdirFails, Fail, logVars, sessionVars
<1>2. ASSUME NEW s \in Sessions, PlayStarts(s) PROVE MarksCurrent'
  BY <1>0, <1>2 DEF PlayStarts, sessionVars
<1>3. ASSUME NEW s \in Sessions, ClientPlays(s) PROVE MarksCurrent'
  <2>1. path' = path /\ pc' = pc /\ glb' = glb
    BY <1>3 DEF ClientPlays, sessionVars
  <2>2. \A p \in Paths, t \in Sessions, a \in Glbs :
          <<t, a>> \in marks'[p] => <<t, a>> \in marks[p] \/ (t = s /\ a = glb[s])
    BY <1>3 DEF ClientPlays
  <2> QED BY <1>0, <2>1, <2>2
<1>4. ASSUME NEW s \in Sessions, PlayEnds(s) \/ PlayFails(s) PROVE MarksCurrent'
  BY <1>4 DEF PlayEnds, PlayFails, Fail, sessionVars
<1>5. ASSUME NEW s \in Sessions, GrepFinds(s) \/ GrepMisses(s) \/ GrepFails(s)
      PROVE  MarksCurrent'
  BY <1>5 DEF GrepFinds, GrepMisses, GrepFails, TryNext, Fail, logVars, sessionVars
<1>6. ASSUME NEW s \in Sessions, Cat(s) \/ RmOk(s) \/ RmFails(s) PROVE MarksCurrent'
  BY <1>0, <1>6 DEF Cat, RmOk, RmFails, logVars, sessionVars
<1>7. CASE UNCHANGED vars
  BY <1>7 DEF vars
<1> QED BY <1>1, <1>2, <1>3, <1>4, <1>5, <1>6, <1>7 DEF Next, Step

\* A session that has its log for itself had it for itself before.
LEMMA AloneBefore ==
  ASSUME TypeOK, Phases, [Next]_vars, NEW s \in Sessions, pc[s] # "idle", Alone(s)'
  PROVE  Alone(s) /\ path'[s] = path[s]
<1>1. CASE path' = path
  BY <1>1 DEF Alone
<1>2. ASSUME NEW t \in Sessions, Begin(t) PROVE Alone(s) /\ path'[s] = path[s]
  BY <1>2, NoPathAssumption DEF Begin, Alone, Phases, TypeOK
<1> QED BY <1>1, <1>2, LogSteps DEF PlayStarts, ClientPlays, PlayEnds, PlayFails, RmOk, sessionVars

LEMMA LogKeptStep ==
  TypeOK /\ Phases /\ Writers /\ LogKept /\ [Next]_vars => LogKept'
<1> SUFFICES ASSUME TypeOK, Phases, Writers, LogKept, [Next]_vars,
                    NEW s \in Sessions, Alone(s)', pc'[s] \in {"playing", "grep"}
             PROVE  /\ exists'[path'[s]]
                    /\ pc'[s] = "playing" => fd'[s] = "open"
                    /\ glb'[s] \in played'[s] => <<s, glb'[s]>> \in marks'[path'[s]]
  BY DEF LogKept
<1> USE DEF TypeOK, Goto
<1>1. pc[s] # "idle"
  BY DEF Next, Step, Begin, MkdirOk, MkdirFails, PlayStarts, ClientPlays, PlayEnds, PlayFails,
         GrepFinds, GrepMisses, GrepFails, TryNext, Fail, Cat, RmOk, RmFails, vars
<1>2. Alone(s) /\ path'[s] = path[s] /\ path[s] \in Paths
  BY <1>1, AloneBefore DEF Phases
<1>3. \A t \in Sessions : t # s => path[t] # path[s]
  BY <1>2 DEF Alone
<1> DEFINE Same == /\ exists'[path[s]] = exists[path[s]]
                   /\ fd'[s] = fd[s] /\ glb'[s] = glb[s] /\ played'[s] = played[s]
                   /\ marks'[path[s]] = marks[path[s]] /\ pc'[s] = pc[s]
<1>4. CASE Same
  BY <1>2, <1>4 DEF LogKept
<1>5. ASSUME NEW t \in Sessions, t # s, Step(t)
      PROVE  Same
  <2>1. path[t] # path[s]
    BY <1>3, <1>5
  <2>2. CASE Begin(t) \/ MkdirOk(t) \/ MkdirFails(t) \/ Cat(t) \/ RmFails(t)
    BY <1>5, <2>2 DEF Begin, MkdirOk, MkdirFails, Cat, RmFails, Fail, logVars
  <2>3. CASE PlayStarts(t) \/ ClientPlays(t) \/ PlayEnds(t) \/ PlayFails(t)
    BY <1>2, <1>5, <2>1, <2>3 DEF PlayStarts, ClientPlays, PlayEnds, PlayFails, Fail
  <2>4. CASE GrepFinds(t) \/ GrepMisses(t) \/ GrepFails(t)
    BY <1>5, <2>4 DEF GrepFinds, GrepMisses, GrepFails, TryNext, Fail, logVars
  <2>5. CASE RmOk(t)
    BY <1>2, <1>5, <2>1, <2>5 DEF RmOk
  <2> QED BY <1>5, <2>2, <2>3, <2>4, <2>5 DEF Step
<1>6. CASE PlayStarts(s)
  BY <1>2, <1>6 DEF PlayStarts, Writers, sessionVars
<1>7. CASE ClientPlays(s)
  <2>1. /\ played'[s] = played[s] \cup {glb[s]} /\ glb'[s] = glb[s] /\ pc'[s] = pc[s]
        /\ exists' = exists /\ fd' = fd
    BY <1>7 DEF ClientPlays
  <2>2. fd[s] = "open"
    BY <1>2, <1>7, <2>1 DEF LogKept, Writers, ClientPlays
  <2>3. <<s, glb[s]>> \in marks'[path[s]]
    BY <1>2, <1>7, <2>2 DEF ClientPlays
  <2>4. exists[path[s]] /\ pc[s] = pc'[s]
    BY <1>2, <2>1 DEF LogKept
  <2> QED BY <1>2, <2>1, <2>2, <2>3, <2>4
<1>8. CASE PlayEnds(s)
  BY <1>2, <1>8 DEF PlayEnds, LogKept, sessionVars
<1>9. ASSUME Begin(s) \/ MkdirOk(s) \/ MkdirFails(s) \/ PlayFails(s) \/ GrepFinds(s)
             \/ GrepMisses(s) \/ GrepFails(s) \/ Cat(s) \/ RmOk(s) \/ RmFails(s)
      PROVE  FALSE
  BY <1>1, <1>9 DEF Begin, MkdirOk, MkdirFails, PlayFails, GrepFinds, GrepMisses, GrepFails,
                    TryNext, Fail, Cat, RmOk, RmFails
<1>10. CASE UNCHANGED vars
  BY <1>4, <1>10 DEF vars
<1> QED BY <1>4, <1>5, <1>6, <1>7, <1>8, <1>9, <1>10 DEF Next, Step

-----------------------------------------------------------------------------
(* The verdict.                                                            *)

LEMMA VerdictStep == SessionInv /\ [Next]_vars =>
  SuccessBacked' /\ SuccessOwn' /\ FailureExplained' /\ GivesUpOnlyOnCommand'
<1> SUFFICES ASSUME SessionInv, [Next]_vars, NEW s \in Sessions
    PROVE  /\ verdict'[s] = "success" =>
                \E t \in Sessions : path'[t] = path'[s] /\ played'[t] # {}
           /\ verdict'[s] = "success" /\ Alone(s)' => glb'[s] \in played'[s]
           /\ verdict'[s] = "failure" /\ glb'[s] \in played'[s] /\ Alone(s)' =>
                broken'[s] # {}
           /\ verdict'[s] = "failure" /\ hot'[s] /\ glb'[s] = 1 =>
                broken'[s] \cap {"mkdir", "play"} # {}
  BY DEF SuccessBacked, SuccessOwn, FailureExplained, GivesUpOnlyOnCommand
<1> USE DEF SessionInv
<1>1. \A t \in Sessions : played[t] \subseteq played'[t] /\ broken[t] \subseteq broken'[t]
  BY DEF Next, Step, Begin, MkdirOk, MkdirFails, PlayStarts, ClientPlays, PlayEnds, PlayFails,
         GrepFinds, GrepMisses, GrepFails, Break, Cat, RmOk, RmFails, vars, logVars, TypeOK
<1>2. ASSUME NEW t \in Sessions, pc[t] # "idle" PROVE path'[t] = path[t] /\ hot'[t] = hot[t]
  BY <1>2 DEF Next, Step, Begin, MkdirOk, MkdirFails, PlayStarts, ClientPlays, PlayEnds, PlayFails,
         GrepFinds, GrepMisses, GrepFails, Cat, RmOk, RmFails, vars, sessionVars, TypeOK
<1>3. CASE verdict[s] # "none"
  <2>1. pc[s] \in {"cat", "rm", "done"}
    BY <1>3 DEF Phases
  <2>2. verdict'[s] = verdict[s] /\ glb'[s] = glb[s]
    BY <2>1 DEF Next, Step, Begin, MkdirOk, MkdirFails, PlayStarts, ClientPlays, PlayEnds,
         PlayFails, GrepFinds, GrepMisses, GrepFails, TryNext, Fail, Cat, RmOk, RmFails,
         vars, TypeOK
  <2>3. Alone(s)' => Alone(s)
    BY <2>1, AloneBefore
  <2>4. ASSUME verdict[s] = "success", NEW t \in Sessions,
               path[t] = path[s], played[t] # {}
        PROVE  path'[t] = path'[s] /\ played'[t] # {}
    BY <1>1, <1>2, <2>1, <2>4 DEF Phases
  <2>5. verdict[s] = "failure" /\ glb[s] \in played'[s] /\ Alone(s) => broken'[s] # {}
    <3>1. CASE glb[s] \in played[s]
      BY <1>1, <3>1 DEF FailureExplained
    <3>2. CASE glb[s] \notin played[s] /\ glb[s] \in played'[s]
      <4>1. ClientPlays(s)
        BY <3>2 DEF Next, Step, Begin, MkdirOk, MkdirFails, PlayStarts, ClientPlays,
             PlayEnds, PlayFails, GrepFinds, GrepMisses, GrepFails, Cat, RmOk, RmFails,
             vars, logVars, TypeOK
      <4> QED BY <1>1, <2>1, <4>1 DEF ClientPlays, Writers
    <3> QED BY <3>1, <3>2
  <2> QED BY <1>1, <1>2, <2>1, <2>2, <2>3, <2>4, <2>5
          DEF SuccessBacked, SuccessOwn, GivesUpOnlyOnCommand
<1>4. CASE verdict[s] = "none" /\ verdict'[s] # "none"
  <2>1. MkdirFails(s) \/ PlayFails(s) \/ GrepFinds(s) \/ GrepMisses(s) \/ GrepFails(s)
    BY <1>4 DEF Next, Step, Begin, MkdirOk, MkdirFails, PlayStarts, ClientPlays, PlayEnds,
         PlayFails, GrepFinds, GrepMisses, GrepFails, TryNext, Fail, Cat, RmOk, RmFails,
         vars, TypeOK
  <2>2. pc[s] # "idle" /\ path[s] \in Paths
    BY <2>1 DEF Phases, TypeOK, MkdirFails, PlayFails, GrepFinds, GrepMisses, GrepFails
  <2>3. CASE MkdirFails(s) \/ PlayFails(s)
    <3>1. verdict'[s] = "failure"
      BY <2>3 DEF MkdirFails, PlayFails, Fail, TypeOK
    <3>2. "mkdir" \in broken'[s] \/ "play" \in broken'[s]
      <4>1. broken \in [Sessions -> SUBSET Commands]
        BY DEF TypeOK
      <4> QED BY <2>3, <4>1 DEF MkdirFails, PlayFails, Break
    <3> QED BY <3>1, <3>2
  <2>4. CASE GrepFinds(s)
    <3>1. /\ verdict'[s] = "success" /\ pc[s] = "grep" /\ marks[path[s]] # {}
          /\ path' = path /\ glb' = glb /\ played' = played
      BY <2>4 DEF GrepFinds, sessionVars, logVars, TypeOK
    <3>2. PICK m \in Sessions \X Glbs : m \in marks[path[s]]
      BY <2>2, <3>1 DEF TypeOK
    <3>3. PICK t \in Sessions, a \in Glbs : <<t, a>> \in marks[path[s]]
      BY <3>2
    <3>4. path[t] = path[s] /\ a \in played[t]
      BY <2>2, <3>3 DEF MarksBacked
    <3>5. Alone(s) => t = s /\ a = glb[s]
      BY <3>1, <3>3, <3>4 DEF Alone, MarksCurrent
    <3>6. Alone(s)' => glb[s] \in played[s]
      BY <2>2, <3>4, <3>5, AloneBefore
    <3> QED BY <3>1, <3>4, <3>6
  <2>5. CASE GrepMisses(s) \/ GrepFails(s)
    <3>1. /\ verdict'[s] = "failure" /\ pc[s] = "grep" /\ ~ (hot[s] /\ glb[s] = 1)
          /\ glb' = glb /\ hot' = hot /\ played' = played
      BY <1>4, <2>5 DEF GrepMisses, GrepFails, TryNext, Fail, sessionVars, logVars, TypeOK
    <3>2. GrepFails(s) => broken'[s] # {}
      BY DEF GrepFails, Break, TypeOK
    <3>3. GrepMisses(s) /\ Alone(s) => glb[s] \notin played[s]
      BY <3>1 DEF GrepMisses, LogKept
    <3>4. Alone(s)' => Alone(s)
      BY <2>2, AloneBefore
    <3> QED BY <2>5, <3>1, <3>2, <3>3, <3>4
  <2> QED BY <2>1, <2>3, <2>4, <2>5
<1> QED BY <1>3, <1>4

-----------------------------------------------------------------------------
(* The theorems.                                                           *)

LEMMA SessionInvariant == Spec => []SessionInv
<1>1. SessionInv /\ [Next]_vars => SessionInv'
  BY TypeStep, PhasesStep, MarksStep, WritersStep, MarksCurrentStep, LogKeptStep,
     VerdictStep DEF SessionInv
<1> QED BY <1>1, SessionInit, PTL DEF Spec

\* A success reported by setupOne (l.99-102) is some session's own success, and
\* the session's own on the GLB asked last when it has its log for itself.
THEOREM SuccessIsReal == Spec => []SuccessJudged
BY SessionInvariant, PTL DEF SessionInv, SuccessJudged

\* A served session with a log of its own fails only if a command of its own
\* could not be run, and a hot session that has not asked the second GLB failed
\* at mkdir or play.
THEOREM FailureIsReal == Spec => []FailureJudged
BY SessionInvariant, PTL DEF SessionInv, FailureJudged

-----------------------------------------------------------------------------
(* Sessions over the pool.  What is proved of the pool in ClientPoolProofs    *)
(* holds of the pool of the sessions.                                        *)

PoolProofs == INSTANCE ClientPoolProofs WITH Callers <- Sessions

PoolFacts == PoolProofs!TypeOK /\ PoolProofs!Conservation /\ PoolProofs!ScanAgrees

LEMMA MachineIP == ip \in IPs /\ remoteIPs \in Seq(IPs) /\ Len(remoteIPs) = 1
BY MachineAssumption DEF ip

\* Both names of the pool mean the same.
LEMMA SamePool ==
  /\ Pool!PoolInit <=> PoolProofs!PoolInit
  /\ Pool!Next <=> PoolProofs!Next
  /\ Pool!TypeOK <=> PoolProofs!TypeOK
  /\ Pool!vars = PoolProofs!vars
<1> USE DEF Pool!Keys, PoolProofs!Keys, Pool!Indices, PoolProofs!Indices,
            Pool!clientKey, PoolProofs!clientKey, Pool!vars, PoolProofs!vars,
            Pool!initVars, PoolProofs!initVars
<1>1. Pool!PoolInit <=> PoolProofs!PoolInit
  BY DEF Pool!PoolInit, PoolProofs!PoolInit
<1>2. Pool!TypeOK <=> PoolProofs!TypeOK
  BY DEF Pool!TypeOK, PoolProofs!TypeOK
<1>3. ASSUME NEW s \in Sessions
      PROVE  /\ Pool!Release(s) <=> PoolProofs!Release(s)
             /\ \A a \in IPs : Pool!Alloc(s, a) <=> PoolProofs!Alloc(s, a)
  BY DEF Pool!Alloc, PoolProofs!Alloc, Pool!Missing, PoolProofs!Missing, Pool!ScanLoop,
         PoolProofs!ScanLoop, Pool!Load, PoolProofs!Load, Pool!Release, PoolProofs!Release
<1>4. /\ Pool!DialOk <=> PoolProofs!DialOk
      /\ Pool!DialFail <=> PoolProofs!DialFail
      /\ Pool!DialFailAgain <=> PoolProofs!DialFailAgain
      /\ Pool!InitDone <=> PoolProofs!InitDone
  BY DEF Pool!DialOk, PoolProofs!DialOk, Pool!DialFail, PoolProofs!DialFail, Pool!Dialling,
         PoolProofs!Dialling, Pool!DialFailAgain, PoolProofs!DialFailAgain, Pool!InitDone,
         PoolProofs!InitDone
<1>5. Pool!vars = PoolProofs!vars
  OBVIOUS
<1>6. Pool!Next <=> PoolProofs!Next
  BY <1>3, <1>4 DEF Pool!Next, PoolProofs!Next
<1> QED BY <1>1, <1>2, <1>5, <1>6

LEMMA PoolPremises ==
  /\ PoolProofs!RemoteIPsAssumption /\ PoolProofs!SessionCountAssumption
  /\ PoolProofs!CallersAssumption /\ PoolProofs!NoClientAssumption
<1>1. PoolProofs!RemoteIPsAssumption
  BY MachineIP DEF PoolProofs!RemoteIPsAssumption
<1>2. PoolProofs!SessionCountAssumption
  BY PoolAssumption DEF PoolProofs!SessionCountAssumption, Pool!SessionCountAssumption
<1>3. PoolProofs!CallersAssumption
  BY PoolAssumption DEF PoolProofs!CallersAssumption, Pool!CallersAssumption,
     PoolProofs!IsFiniteSet, Pool!IsFiniteSet
<1>4. PoolProofs!NoClientAssumption
  BY PoolAssumption DEF PoolProofs!NoClientAssumption, Pool!NoClientAssumption,
     Pool!Keys, PoolProofs!Keys, Pool!Indices, PoolProofs!Indices,
     Pool!clientKey, PoolProofs!clientKey
<1> QED BY <1>1, <1>2, <1>3, <1>4

\* A step of the sessions over the pool is one of a session, or of none, and one
\* of the pool, or none of it.
LEMMA PooledSteps ==
  ASSUME [PooledNext]_pooledVars
  PROVE  [Next]_vars /\ [Pool!Next]_(Pool!vars)
<1> USE DEF poolVars, Pool!vars
<1>1. CASE UNCHANGED pooledVars
  BY <1>1 DEF pooledVars
<1>2. CASE DialPool
  BY <1>2 DEF DialPool, Pool!Next
<1>3. CASE ConnectionDies
  BY <1>3 DEF ConnectionDies
<1>4. ASSUME NEW s \in Sessions, Session(s)
      PROVE  [Next]_vars /\ [Pool!Next]_(Pool!vars)
  <2>1. CASE Start(s)
    BY <2>1 DEF Start, Next, Step
  <2>2. CASE Borrow(s)
    BY <2>2, MachineIP DEF Borrow, Pool!Next
  <2>3. CASE StartPlay(s)
    BY <2>3 DEF StartPlay, Next, Step
  <2>4. CASE EndCommand(s)
    BY <2>4 DEF EndCommand, Next, Step, Pool!Next
  <2>5. CASE Play(s)
    BY <2>5 DEF Play, Next, Step
  <2> QED BY <1>4, <2>1, <2>2, <2>3, <2>4, <2>5 DEF Session
<1> QED BY <1>1, <1>2, <1>3, <1>4 DEF PooledNext

LEMMA PooledImplementsParts == PooledSpec => Spec /\ Pool!Spec
<1>1. PooledInit => Init /\ Pool!PoolInit
  BY DEF PooledInit
<1> QED BY <1>1, PooledSteps, PTL DEF PooledSpec, Spec, Pool!Spec

LEMMA PooledParts == PooledSpec => []SessionInv /\ []PoolFacts
<1>1. PooledSpec => []SessionInv
  BY PooledImplementsParts, SessionInvariant, PTL
<1>2. PooledSpec => PoolProofs!Spec
  <2>1. PooledInit => PoolProofs!PoolInit
    BY SamePool DEF PooledInit
  <2>2. [PooledNext]_pooledVars => [PoolProofs!Next]_(PoolProofs!vars)
    BY PooledSteps, SamePool DEF Pool!vars, PoolProofs!vars, Pool!initVars, PoolProofs!initVars
  <2> QED BY <2>1, <2>2, PTL DEF PooledSpec, PoolProofs!Spec
<1>3. PoolProofs!Spec => []PoolProofs!TypeOK
  BY PoolPremises, PoolProofs!PoolTypes
<1>4. PoolProofs!Spec => []PoolProofs!Conservation
  BY PoolPremises, PoolProofs!SessionsConserved
<1>5. PoolProofs!Spec => []PoolProofs!ScanAgrees
  BY PoolPremises, PoolProofs!LoopPicksFirstLeast
<1> QED BY <1>1, <1>2, <1>3, <1>4, <1>5, PTL DEF PoolFacts

\* Only a session that runs has a connection, and a dead one stays dead.
BorrowersRun ==
  /\ \A s \in Sessions : cl[s] # NoClient => Active(s)
  /\ firstDead # {} => FirstConnection \in dead

\* Whoever did not overlap with another session has the machine for itself.
AloneOnMachine == \A s \in Sessions : Active(s) /\ s \notin overlapped => Others(s) = {}

\* Such a session, if the first connection was dead when it began, has no other
\* one to its end, and is not served.
Starved ==
  \A s \in firstDead \ overlapped :
    /\ pc[s] \in {"mkdir", "cat", "done"} /\ verdict[s] # "success"
    /\ cl[s] \in {NoClient, FirstConnection}

DeadKnown == dead \subseteq Pool!Keys /\ firstDead \cup overlapped \subseteq Sessions

StarvedInv == DeadKnown /\ BorrowersRun /\ AloneOnMachine /\ Starved

\* A step of one session leaves the others where they are.
LEMMA OtherSessions ==
  ASSUME TypeOK, NEW s \in Sessions, NEW t \in Sessions, s # t,
         Step(t) \/ UNCHANGED vars
  PROVE  pc'[s] = pc[s] /\ verdict'[s] = verdict[s]
<1> USE DEF TypeOK, Goto, Fail
<1>1. CASE UNCHANGED vars
  BY <1>1 DEF vars
<1>2. CASE Begin(t) \/ MkdirOk(t) \/ MkdirFails(t) \/ PlayStarts(t) \/ ClientPlays(t)
           \/ PlayEnds(t) \/ PlayFails(t)
  BY <1>2 DEF Begin, MkdirOk, MkdirFails, PlayStarts, ClientPlays, PlayEnds, PlayFails
<1>3. CASE GrepFinds(t) \/ GrepMisses(t) \/ GrepFails(t) \/ Cat(t) \/ RmOk(t) \/ RmFails(t)
  BY <1>3 DEF GrepFinds, GrepMisses, GrepFails, TryNext, Cat, RmOk, RmFails
<1> QED BY <1>1, <1>2, <1>3 DEF Step

\* What a command of a session does to the pool.
LEMMA PoolSteps ==
  ASSUME PoolFacts, NEW t \in Sessions
  PROVE  /\ Pool!Alloc(t, ip) =>
              /\ \A s \in Sessions : s # t => cl'[s] = cl[s]
              /\ (\A s \in Sessions : cl[s] = NoClient) => cl'[t] = FirstConnection
         /\ Pool!Release(t) =>
              /\ cl[t] # NoClient /\ cl'[t] = NoClient
              /\ \A s \in Sessions : s # t => cl'[s] = cl[s]
<1>0. cl \in [Sessions -> PoolProofs!Keys \cup {NoClient}]
  BY DEF PoolFacts, PoolProofs!TypeOK
<1>1. Pool!Release(t) =>
        /\ cl[t] # NoClient /\ cl'[t] = NoClient
        /\ \A s \in Sessions : s # t => cl'[s] = cl[s]
  BY <1>0 DEF Pool!Release
<1>2. ASSUME Pool!Alloc(t, ip)
      PROVE  /\ \A s \in Sessions : s # t => cl'[s] = cl[s]
             /\ cl'[t] = Pool!clientKey(ip, Pool!ScanLoop(ip)) /\ phase = "up"
  BY <1>0, <1>2 DEF Pool!Alloc
<1>3. ASSUME Pool!Alloc(t, ip), \A s \in Sessions : cl[s] = NoClient
      PROVE  cl'[t] = FirstConnection
  <2>1. PoolProofs!IsFirstLeast(ip, PoolProofs!ScanLoop(ip))
    BY <1>2, <1>3, MachineIP DEF PoolFacts, PoolProofs!ScanAgrees
  <2>2. gMaxSessionCount \in Nat /\ gMaxSessionCount > 0
    BY PoolPremises DEF PoolProofs!SessionCountAssumption
  <2>3. \A i \in PoolProofs!Indices : PoolProofs!clientKey(ip, i) \in PoolProofs!Keys
    BY MachineIP DEF PoolProofs!Keys
  <2>4. \A k \in PoolProofs!Keys : PoolProofs!Users(k) = {}
    BY <1>3, PoolPremises DEF PoolProofs!Users, PoolProofs!NoClientAssumption
  <2>5. \A k \in PoolProofs!Keys : gClientSession[k] = PoolProofs!Cardinality({})
    BY <2>4 DEF PoolFacts, PoolProofs!Conservation
  <2>6. \A i, j \in PoolProofs!Indices : PoolProofs!Load(ip, i) = PoolProofs!Load(ip, j)
    BY <2>3, <2>5 DEF PoolProofs!Load
  <2>7. \A k \in PoolProofs!Keys : gClientSession[k] \in Nat
    BY DEF PoolFacts, PoolProofs!TypeOK
  <2>8. PoolProofs!ScanLoop(ip) = 0
    <3> DEFINE n == PoolProofs!ScanLoop(ip)
    <3>1. n \in PoolProofs!Indices
          /\ \A j \in PoolProofs!Indices :
               j < n => PoolProofs!Load(ip, n) < PoolProofs!Load(ip, j)
      BY <2>1 DEF PoolProofs!IsFirstLeast
    <3>2. 0 \in PoolProofs!Indices /\ n \in Nat
      BY <2>2, <3>1 DEF PoolProofs!Indices
    <3>3. PoolProofs!Load(ip, 0) = PoolProofs!Load(ip, n) /\ PoolProofs!Load(ip, 0) \in Nat
      BY <2>3, <2>6, <2>7, <3>1, <3>2 DEF PoolProofs!Load
    <3> HIDE DEF n
    <3>4. n = 0
      BY <3>1, <3>2, <3>3
    <3> QED BY <3>4 DEF n
  <2>9. Pool!ScanLoop(ip) = PoolProofs!ScanLoop(ip)
    BY DEF Pool!ScanLoop, PoolProofs!ScanLoop, Pool!Load, PoolProofs!Load, Pool!Indices,
           PoolProofs!Indices, Pool!clientKey, PoolProofs!clientKey
  <2> QED BY <1>2, <1>3, <2>8, <2>9 DEF FirstConnection
<1> QED BY <1>1, <1>2, <1>3

LEMMA StarvedStep ==
  ASSUME SessionInv, PoolFacts, StarvedInv, [PooledNext]_pooledVars
  PROVE  StarvedInv'
<1>0. /\ TypeOK /\ Phases /\ DeadKnown /\ BorrowersRun /\ AloneOnMachine /\ Starved
      /\ cl \in [Sessions -> PoolProofs!Keys \cup {NoClient}]
  BY DEF SessionInv, StarvedInv, PoolFacts, PoolProofs!TypeOK
<1>1. ASSUME UNCHANGED <<pc, verdict, cl, firstDead, overlapped>>, dead \subseteq dead',
             dead' \subseteq Pool!Keys
      PROVE  StarvedInv'
  BY <1>0, <1>1 DEF StarvedInv, DeadKnown, BorrowersRun, AloneOnMachine, Starved, Active, Others
<1>2. CASE UNCHANGED pooledVars
  BY <1>0, <1>1, <1>2 DEF pooledVars, vars, poolVars, DeadKnown
<1>3. CASE DialPool
  <2>1. UNCHANGED <<pc, verdict, cl, dead, firstDead, overlapped>>
    BY <1>3 DEF DialPool, vars, Pool!DialOk, Pool!DialFail, Pool!DialFailAgain, Pool!InitDone
  <2> QED BY <1>0, <1>1, <2>1 DEF DeadKnown
<1>4. CASE ConnectionDies
  <2>1. UNCHANGED <<pc, verdict, cl, firstDead, overlapped>> /\ dead \subseteq dead'
    BY <1>4 DEF ConnectionDies, vars, poolVars
  <2>2. gClientMap \subseteq Pool!Keys
    BY SamePool DEF PoolFacts, Pool!TypeOK
  <2>3. dead' \subseteq Pool!Keys
    BY <1>0, <1>4, <2>2 DEF ConnectionDies, DeadKnown
  <2> QED BY <1>1, <2>1, <2>3
<1>5. ASSUME NEW t \in Sessions, Start(t) PROVE StarvedInv'
  <2>1. /\ pc[t] = "idle" /\ pc' = [pc EXCEPT ![t] = "mkdir"]
        /\ UNCHANGED <<verdict, cl, dead>>
        /\ firstDead' = IF FirstConnection \in dead THEN firstDead \cup {t} ELSE firstDead
        /\ overlapped' = IF Others(t) = {} THEN overlapped ELSE overlapped \cup {t} \cup Others(t)
    BY <1>5 DEF Start, Begin, Goto, poolVars
  <2>2. pc'[t] = "mkdir" /\ \A s \in Sessions : s # t => pc'[s] = pc[s]
    BY <1>0, <2>1 DEF TypeOK
  <2>3. cl[t] = NoClient /\ verdict[t] = "none" /\ t \notin Others(t) /\ Others(t) \subseteq Sessions
    BY <1>0, <2>1 DEF BorrowersRun, Active, Phases, Others, TypeOK
  <2>4. DeadKnown' /\ BorrowersRun'
    BY <1>0, <2>1, <2>2, <2>3 DEF DeadKnown, BorrowersRun, Active
  <2>5. AloneOnMachine'
    <3> SUFFICES ASSUME NEW s \in Sessions, Active(s)', s \notin overlapped'
                 PROVE  Others(s)' = {}
      BY DEF AloneOnMachine
    <3>1. CASE s = t
      BY <2>1, <2>2, <3>1 DEF Others, Active
    <3>2. CASE s # t
      <4>1. Active(s) /\ s \in Others(t)
        BY <2>2, <3>2 DEF Active, Others
      <4> QED BY <2>1, <4>1
    <3> QED BY <3>1, <3>2
  <2>6. Starved'
    BY <1>0, <2>1, <2>2, <2>3 DEF Starved, DeadKnown
  <2> QED BY <2>4, <2>5, <2>6 DEF StarvedInv
<1>6. ASSUME NEW t \in Sessions, Active(t),
             Step(t) \/ UNCHANGED vars,
             UNCHANGED <<dead, firstDead, overlapped>>,
             \A s \in Sessions : s # t => cl'[s] = cl[s],
             cl'[t] # NoClient => Active(t)',
             t \in firstDead \ overlapped =>
               /\ pc'[t] \in {"mkdir", "cat", "done"} /\ verdict'[t] # "success"
               /\ cl'[t] \in {NoClient, FirstConnection}
      PROVE  StarvedInv'
  <2>1. \A s \in Sessions : s # t => pc'[s] = pc[s] /\ verdict'[s] = verdict[s]
    BY <1>0, <1>6, OtherSessions
  <2>2. \A s \in Sessions : Active(s)' => Active(s)
    BY <1>6, <2>1 DEF Active
  <2>3. \A s \in Sessions : Others(s)' \subseteq Others(s)
    BY <2>2 DEF Others
  <2>4. DeadKnown' /\ BorrowersRun'
    BY <1>0, <1>6, <2>1 DEF DeadKnown, BorrowersRun, Active
  <2>5. AloneOnMachine'
    BY <1>0, <1>6, <2>2, <2>3 DEF AloneOnMachine
  <2>6. Starved'
    BY <1>0, <1>6, <2>1 DEF Starved, DeadKnown
  <2> QED BY <2>4, <2>5, <2>6 DEF StarvedInv
<1>7. ASSUME NEW t \in Sessions, Borrow(t) PROVE StarvedInv'
  <2>1. /\ pc[t] \in {"mkdir", "play", "grep", "cat", "rm"} /\ Pool!Alloc(t, ip)
        /\ UNCHANGED vars /\ UNCHANGED <<dead, firstDead, overlapped>>
    BY <1>7 DEF Borrow
  <2>2. Active(t) /\ pc' = pc /\ verdict' = verdict
    BY <2>1 DEF Active, vars
  <2>3. cl[t] = NoClient
    BY <2>1 DEF Pool!Alloc
  <2>4. t \notin overlapped => \A s \in Sessions : cl[s] = NoClient
    <3>1. t \notin overlapped => Others(t) = {}
      BY <1>0, <2>2 DEF AloneOnMachine
    <3> QED BY <1>0, <2>3, <3>1 DEF BorrowersRun, Others
  <2>5. t \notin overlapped => cl'[t] = FirstConnection
    BY <2>1, <2>4, PoolSteps
  <2>6. \A s \in Sessions : s # t => cl'[s] = cl[s]
    BY <2>1, PoolSteps
  <2>7. t \in firstDead \ overlapped => pc[t] \in {"mkdir", "cat", "done"} /\ verdict[t] # "success"
    BY <1>0 DEF Starved
  <2>8. Active(t)'
    BY <2>2 DEF Active
  <2> QED BY <1>6, <2>1, <2>2, <2>5, <2>6, <2>7, <2>8
<1>8. ASSUME NEW t \in Sessions, StartPlay(t) PROVE StarvedInv'
  <2>1. /\ pc[t] = "play" /\ pc'[t] = "playing" /\ PlayStarts(t)
        /\ UNCHANGED <<cl, dead, firstDead, overlapped>>
    BY <1>0, <1>8 DEF StartPlay, PlayStarts, Goto, TypeOK, poolVars
  <2>2. t \notin firstDead \ overlapped
    BY <1>0, <2>1 DEF Starved
  <2> QED BY <1>6, <2>1, <2>2 DEF Active, Step
<1>9. ASSUME NEW t \in Sessions, EndCommand(t) PROVE StarvedInv'
  <2>1. /\ Pool!Release(t) /\ UNCHANGED <<dead, firstDead, overlapped>>
        /\ \/ Works(t) /\ (MkdirOk(t) \/ PlayEnds(t) \/ GrepFinds(t) \/ GrepMisses(t) \/ RmOk(t))
           \/ MkdirFails(t) \/ PlayFails(t) \/ GrepFails(t) \/ Cat(t) \/ RmFails(t)
    BY <1>9 DEF EndCommand
  <2>2. /\ cl[t] # NoClient /\ cl'[t] = NoClient
        /\ \A s \in Sessions : s # t => cl'[s] = cl[s]
    BY <2>1, PoolSteps
  <2>3. Active(t)
    BY <1>0, <2>2 DEF BorrowersRun
  <2>4. Step(t)
    BY <2>1 DEF Step
  <2>5. ASSUME t \in firstDead \ overlapped
        PROVE  pc'[t] \in {"mkdir", "cat", "done"} /\ verdict'[t] # "success"
    <3>1. ~Works(t) /\ pc[t] \in {"mkdir", "cat", "done"} /\ verdict[t] # "success"
      BY <1>0, <2>2, <2>5 DEF Starved, BorrowersRun, Works
    <3>2. MkdirFails(t) \/ Cat(t)
      BY <2>1, <3>1 DEF PlayFails, GrepFails, RmFails
    <3> QED BY <1>0, <3>1, <3>2 DEF MkdirFails, Cat, Fail, Goto, TypeOK
  <2> QED BY <1>6, <2>1, <2>2, <2>3, <2>4, <2>5
<1>10. ASSUME NEW t \in Sessions, Play(t) PROVE StarvedInv'
  <2>1. UNCHANGED <<pc, verdict, cl, dead, firstDead, overlapped>>
    BY <1>10 DEF Play, ClientPlays, poolVars
  <2> QED BY <1>0, <1>1, <2>1 DEF DeadKnown
<1> QED BY <1>2, <1>3, <1>4, <1>5, <1>7, <1>8, <1>9, <1>10 DEF PooledNext, Session

\* One dead connection is enough: sessions that do not overlap always get the
\* first one (l.52-63), and when that is dead none of them is served.
THEOREM DeadConnectionStarves == PooledSpec => []FirstDeadStarves
<1>1. PooledInit => StarvedInv
  BY DEF PooledInit, Init, Pool!PoolInit, StarvedInv, DeadKnown, BorrowersRun, AloneOnMachine,
         Starved, Active
<1>2. SessionInv /\ PoolFacts /\ StarvedInv /\ [PooledNext]_pooledVars => StarvedInv'
  BY StarvedStep
<1>3. SessionInv /\ PoolFacts /\ StarvedInv => FirstDeadStarves
  BY SamePool DEF SessionInv, PoolFacts, StarvedInv, DeadKnown, Starved, FirstDeadStarves, PooledTypeOK
<1> QED BY <1>1, <1>2, <1>3, PooledParts, PTL DEF PooledSpec

-----------------------------------------------------------------------------
(* Deleters, several at a time, that judge by logs they may share.          *)

Deleting(d) == del[d].pc # "idle"
Apart(d) == Deleting(d) /\ ~del[d].shared

\* Whoever does not know of another client on its log is alone with it.
LogsApart ==
  \A d \in Deleters : Apart(d) =>
    /\ \A e \in Deleters : e # d /\ Deleting(e) => del[e].at # del[d].at
    /\ \A s \in stray : s[2] # del[d].at

\* Such a log says what its client did.
LogSpeaks(d) ==
  Apart(d) =>
    /\ del[d].pc = "client" => log[del[d].at] = ""
    /\ del[d].pc = "tail" /\ log[del[d].at] = "success" => stored[del[d].file] = {}
    /\ del[d].pc = "tail" /\ log[del[d].at] # "success" => del[d].file \in excused

\* A node that acknowledged does not get the content back, the row of a content
\* that is not gone is deleted on a shared log only, and a row does not return.
NothingReturns(d) ==
  /\ del[d].pc = "client" => del[d].acks \cap stored[del[d].file] = {}
  /\ del[d].pc = "row" /\ stored[del[d].file] # {} => del[d].shared
  /\ del[d].pc = "rmlog" => rows[del[d].file] = "absent"

\* Whose client was lost has an excuse.
StraysExcused == \A s \in stray : s[1] \in excused

DeleteInv ==
  /\ DelTypeOK /\ LogsApart /\ StraysExcused /\ LeftoverExplained
  /\ \A d \in Deleters : LogSpeaks(d) /\ NothingReturns(d)

LEMMA DelTyped ==
  ASSUME DelTypeOK
  PROVE  /\ rows \in [Files -> {"absent", "hot", "cold"}]
         /\ stored \in [Files -> SUBSET Nodes]
         /\ log \in [Seconds -> {"none", "", "success", "other"}]
         /\ stray \subseteq Files \X Seconds
         /\ excused \subseteq Files
         /\ now \in Seconds
         /\ \A d \in Deleters :
              /\ del[d] \in [pc : {"idle", "client", "tail", "row", "rmlog"}, file : Files,
                             at : Seconds, acks : SUBSET Nodes, shared : BOOLEAN]
              /\ del[d].file \in Files /\ del[d].at \in Seconds
              /\ del[d].acks \subseteq Nodes /\ del[d].shared \in BOOLEAN
BY DEF DelTypeOK

LEMMA DelTypeStep ==
  ASSUME DelTypeOK, [DelNext]_delVars
  PROVE  DelTypeOK'
<1> DEFINE Rec == [pc : {"idle", "client", "tail", "row", "rmlog"}, file : Files,
                   at : Seconds, acks : SUBSET Nodes, shared : BOOLEAN]
<1>0. /\ del \in [Deleters -> Rec] /\ now \in Seconds
      /\ stored \in [Files -> SUBSET Nodes]
      /\ rows \in [Files -> {"absent", "hot", "cold"}] /\ rows[Unknown] = "absent"
      /\ log \in [Seconds -> {"none", "", "success", "other"}]
      /\ stray \subseteq Files \X Seconds
      /\ breaks \in 0 .. MaxBreaks /\ excused \subseteq Files
  BY DEF DelTypeOK
<1>i. Idle \in Rec /\ Unknown \in Files
  BY BoundsAssumption DEF Idle, Files, Seconds
<1>p. \A d \in Deleters, l \in {"tail", "row", "rmlog"} :
        [del EXCEPT ![d].pc = l] \in [Deleters -> Rec]
  <2>1. \A q \in Rec, l \in {"tail", "row", "rmlog"} : [q EXCEPT !.pc = l] \in Rec
    OBVIOUS
  <2> HIDE DEF Rec
  <2> QED BY <1>0, <2>1
<1>1. CASE UNCHANGED delVars
  BY <1>1 DEF delVars, DelTypeOK
<1>2. ASSUME NEW d \in Deleters, StartClient(d) PROVE DelTypeOK'
  <2>1. Chosen(d) \subseteq Files
    BY <1>i DEF Chosen, Files
  <2>2. LogTaken(d) \in BOOLEAN /\ \A e \in Deleters : UsesLog(e) \in BOOLEAN
    BY DEF LogTaken, UsesLog
  <2>3. PICK f \in Chosen(d) :
          del' = [e \in Deleters |->
                    IF e = d THEN [pc |-> "client", file |-> f, at |-> now, acks |-> {},
                                   shared |-> LogTaken(d)]
                    ELSE [del[e] EXCEPT !.shared = @ \/ UsesLog(e)]]
    BY <1>2 DEF StartClient
  <2>4. [pc |-> "client", file |-> f, at |-> now, acks |-> {}, shared |-> LogTaken(d)] \in Rec
    BY <1>0, <2>1, <2>2
  <2>5. \A e \in Deleters : [del[e] EXCEPT !.shared = @ \/ UsesLog(e)] \in Rec
    <3> SUFFICES ASSUME NEW e \in Deleters
                 PROVE  [del[e] EXCEPT !.shared = @ \/ UsesLog(e)] \in Rec
      OBVIOUS
    <3>1. \A q \in Rec, b \in BOOLEAN : [q EXCEPT !.shared = b] \in Rec
      OBVIOUS
    <3>2. del[e] \in Rec /\ (del[e].shared \/ UsesLog(e)) \in BOOLEAN
      BY <1>0
    <3> HIDE DEF Rec
    <3> QED BY <3>1, <3>2
  <2> HIDE DEF Rec
  <2>6. del' \in [Deleters -> Rec]
    BY <2>3, <2>4, <2>5
  <2>7. log' \in [Seconds -> {"none", "", "success", "other"}]
    BY <1>0, <1>2 DEF StartClient
  <2> QED BY <1>0, <1>2, <2>6, <2>7 DEF StartClient, DelTypeOK, Rec
<1>3. ASSUME NEW d \in Deleters, ClientDeletes(d) PROVE DelTypeOK'
  <2>1. PICK n \in Nodes : /\ stored' = [stored EXCEPT ![del[d].file] = @ \ {n}]
                           /\ del' = [del EXCEPT ![d].acks = @ \cup {n}]
    BY <1>3 DEF ClientDeletes
  <2>2. del' \in [Deleters -> Rec]
    <3>1. \A q \in Rec : [q EXCEPT !.acks = @ \cup {n}] \in Rec
      OBVIOUS
    <3> HIDE DEF Rec
    <3> QED BY <1>0, <2>1, <3>1
  <2>3. stored' \in [Files -> SUBSET Nodes]
    BY <1>0, <2>1
  <2> QED BY <1>0, <1>3, <2>2, <2>3 DEF ClientDeletes, DelTypeOK
<1>g. ASSUME NEW d \in Deleters PROVE del[d].file \in Files /\ del[d].at \in Seconds
  BY <1>0
<1>w. ASSUME NEW t \in Seconds, NEW line \in {"none", "", "success", "other"},
             WriteLog(t, line)
      PROVE  log' \in [Seconds -> {"none", "", "success", "other"}]
  BY <1>0, <1>w DEF WriteLog
<1>4. ASSUME NEW d \in Deleters, ClientEnds(d) PROVE DelTypeOK'
  <2>1. log' \in [Seconds -> {"none", "", "success", "other"}]
    BY <1>4, <1>g, <1>w DEF ClientEnds
  <2>2. del' \in [Deleters -> Rec] /\ excused' \subseteq Files
    <3>1. del' = [del EXCEPT ![d].pc = "tail"]
      BY <1>4 DEF ClientEnds, DelGoto
    <3>2. excused' \subseteq Files
      BY <1>0, <1>4, <1>g DEF ClientEnds, Excuse
    <3> HIDE DEF Rec
    <3> QED BY <1>p, <3>1, <3>2
  <2> QED BY <1>0, <1>4, <2>1, <2>2 DEF ClientEnds, DelTypeOK
<1>5. ASSUME NEW d \in Deleters, ClientLost(d) PROVE DelTypeOK'
  <2>1. del' \in [Deleters -> Rec] /\ excused' \subseteq Files
    <3>1. del' = [del EXCEPT ![d] = Idle]
      BY <1>5 DEF ClientLost, Finish
    <3>2. excused' \subseteq Files
      BY <1>0, <1>5, <1>g DEF ClientLost, Excuse
    <3> HIDE DEF Rec
    <3> QED BY <1>0, <1>i, <3>1, <3>2
  <2>2. stray' \subseteq Files \X Seconds
    <3>1. stray' = stray \cup {<<del[d].file, del[d].at>>}
      BY <1>5 DEF ClientLost
    <3>2. <<del[d].file, del[d].at>> \in Files \X Seconds
      BY <1>g
    <3> QED BY <1>0, <3>1, <3>2
  <2>3. breaks' \in 0 .. MaxBreaks
    <3>1. breaks < MaxBreaks /\ breaks' = breaks + 1
      BY <1>5 DEF ClientLost
    <3>2. MaxBreaks \in Nat /\ breaks \in Nat
      <4>1. MaxBreaks \in Nat
        BY BoundsAssumption
      <4>2. breaks \in 0 .. MaxBreaks
        BY <1>0
      <4> QED BY <4>1, <4>2
    <3> QED BY <3>1, <3>2
  <2> QED BY <1>0, <1>5, <2>1, <2>2, <2>3 DEF ClientLost, DelTypeOK
<1>6. ASSUME NEW d \in Deleters, TailSaysSuccess(d) PROVE DelTypeOK'
  <2>1. del' \in [Deleters -> Rec]
    <3>1. del' = [del EXCEPT ![d].pc = "row"]
      BY <1>6 DEF TailSaysSuccess, DelGoto
    <3> HIDE DEF Rec
    <3> QED BY <1>p, <3>1
  <2> QED BY <1>0, <1>6, <2>1 DEF TailSaysSuccess, DelTypeOK
<1>7. ASSUME NEW d \in Deleters, TailSaysOther(d) \/ CommandFails(d) PROVE DelTypeOK'
  <2>1. del' \in [Deleters -> Rec] /\ excused' \subseteq Files
    <3>1. del' = [del EXCEPT ![d] = Idle]
      BY <1>7 DEF TailSaysOther, CommandFails, Finish
    <3>2. excused' \subseteq Files
      BY <1>0, <1>7, <1>g DEF TailSaysOther, CommandFails, Excuse
    <3> HIDE DEF Rec
    <3> QED BY <1>0, <1>i, <3>1, <3>2
  <2> QED BY <1>0, <1>7, <2>1 DEF TailSaysOther, CommandFails, DelTypeOK
<1>8. ASSUME NEW d \in Deleters, DeleteRow(d) PROVE DelTypeOK'
  <2>1. del' \in [Deleters -> Rec]
    <3>1. del' = [del EXCEPT ![d].pc = "rmlog"]
      BY <1>8 DEF DeleteRow, DelGoto
    <3> HIDE DEF Rec
    <3> QED BY <1>p, <3>1
  <2>2. rows' \in [Files -> {"absent", "hot", "cold"}] /\ rows'[Unknown] = "absent"
    BY <1>0, <1>i, <1>8 DEF DeleteRow
  <2> QED BY <1>0, <1>8, <2>1, <2>2 DEF DeleteRow, DelTypeOK
<1>9. ASSUME NEW d \in Deleters, RemoveLog(d) PROVE DelTypeOK'
  <2>1. del' \in [Deleters -> Rec]
    <3>1. del' = [del EXCEPT ![d] = Idle]
      BY <1>9 DEF RemoveLog, Finish
    <3> HIDE DEF Rec
    <3> QED BY <1>0, <1>i, <3>1
  <2>2. log' \in [Seconds -> {"none", "", "success", "other"}]
    BY <1>0, <1>9, <1>g DEF RemoveLog
  <2> QED BY <1>0, <1>9, <2>1, <2>2 DEF RemoveLog, DelTypeOK
<1>10. CASE StrayDeletes
  <2>1. stored' \in [Files -> SUBSET Nodes]
    <3>1. PICK s \in stray, n \in Nodes : stored' = [stored EXCEPT ![s[1]] = @ \ {n}]
      BY <1>10 DEF StrayDeletes
    <3> QED BY <1>0, <3>1
  <2> QED BY <1>0, <1>10, <2>1 DEF StrayDeletes, DelTypeOK
<1>11. CASE StrayEnds
  <2>1. PICK s \in stray : /\ stray' = stray \ {s}
                           /\ WriteLog(s[2], "success") \/ WriteLog(s[2], "other")
    BY <1>11 DEF StrayEnds
  <2>2. s[2] \in Seconds
    BY <1>0
  <2>3. log' \in [Seconds -> {"none", "", "success", "other"}]
    BY <1>w, <2>1, <2>2
  <2> QED BY <1>0, <1>11, <2>1, <2>3 DEF StrayEnds, DelTypeOK
<1>12. CASE updateDB
  <2>1. rows' \in [Files -> {"absent", "hot", "cold"}] /\ rows'[Unknown] = "absent"
    BY <1>0, <1>i, <1>12 DEF updateDB
  <2> QED BY <1>0, <1>12, <2>1 DEF updateDB, DelTypeOK
<1>13. CASE Tick
  <2>1. now' \in Seconds
    <3>1. now < MaxNow /\ now' = now + 1
      BY <1>13 DEF Tick
    <3>2. MaxNow \in Nat /\ now \in Nat
      <4>1. MaxNow \in Nat
        BY BoundsAssumption
      <4>2. now \in 0 .. MaxNow
        BY <1>0 DEF Seconds
      <4> QED BY <4>1, <4>2
    <3> QED BY <3>1, <3>2 DEF Seconds
  <2> QED BY <1>0, <1>13, <2>1 DEF Tick, DelTypeOK
<1> QED BY <1>1, <1>2, <1>3, <1>4, <1>5, <1>6, <1>7, <1>8, <1>9, <1>10, <1>11, <1>12, <1>13
        DEF DelNext, Delete

\* A deletion goes on: all that the others need to know of the step.
Work(d) ==
  \/ ClientDeletes(d) \/ ClientEnds(d) \/ ClientLost(d) \/ TailSaysSuccess(d)
  \/ TailSaysOther(d) \/ DeleteRow(d) \/ CommandFails(d) \/ RemoveLog(d)

Shrinks ==
  /\ excused \subseteq excused'
  /\ \A f \in Files : stored'[f] \subseteq stored[f]
  /\ \A f \in Files : rows[f] = "absent" => rows'[f] = "absent"

WorkSeen(d) ==
  /\ Deleting(d) /\ Shrinks
  /\ \A e \in Deleters : e # d => del'[e] = del[e]
  /\ \/ del'[d].pc = "idle"
     \/ /\ del'[d].file = del[d].file /\ del'[d].at = del[d].at /\ del'[d].shared = del[d].shared
        /\ del'[d].pc # "idle"
  /\ \/ stray' = stray
     \/ /\ stray' = stray \cup {<<del[d].file, del[d].at>>}
        /\ del'[d].pc = "idle" /\ del[d].file \in excused'
  /\ \A t \in Seconds : t # del[d].at => log'[t] = log[t]

\* A node acknowledges, and nothing else of the deletion changes.
LEMMA AckOnly ==
  ASSUME DelTypeOK, NEW d \in Deleters, ClientDeletes(d)
  PROVE  /\ \A e \in Deleters : e # d => del'[e] = del[e]
         /\ \E n \in Nodes :
              /\ del'[d].acks = del[d].acks \cup {n}
              /\ stored'[del[d].file] = stored[del[d].file] \ {n}
              /\ \A f \in Files : f # del[d].file => stored'[f] = stored[f]
         /\ del[d].pc = "client" /\ del'[d].pc = "client"
         /\ del'[d].file = del[d].file /\ del'[d].at = del[d].at
         /\ del'[d].shared = del[d].shared
         /\ UNCHANGED <<now, rows, log, stray, breaks, excused>>
<1>1. PICK n \in Nodes : /\ stored' = [stored EXCEPT ![del[d].file] = @ \ {n}]
                         /\ del' = [del EXCEPT ![d].acks = @ \cup {n}]
  BY DEF ClientDeletes
<1>2. del[d].pc = "client" /\ UNCHANGED <<now, rows, log, stray, breaks, excused>>
  BY DEF ClientDeletes
<1>3. /\ del \in [Deleters -> [pc : {"idle", "client", "tail", "row", "rmlog"}, file : Files,
                   at : Seconds, acks : SUBSET Nodes, shared : BOOLEAN]]
      /\ stored \in [Files -> SUBSET Nodes] /\ del[d].file \in Files
  BY DEF DelTypeOK
<1>4. del[d] \in [pc : {"idle", "client", "tail", "row", "rmlog"}, file : Files,
                   at : Seconds, acks : SUBSET Nodes, shared : BOOLEAN]
  BY <1>3
<1>5. /\ \A e \in Deleters : e # d => del'[e] = del[e]
      /\ del'[d] = [del[d] EXCEPT !.acks = del[d].acks \cup {n}]
  BY <1>1, <1>3
<1>6. /\ del'[d].acks = del[d].acks \cup {n} /\ del'[d].pc = del[d].pc
      /\ del'[d].file = del[d].file /\ del'[d].at = del[d].at
      /\ del'[d].shared = del[d].shared
  BY <1>4, <1>5
<1>7. /\ stored'[del[d].file] = stored[del[d].file] \ {n}
      /\ \A f \in Files : f # del[d].file => stored'[f] = stored[f]
  BY <1>1, <1>3
<1> QED BY <1>2, <1>5, <1>6, <1>7

LEMMA WorkIsSeen ==
  ASSUME DelTypeOK, NEW d \in Deleters, Work(d)
  PROVE  WorkSeen(d)
<1>0. /\ del \in [Deleters -> [pc : {"idle", "client", "tail", "row", "rmlog"}, file : Files,
                   at : Seconds, acks : SUBSET Nodes, shared : BOOLEAN]]
      /\ stored \in [Files -> SUBSET Nodes]
      /\ rows \in [Files -> {"absent", "hot", "cold"}]
      /\ log \in [Seconds -> {"none", "", "success", "other"}]
      /\ excused \subseteq Files
  BY DEF DelTypeOK
<1>1. CASE ClientDeletes(d)
  <2>1. \A f \in Files : stored'[f] \subseteq stored[f]
    BY <1>1, AckOnly
  <2> QED BY <1>1, <2>1, AckOnly DEF WorkSeen, Deleting, Shrinks
<1>2. CASE ClientEnds(d)
  <2>1. /\ del[d].pc = "client" /\ del' = [del EXCEPT ![d].pc = "tail"]
        /\ UNCHANGED <<now, rows, stored, stray, breaks>>
        /\ excused \subseteq excused'
    BY <1>2 DEF ClientEnds, DelGoto, Excuse
  <2>2. \A t \in Seconds : t # del[d].at => log'[t] = log[t]
    BY <1>0, <1>2 DEF ClientEnds, WriteLog
  <2> QED BY <1>0, <2>1, <2>2 DEF WorkSeen, Deleting, Shrinks
<1>3. CASE ClientLost(d)
  BY <1>0, <1>3 DEF ClientLost, Finish, Excuse, Idle, WorkSeen, Deleting, Shrinks
<1>4. CASE TailSaysSuccess(d)
  BY <1>0, <1>4 DEF TailSaysSuccess, DelGoto, WorkSeen, Deleting, Shrinks
<1>5. CASE TailSaysOther(d)
  BY <1>0, <1>5 DEF TailSaysOther, Finish, Excuse, Idle, WorkSeen, Deleting, Shrinks
<1>6. CASE DeleteRow(d)
  BY <1>0, <1>6 DEF DeleteRow, DelGoto, WorkSeen, Deleting, Shrinks
<1>7. CASE CommandFails(d)
  BY <1>0, <1>7 DEF CommandFails, Finish, Excuse, Idle, WorkSeen, Deleting, Shrinks
<1>8. CASE RemoveLog(d)
  BY <1>0, <1>8 DEF RemoveLog, Finish, Idle, WorkSeen, Deleting, Shrinks
<1> QED BY <1>1, <1>2, <1>3, <1>4, <1>5, <1>6, <1>7, <1>8 DEF Work

\* Whoever does not take the step keeps what holds of it, if its log was left
\* alone.
LEMMA Bystander ==
  ASSUME DelTypeOK, Shrinks, NEW e \in Deleters, LogSpeaks(e), NothingReturns(e),
         del'[e].pc = del[e].pc, del'[e].file = del[e].file, del'[e].at = del[e].at,
         del'[e].acks = del[e].acks, del[e].shared => del'[e].shared,
         Apart(e) /\ ~del'[e].shared => log'[del[e].at] = log[del[e].at]
  PROVE  LogSpeaks(e)' /\ NothingReturns(e)'
<1>0. /\ del[e].file \in Files
      /\ stored'[del[e].file] \subseteq stored[del[e].file]
      /\ rows[del[e].file] = "absent" => rows'[del[e].file] = "absent"
      /\ excused \subseteq excused'
  BY DEF DelTypeOK, Shrinks
<1>1. Apart(e)' => Apart(e) /\ ~del'[e].shared
  BY DEF Apart, Deleting
<1>2. LogSpeaks(e)'
  BY <1>0, <1>1 DEF LogSpeaks
<1>3. NothingReturns(e)'
  BY <1>0 DEF NothingReturns
<1> QED BY <1>2, <1>3

LEMMA WorkerItself ==
  ASSUME DelTypeOK, NEW d \in Deleters, Work(d), LogSpeaks(d), NothingReturns(d)
  PROVE  /\ LogSpeaks(d)' /\ NothingReturns(d)'
         /\ del'[d].pc = "idle" =>
              del[d].file \in excused' \/ rows'[del[d].file] = "absent"
<1>0. /\ del \in [Deleters -> [pc : {"idle", "client", "tail", "row", "rmlog"}, file : Files,
                   at : Seconds, acks : SUBSET Nodes, shared : BOOLEAN]]
      /\ stored \in [Files -> SUBSET Nodes]
      /\ rows \in [Files -> {"absent", "hot", "cold"}]
      /\ log \in [Seconds -> {"none", "", "success", "other"}]
      /\ del[d].file \in Files /\ del[d].at \in Seconds
  BY DEF DelTypeOK
<1>d. ASSUME del'[d].pc = "idle" PROVE LogSpeaks(d)' /\ NothingReturns(d)'
  BY <1>d DEF LogSpeaks, NothingReturns, Apart, Deleting
<1>1. CASE ClientDeletes(d)
  <2> QED BY <1>1, AckOnly DEF LogSpeaks, NothingReturns, Apart, Deleting
<1>2. CASE ClientEnds(d)
  <2>1. /\ del[d].pc = "client" /\ stored' = stored
        /\ del'[d].pc = "tail" /\ del'[d].file = del[d].file /\ del'[d].at = del[d].at
        /\ del'[d].shared = del[d].shared
    BY <1>0, <1>2 DEF ClientEnds, DelGoto
  <2>2. ASSUME ~del[d].shared
        PROVE  \/ log'[del[d].at] = "success" /\ del[d].acks = Nodes
               \/ log'[del[d].at] = "other" /\ del[d].file \in excused'
    <3>1. log[del[d].at] = ""
      BY <2>1, <2>2 DEF LogSpeaks, Apart, Deleting
    <3> QED BY <1>0, <1>2, <3>1 DEF ClientEnds, WriteLog, Excuse
  <2>3. del[d].acks = Nodes => stored[del[d].file] = {}
    BY <1>0, <2>1 DEF NothingReturns
  <2> QED BY <2>1, <2>2, <2>3 DEF LogSpeaks, NothingReturns, Apart, Deleting
<1>3. CASE ClientLost(d) \/ CommandFails(d)
  <2>1. del'[d].pc = "idle" /\ del[d].file \in excused'
    <3>1. del' = [del EXCEPT ![d] = Idle] /\ excused' = excused \cup {del[d].file}
      BY <1>3 DEF ClientLost, CommandFails, Finish, Excuse
    <3> QED BY <1>0, <3>1 DEF Idle
  <2> QED BY <1>d, <2>1
<1>4. CASE TailSaysSuccess(d)
  <2>1. /\ del[d].pc = "tail" /\ log[del[d].at] = "success" /\ stored' = stored
        /\ del'[d].pc = "row" /\ del'[d].file = del[d].file /\ del'[d].shared = del[d].shared
    BY <1>0, <1>4 DEF TailSaysSuccess, DelGoto
  <2>2. ~del[d].shared => stored[del[d].file] = {}
    BY <2>1 DEF LogSpeaks, Apart, Deleting
  <2> QED BY <2>1, <2>2 DEF LogSpeaks, NothingReturns, Apart, Deleting
<1>5. CASE TailSaysOther(d)
  <2>1. /\ del[d].pc = "tail" /\ log[del[d].at] # "success" /\ del'[d].pc = "idle"
        /\ IF del[d].shared THEN del[d].file \in excused' ELSE excused' = excused
    BY <1>0, <1>5 DEF TailSaysOther, Finish, Excuse, Idle
  <2>2. del[d].file \in excused'
    BY <2>1 DEF LogSpeaks, Apart, Deleting
  <2> QED BY <1>d, <2>1, <2>2
<1>6. CASE DeleteRow(d)
  <2>1. del'[d].pc = "rmlog" /\ del'[d].file = del[d].file /\ rows'[del[d].file] = "absent"
    BY <1>0, <1>6 DEF DeleteRow, DelGoto
  <2> QED BY <2>1 DEF LogSpeaks, NothingReturns, Apart, Deleting
<1>7. CASE RemoveLog(d)
  <2>1. del[d].pc = "rmlog" /\ del'[d].pc = "idle" /\ rows' = rows
    BY <1>0, <1>7 DEF RemoveLog, Finish, Idle
  <2> QED BY <1>d, <2>1 DEF NothingReturns
<1> QED BY <1>1, <1>2, <1>3, <1>4, <1>5, <1>6, <1>7 DEF Work

LEMMA DelWorkStep ==
  ASSUME DeleteInv, DelTypeOK', NEW d \in Deleters, Work(d)
  PROVE  DeleteInv'
<1>0. WorkSeen(d) /\ DelTypeOK
  BY WorkIsSeen DEF DeleteInv
<1>t. \A e \in Deleters : del[e].at \in Seconds /\ del[e].file \in Files
  BY <1>0, DelTyped
<1>1. LogsApart'
  <2> SUFFICES ASSUME NEW a \in Deleters, Apart(a)'
               PROVE  /\ \A e \in Deleters : e # a /\ Deleting(e)' => del'[e].at # del'[a].at
                      /\ \A s \in stray' : s[2] # del'[a].at
    BY DEF LogsApart
  <2>1. \A e \in Deleters : Deleting(e)' =>
          Deleting(e) /\ del'[e].at = del[e].at /\ del'[e].shared = del[e].shared
    BY <1>0 DEF WorkSeen, Deleting
  <2>2. Apart(a) /\ del'[a].at = del[a].at
    BY <2>1 DEF Apart
  <2>3. /\ \A e \in Deleters : e # a /\ Deleting(e) => del[e].at # del[a].at
        /\ \A s \in stray : s[2] # del[a].at
    BY <2>2 DEF DeleteInv, LogsApart
  <2>4. \A s \in stray' : s[2] # del[a].at
    <3>1. CASE stray' = stray
      BY <2>3, <3>1
    <3>2. CASE stray' = stray \cup {<<del[d].file, del[d].at>>} /\ del'[d].pc = "idle"
      <4>1. a # d
        BY <3>2 DEF Apart, Deleting
      <4>2. del[d].at # del[a].at
        BY <1>0, <2>3, <4>1 DEF WorkSeen
      <4> QED BY <2>3, <3>2, <4>2
    <3> QED BY <1>0, <3>1, <3>2 DEF WorkSeen
  <2> QED BY <2>1, <2>2, <2>3, <2>4
<1>2. StraysExcused'
  <2>1. \A s \in stray : s[1] \in excused'
    BY <1>0 DEF DeleteInv, StraysExcused, WorkSeen, Shrinks
  <2> QED BY <1>0, <2>1 DEF StraysExcused, WorkSeen
<1>3. ASSUME NEW e \in Deleters PROVE LogSpeaks(e)' /\ NothingReturns(e)'
  <2>1. CASE e = d
    BY <1>0, <2>1, WorkerItself DEF DeleteInv
  <2>2. CASE e # d
    <3>1. del'[e] = del[e] /\ Shrinks
      BY <1>0, <2>2 DEF WorkSeen
    <3>2. Apart(e) => log'[del[e].at] = log[del[e].at]
      <4>1. Apart(e) => del[d].at # del[e].at
        BY <1>0, <2>2 DEF DeleteInv, LogsApart, WorkSeen
      <4> QED BY <1>0, <1>t, <4>1 DEF WorkSeen
    <3> QED BY <1>0, <3>1, <3>2, Bystander DEF DeleteInv
  <2> QED BY <2>1, <2>2
<1>4. LeftoverExplained'
  <2> SUFFICES ASSUME NEW f \in Contents, rows'[f] # "absent", stored'[f] = {}, f \notin excused'
               PROVE  \E e \in Deleters : del'[e].pc # "idle" /\ del'[e].file = f
    BY DEF LeftoverExplained
  <2>0. f \in Files /\ rows[f] # "absent" /\ f \notin excused
    BY <1>0 DEF WorkSeen, Shrinks, Files
  <2>1. CASE stored[f] = {}
    <3>1. PICK e \in Deleters : del[e].pc # "idle" /\ del[e].file = f
      BY <2>0, <2>1 DEF DeleteInv, LeftoverExplained
    <3>2. CASE e = d
      BY <1>0, <3>1, <3>2, WorkerItself DEF DeleteInv, WorkSeen
    <3>3. CASE e # d
      BY <1>0, <3>1, <3>3 DEF WorkSeen
    <3> QED BY <3>2, <3>3
  <2>2. CASE stored[f] # {}
    <3>1. ClientDeletes(d)
      BY <2>2 DEF Work, ClientEnds, ClientLost, TailSaysSuccess, TailSaysOther,
                  DeleteRow, CommandFails, RemoveLog
    <3>2. f = del[d].file
      BY <1>0, <2>0, <2>2, <3>1, AckOnly
    <3> QED BY <1>0, <3>1, <3>2, AckOnly
  <2> QED BY <2>1, <2>2
<1> QED BY <1>1, <1>2, <1>3, <1>4 DEF DeleteInv

LEMMA DelStartStep ==
  ASSUME DeleteInv, DelTypeOK', NEW d \in Deleters, StartClient(d)
  PROVE  DeleteInv'
<1>0. /\ DelTypeOK /\ now \in Seconds /\ log \in [Seconds -> {"none", "", "success", "other"}]
      /\ \A e \in Deleters :
           del[e] \in [pc : {"idle", "client", "tail", "row", "rmlog"}, file : Files,
                       at : Seconds, acks : SUBSET Nodes, shared : BOOLEAN]
  BY DelTyped DEF DeleteInv
<1>1. PICK f0 \in Chosen(d) :
        del' = [e \in Deleters |->
                  IF e = d THEN [pc |-> "client", file |-> f0, at |-> now, acks |-> {},
                                 shared |-> LogTaken(d)]
                  ELSE [del[e] EXCEPT !.shared = @ \/ UsesLog(e)]]
  BY DEF StartClient
<1>2. /\ del[d].pc = "idle" /\ log' = [log EXCEPT ![now] = ""]
      /\ UNCHANGED <<now, rows, stored, stray, breaks, excused>>
  BY DEF StartClient
<1>3. /\ del'[d].pc = "client" /\ del'[d].at = now /\ del'[d].acks = {}
      /\ del'[d].shared = LogTaken(d)
  BY <1>1
<1>4. ASSUME NEW e \in Deleters, e # d
      PROVE  /\ del'[e].pc = del[e].pc /\ del'[e].file = del[e].file /\ del'[e].at = del[e].at
             /\ del'[e].acks = del[e].acks
             /\ del'[e].shared = (del[e].shared \/ UsesLog(e))
  <2>1. del'[e] = [del[e] EXCEPT !.shared = del[e].shared \/ UsesLog(e)]
    BY <1>1, <1>4
  <2> QED BY <1>0, <2>1
<1>5. ASSUME NEW e \in Deleters, e # d, Deleting(e), ~del'[e].shared
      PROVE  del[e].at # now /\ ~del[e].shared /\ log'[del[e].at] = log[del[e].at]
  <2>1. ~del[e].shared /\ ~UsesLog(e)
    BY <1>4, <1>5
  <2>2. del[e].at # now /\ del[e].at \in Seconds
    BY <1>0, <1>5, <2>1 DEF UsesLog, Deleting
  <2> QED BY <1>0, <1>2, <2>1, <2>2
<1>6. LogsApart'
  <2> SUFFICES ASSUME NEW a \in Deleters, Apart(a)'
               PROVE  /\ \A e \in Deleters : e # a /\ Deleting(e)' => del'[e].at # del'[a].at
                      /\ \A s \in stray' : s[2] # del'[a].at
    BY DEF LogsApart
  <2>1. CASE a = d
    <3>1. /\ \A e \in Deleters \ {d} : ~UsesLog(e)
          /\ \A s \in stray : s[2] # now
      BY <1>3, <2>1 DEF Apart, LogTaken
    <3> QED BY <1>2, <1>3, <1>4, <2>1, <3>1 DEF Deleting, UsesLog
  <2>2. CASE a # d
    <3>1. Apart(a) /\ del[a].at # now /\ del'[a].at = del[a].at
      BY <1>4, <1>5, <2>2 DEF Apart, Deleting
    <3>2. /\ \A e \in Deleters : e # a /\ Deleting(e) => del[e].at # del[a].at
          /\ \A s \in stray : s[2] # del[a].at
      BY <3>1 DEF DeleteInv, LogsApart
    <3> QED BY <1>2, <1>3, <1>4, <3>1, <3>2 DEF Deleting
  <2> QED BY <2>1, <2>2
<1>7. StraysExcused'
  BY <1>2 DEF DeleteInv, StraysExcused
<1>8. ASSUME NEW e \in Deleters PROVE LogSpeaks(e)' /\ NothingReturns(e)'
  <2>1. CASE e = d
    <3>1. log'[now] = ""
      BY <1>0, <1>2
    <3> QED BY <1>3, <2>1, <3>1 DEF LogSpeaks, NothingReturns
  <2>2. CASE e # d
    <3>1. Shrinks
      BY <1>2 DEF Shrinks
    <3>2. del[e].shared => del'[e].shared
      BY <1>0, <1>4, <2>2
    <3>3. Apart(e) /\ ~del'[e].shared => log'[del[e].at] = log[del[e].at]
      BY <1>5, <2>2 DEF Apart
    <3> QED BY <1>0, <1>4, <2>2, <3>1, <3>2, <3>3, Bystander DEF DeleteInv
  <2> QED BY <2>1, <2>2
<1>9. LeftoverExplained'
  <2> SUFFICES ASSUME NEW f \in Contents, rows'[f] # "absent", stored'[f] = {}, f \notin excused'
               PROVE  \E e \in Deleters : del'[e].pc # "idle" /\ del'[e].file = f
    BY DEF LeftoverExplained
  <2>1. PICK e \in Deleters : del[e].pc # "idle" /\ del[e].file = f
    BY <1>2 DEF DeleteInv, LeftoverExplained
  <2>2. e # d
    BY <1>2, <2>1
  <2> QED BY <1>4, <2>1, <2>2
<1> QED BY <1>6, <1>7, <1>8, <1>9 DEF DeleteInv

\* Steps that no deletion takes.
LEMMA DelOtherStep ==
  ASSUME DeleteInv, DelTypeOK', Shrinks, del' = del, stray' \subseteq stray,
         \A e \in Deleters : Apart(e) => log'[del[e].at] = log[del[e].at],
         \A f \in Contents : stored[f] # {} /\ stored'[f] = {} => f \in excused
  PROVE  DeleteInv'
<1>1. LogsApart'
  BY DEF DeleteInv, LogsApart, Apart, Deleting
<1>2. StraysExcused'
  BY DEF DeleteInv, StraysExcused, Shrinks
<1>3. ASSUME NEW e \in Deleters PROVE LogSpeaks(e)' /\ NothingReturns(e)'
  BY Bystander DEF DeleteInv
<1>4. LeftoverExplained'
  <2>1. \A f \in Contents : rows'[f] # "absent" => rows[f] # "absent"
    BY DEF Shrinks, Files
  <2> QED BY <2>1 DEF DeleteInv, LeftoverExplained, Shrinks
<1> QED BY <1>1, <1>2, <1>3, <1>4 DEF DeleteInv

LEMMA DeleteStep ==
  ASSUME DeleteInv, [DelNext]_delVars
  PROVE  DeleteInv'
<1>0. DelTypeOK /\ DelTypeOK'
  BY DelTypeStep DEF DeleteInv
<1>1. CASE UNCHANGED delVars
  BY <1>0, <1>1, DelOtherStep DEF delVars, Shrinks
<1>2. ASSUME NEW d \in Deleters, Delete(d) PROVE DeleteInv'
  BY <1>0, <1>2, DelStartStep, DelWorkStep DEF Delete, Work
<1>3. CASE StrayDeletes
  <2>1. PICK s \in stray, n \in Nodes : stored' = [stored EXCEPT ![s[1]] = @ \ {n}]
    BY <1>3 DEF StrayDeletes
  <2>2. s[1] \in excused
    BY DEF DeleteInv, StraysExcused
  <2>3. \A f \in Files : stored'[f] \subseteq stored[f] /\ (f # s[1] => stored'[f] = stored[f])
    BY <1>0, <2>1, DelTyped
  <2>4. UNCHANGED <<now, rows, log, del, stray, breaks, excused>>
    BY <1>3 DEF StrayDeletes
  <2> QED BY <1>0, <2>2, <2>3, <2>4, DelOtherStep DEF Shrinks, Files
<1>4. CASE StrayEnds
  <2>1. PICK s \in stray : /\ stray' = stray \ {s}
                           /\ WriteLog(s[2], "success") \/ WriteLog(s[2], "other")
    BY <1>4 DEF StrayEnds
  <2>2. \A t \in Seconds : t # s[2] => log'[t] = log[t]
    BY <1>0, <2>1, DelTyped DEF WriteLog
  <2>3. \A e \in Deleters : Apart(e) => s[2] # del[e].at
    BY DEF DeleteInv, LogsApart
  <2>4. \A e \in Deleters : Apart(e) => log'[del[e].at] = log[del[e].at]
    BY <1>0, <2>2, <2>3, DelTyped
  <2>5. UNCHANGED <<now, rows, stored, del, breaks, excused>>
    BY <1>4 DEF StrayEnds
  <2> QED BY <1>0, <2>1, <2>4, <2>5, DelOtherStep DEF Shrinks
<1>5. CASE updateDB
  <2>1. \A f \in Files : rows[f] = "absent" => rows'[f] = "absent"
    BY <1>0, <1>5, DelTyped DEF updateDB
  <2> QED BY <1>0, <1>5, <2>1, DelOtherStep DEF updateDB, Shrinks
<1>6. CASE Tick
  BY <1>0, <1>6, DelOtherStep DEF Tick, Shrinks
<1> QED BY <1>1, <1>2, <1>3, <1>4, <1>5, <1>6 DEF DelNext

LEMMA DeleteInit ==
  ASSUME DelInit
  PROVE  DeleteInv
<1>1. Idle \in [pc : {"idle", "client", "tail", "row", "rmlog"}, file : Files,
                    at : Seconds, acks : SUBSET Nodes, shared : BOOLEAN]
      /\ 0 \in Seconds /\ 0 \in 0 .. MaxBreaks
  BY BoundsAssumption DEF Idle, Files, Seconds
<1>2. DelTypeOK
  BY <1>1 DEF DelInit, DelTypeOK
<1>3. \A d \in Deleters : del[d].pc = "idle"
  BY DEF DelInit, Idle
<1>4. /\ LogsApart /\ StraysExcused
      /\ \A d \in Deleters : LogSpeaks(d) /\ NothingReturns(d)
  BY <1>3 DEF DelInit, LogsApart, StraysExcused, LogSpeaks, NothingReturns, Apart, Deleting
<1>5. LeftoverExplained
  <2>1. \A f \in Contents : stored[f] = Nodes
    BY DEF DelInit, Files
  <2> QED BY <2>1, NodesAssumption DEF LeftoverExplained
<1> QED BY <1>2, <1>4, <1>5 DEF DeleteInv

\* kt-simul -del-files beside a running kt-simul: a row whose content some node
\* still holds is removed only on the word of another client, in a log that two of
\* one second shared (delete.go l.39-43, l.92-105).
THEOREM RemovalsAreReal == DelSpec => []RemovedForReal
<1>1. DelInit => DeleteInv
  BY DeleteInit
<1>2. DeleteInv /\ [DelNext]_delVars => DeleteInv'
  BY DeleteStep
<1>3. DeleteInv => RemovedForReal
  BY DEF DeleteInv, NothingReturns, RemovedForReal
<1> QED BY <1>1, <1>2, <1>3, PTL DEF DelSpec

\* A content that is gone from all nodes and still has its row, with nobody at
\* it, was given up for a reason: a command or a node failed, or a log was shared.
THEOREM LeftoversAreExplained == DelSpec => []LeftoverExplained
<1>1. DelInit => DeleteInv
  BY DeleteInit
<1>2. DeleteInv /\ [DelNext]_delVars => DeleteInv'
  BY DeleteStep
<1>3. DeleteInv => LeftoverExplained
  BY DEF DeleteInv
<1> QED BY <1>1, <1>2, <1>3, PTL DEF DelSpec
=============================================================================
