-------------------------- MODULE SetupFilesProofs --------------------------
(***************************************************************************)
(* Proofs about the choice of contents, for any number of contents and of  *)
(* goroutines, any LIMIT and any pattern: types, mutual exclusion, the     *)
(* indices, the only reason of a crash, and stale contents.                *)
(***************************************************************************)
EXTENDS SetupFiles, TLAPS

Holding(g) == pc[g] \in {"hotQuery", "coldQuery", "pick"}

\* The two lists and their indices are only touched by the goroutine that
\* holds setupFileLock, and an error path gives the lock back: who is between
\* the test (l.210) and the return is the holder, and the lock is held by such
\* a goroutine.
Exclusive ==
  \A g \in Goroutines : Holding(g) <=> setupFileLock = g

\* An index never passes the end of its list, whatever failed before.
IdxInRange == \A k \in Kinds : curIdx[k] <= Len(queue[k])

\* While a goroutine is between the test of the two lists and its end, each
\* index is in range unless its list is empty.
IndexReady ==
  \A g \in Goroutines :
    /\ pc[g] = "coldQuery" => curIdx["hot"] = 0
    /\ pc[g] = "pick" => \A k \in Kinds : UsedUp(k) => queue[k] = <<>>

\* A list holds a content once, and what came out of it after the row was gone
\* is not still to come.
StaleSpent ==
  \A k \in Kinds, f \in Files :
    /\ \A i, j \in DOMAIN queue[k] : queue[k][i] = f /\ queue[k][j] = f => i = j
    /\ Present(f) => stale[k][f] = 0
    /\ stale[k][f] > 0 => \A i \in DOMAIN queue[k] : i > curIdx[k] => queue[k][i] # f

SetupInv ==
  /\ TypeOK /\ Exclusive /\ IdxInRange /\ IndexReady
  /\ CrashOnlyOnEmptyList /\ StaleSpent /\ StaleAtMostOnce

-----------------------------------------------------------------------------
(* The lists that a query returns.                                         *)

LEMMA ResultIsList ==
  ASSUME TypeOK, NEW k \in Kinds, NEW s \in Result(k)
  PROVE  /\ s \in Seq(Files)
         /\ Len(s) \in Nat /\ DOMAIN s = 1 .. Len(s)
         /\ \A i \in DOMAIN s : rows[s[i]] = k /\ s[i] \in Files
         /\ \A i, j \in DOMAIN s : s[i] = s[j] => i = j
<1>1. PICK n \in 0 .. LimitN : s \in [1 .. n -> {f \in Files : rows[f] = k}]
  BY DEF Result
<1>2. n \in Nat
  BY LimitAssumption
<1>3. s \in Seq(Files)
  BY <1>1, <1>2
<1>4. Len(s) = n /\ DOMAIN s = 1 .. n
  BY <1>1, <1>2, <1>3
<1>5. \A i, j \in DOMAIN s : s[i] = s[j] => i = j
  BY DEF Result
<1> QED BY <1>1, <1>2, <1>3, <1>4, <1>5

LEMMA QueueFacts ==
  ASSUME TypeOK, NEW k \in Kinds
  PROVE  /\ Len(queue[k]) \in Nat /\ DOMAIN queue[k] = 1 .. Len(queue[k])
         /\ curIdx[k] \in Nat
BY DEF TypeOK

\* What Pick takes: an element of the list, at the index it then passes.
LEMMA TakenFacts ==
  ASSUME TypeOK, NEW k \in Kinds, ~UsedUp(k)
  PROVE  /\ curIdx[k] + 1 \in DOMAIN queue[k]
         /\ Taken(k) \in Files
<1>1. curIdx[k] + 1 \in 1 .. Len(queue[k])
  BY QueueFacts DEF UsedUp
<1> QED BY <1>1, QueueFacts DEF Taken, TypeOK

LEMMA KindType == \A h \in BOOLEAN : Kind(h) \in Kinds
BY DEF Kind, Kinds

-----------------------------------------------------------------------------
(* Preservation, one part of the invariant after the other.                *)

LEMMA SetupInit == Init => SetupInv
<1> SUFFICES ASSUME Init PROVE SetupInv
  OBVIOUS
<1>1. TypeOK
  <2>1. 0 \in 0 .. Len(setupHotQueue) - 1
    BY PatternAssumption
  <2>2. <<>> \in Seq(Files)
    OBVIOUS
  <2>3. rows \in [Files -> {"absent", "hot", "cold"}] /\ wasCold \subseteq Files
    BY DEF Init, TableInit
  <2> QED BY <2>1, <2>2, <2>3 DEF Init, TypeOK, Kinds, Labels
<1>2. Exclusive
  BY NobodyAssumption DEF Init, Exclusive, Holding
<1>3. IdxInRange /\ CrashOnlyOnEmptyList /\ StaleAtMostOnce
  BY DEF Init, IdxInRange, CrashOnlyOnEmptyList, StaleAtMostOnce, Kinds
<1>4. IndexReady /\ StaleSpent
  BY DEF Init, IndexReady, StaleSpent, Kinds
<1> QED BY <1>1, <1>2, <1>3, <1>4 DEF SetupInv

LEMMA TypeStep == TypeOK /\ [Next]_vars => TypeOK'
<1> SUFFICES ASSUME TypeOK, [Next]_vars PROVE TypeOK'
  OBVIOUS
<1>1. ASSUME TableStep PROVE TypeOK'
  <2>1. rows' \in [Files -> {"absent", "hot", "cold"}] /\ wasCold' \subseteq Files
    BY <1>1 DEF TableStep, TableNext, Insert, SetHot, Remove, Kind, TypeOK
  <2>2. stale' \in [Kinds -> [Files -> Nat]]
    BY <1>1 DEF TableStep, TypeOK
  <2> QED BY <1>1, <2>1, <2>2 DEF TableStep, TypeOK
<1>2. ASSUME NEW g \in Goroutines, Start(g) PROVE TypeOK'
  <2>1. setupHotQueueCurIdx' \in 0 .. Len(setupHotQueue) - 1
    BY <1>2, PatternAssumption DEF Start, TypeOK
  <2>2. setupHotQueue[setupHotQueueCurIdx' + 1] \in BOOLEAN
    BY <2>1, PatternAssumption
  <2>3. want' \in [Goroutines -> Kinds]
    BY <1>2, <2>2, KindType DEF Start, TypeOK
  <2> QED BY <1>2, <2>1, <2>3
          DEF Start, TypeOK, Goto, Labels, tableVars, listVars
<1>3. ASSUME NEW g \in Goroutines, Lock(g) PROVE TypeOK'
  BY <1>3 DEF Lock, TypeOK, Goto, Labels, tableVars, listVars
<1>4. ASSUME NEW g \in Goroutines, HotQuery(g) \/ ColdQuery(g) PROVE TypeOK'
  <2>0. PICK k \in Kinds : \E s \in Result(k) : Replace(k, s)
    BY <1>4 DEF HotQuery, ColdQuery, Kinds
  <2>1. PICK s \in Result(k) : Replace(k, s)
    BY <2>0
  <2>2. queue' \in [Kinds -> Seq(Files)] /\ curIdx' \in [Kinds -> Nat]
    BY <2>1, ResultIsList DEF Replace, TypeOK
  <2> QED BY <1>4, <2>2
          DEF HotQuery, ColdQuery, TypeOK, Goto, Labels, tableVars
<1>5. ASSUME NEW g \in Goroutines, QueryFails(g) PROVE TypeOK'
  BY <1>5 DEF QueryFails, Unlock, TypeOK, Goto, Labels, tableVars, listVars
<1>6. ASSUME NEW g \in Goroutines, Pick(g) PROVE TypeOK'
  <2>1. want[g] \in Kinds /\ Taken(want[g]) \in Files
    BY <1>6, TakenFacts DEF Pick, TypeOK
  <2>2. curIdx' \in [Kinds -> Nat] /\ stale' \in [Kinds -> [Files -> Nat]]
    BY <1>6, <2>1 DEF Pick, TypeOK
  <2> QED BY <1>6, <2>2 DEF Pick, Unlock, TypeOK, Goto, Labels, tableVars
<1>7. ASSUME NEW g \in Goroutines, PickPanics(g) PROVE TypeOK'
  BY <1>7 DEF PickPanics, TypeOK, tableVars, listVars
<1>8. CASE UNCHANGED vars
  BY <1>8 DEF vars, setupVars, tableVars, TypeOK
<1> QED BY <1>1, <1>2, <1>3, <1>4, <1>5, <1>6, <1>7, <1>8 DEF Next, Step

LEMMA ExclusiveStep == TypeOK /\ Exclusive /\ [Next]_vars => Exclusive'
<1> SUFFICES ASSUME TypeOK, Exclusive, [Next]_vars PROVE Exclusive'
  OBVIOUS
<1> USE NobodyAssumption DEF Exclusive, Holding, TypeOK
<1>1. CASE UNCHANGED <<pc, setupFileLock>>
  BY <1>1
<1>2. ASSUME NEW g \in Goroutines, Start(g) \/ Lock(g) PROVE Exclusive'
  BY <1>2 DEF Start, Lock, At, Goto
<1>3. ASSUME NEW g \in Goroutines, HotQuery(g) \/ ColdQuery(g) PROVE Exclusive'
  BY <1>3 DEF HotQuery, ColdQuery, At, Goto
<1>4. ASSUME NEW g \in Goroutines, QueryFails(g) \/ Pick(g) PROVE Exclusive'
  BY <1>4 DEF QueryFails, Pick, At, Goto, Unlock
<1> QED BY <1>1, <1>2, <1>3, <1>4
        DEF Next, Step, TableStep, PickPanics, vars, setupVars

\* Only the holder of the lock is past the test of the two lists.
LEMMA OneHolder ==
  ASSUME Exclusive, NEW g \in Goroutines, NEW h \in Goroutines,
         Holding(g), Holding(h)
  PROVE  g = h
BY DEF Exclusive

LEMMA IndexStep ==
  TypeOK /\ Exclusive /\ IdxInRange /\ IndexReady /\ [Next]_vars
    => IdxInRange' /\ IndexReady'
<1> SUFFICES ASSUME TypeOK, Exclusive, IdxInRange, IndexReady, [Next]_vars
             PROVE  IdxInRange' /\ IndexReady'
  OBVIOUS
<1> USE DEF IdxInRange, IndexReady, UsedUp
<1>1. CASE UNCHANGED <<pc, queue, curIdx>>
  BY <1>1
<1>2. ASSUME NEW g \in Goroutines, Start(g) \/ QueryFails(g)
      PROVE  IdxInRange' /\ IndexReady'
  BY <1>2 DEF Start, QueryFails, Goto, listVars, TypeOK
<1>3. ASSUME NEW g \in Goroutines, Lock(g)
      PROVE  IdxInRange' /\ IndexReady'
  BY <1>3 DEF Lock, Goto, listVars, TypeOK, Kinds
<1>4. ASSUME NEW g \in Goroutines, NEW k \in Kinds, NEW s \in Result(k),
             Holding(g), Replace(k, s), \A h \in Goroutines : h # g => pc'[h] = pc[h]
      PROVE  /\ IdxInRange'
             /\ curIdx'[k] = 0 /\ queue'[k] = s
             /\ \A h \in Goroutines : h # g => pc'[h] \notin {"coldQuery", "pick"}
  <2>1. Len(s) \in Nat
    BY ResultIsList
  <2>2. curIdx' = [curIdx EXCEPT ![k] = 0] /\ queue' = [queue EXCEPT ![k] = s]
    BY <1>4 DEF Replace
  <2>3. \A h \in Goroutines : h # g => pc[h] \notin {"coldQuery", "pick"}
    BY <1>4, OneHolder DEF Holding
  <2>4. IdxInRange'
    BY <2>1, <2>2 DEF TypeOK
  <2> QED BY <1>4, <2>2, <2>3, <2>4 DEF TypeOK
<1>5. ASSUME NEW g \in Goroutines, HotQuery(g)
      PROVE  IdxInRange' /\ IndexReady'
  <2>1. PICK s \in Result("hot") : Replace("hot", s)
    BY <1>5 DEF HotQuery
  <2>2. Holding(g) /\ pc' = [pc EXCEPT ![g] = "coldQuery"] /\ "hot" \in Kinds
    BY <1>5 DEF HotQuery, At, Goto, Holding, Kinds
  <2>3. /\ IdxInRange' /\ curIdx'["hot"] = 0
        /\ \A h \in Goroutines : h # g => pc'[h] \notin {"coldQuery", "pick"}
    BY <1>4, <2>1, <2>2 DEF TypeOK
  <2> QED BY <2>2, <2>3 DEF TypeOK
<1>6. ASSUME NEW g \in Goroutines, ColdQuery(g)
      PROVE  IdxInRange' /\ IndexReady'
  <2>1. PICK s \in Result("cold") : Replace("cold", s)
    BY <1>6 DEF ColdQuery
  <2>2. /\ Holding(g) /\ pc' = [pc EXCEPT ![g] = "pick"] /\ "cold" \in Kinds
        /\ pc[g] = "coldQuery"
    BY <1>6 DEF ColdQuery, At, Goto, Holding, Kinds
  <2>3. /\ IdxInRange' /\ curIdx'["cold"] = 0
        /\ \A h \in Goroutines : h # g => pc'[h] \notin {"coldQuery", "pick"}
    BY <1>4, <2>1, <2>2 DEF TypeOK
  <2>4. curIdx'["hot"] = 0
    BY <2>1, <2>2 DEF Replace, TypeOK, Kinds
  <2>5. queue' \in [Kinds -> Seq(Files)]
    BY TypeStep DEF TypeOK
  <2>6. \A k \in Kinds : curIdx'[k] >= Len(queue'[k]) => queue'[k] = <<>>
    BY <2>3, <2>4, <2>5 DEF Kinds
  <2> QED BY <2>2, <2>3, <2>6 DEF TypeOK
<1>7. ASSUME NEW g \in Goroutines, Pick(g)
      PROVE  IdxInRange' /\ IndexReady'
  <2>1. /\ Holding(g) /\ pc' = [pc EXCEPT ![g] = "idle"]
        /\ ~UsedUp(want[g]) /\ want[g] \in Kinds
        /\ curIdx' = [curIdx EXCEPT ![want[g]] = @ + 1] /\ queue' = queue
    BY <1>7 DEF Pick, At, Goto, Holding, TypeOK
  <2>2. \A h \in Goroutines : pc'[h] \notin {"coldQuery", "pick"}
    BY <2>1, OneHolder DEF Holding, TypeOK
  <2>3. IdxInRange'
    BY <2>1, QueueFacts DEF TypeOK
  <2> QED BY <2>2, <2>3
<1> QED BY <1>1, <1>2, <1>3, <1>5, <1>6, <1>7
        DEF Next, Step, TableStep, PickPanics, listVars, vars, setupVars

LEMMA CrashStep ==
  TypeOK /\ IndexReady /\ CrashOnlyOnEmptyList /\ [Next]_vars => CrashOnlyOnEmptyList'
<1> SUFFICES ASSUME TypeOK, IndexReady, CrashOnlyOnEmptyList, [Next]_vars
             PROVE  CrashOnlyOnEmptyList'
  OBVIOUS
<1> USE DEF CrashOnlyOnEmptyList
<1>1. CASE UNCHANGED <<crashed, pc, queue, want>>
  BY <1>1
<1>2. ASSUME NEW g \in Goroutines, PickPanics(g) PROVE CrashOnlyOnEmptyList'
  BY <1>2 DEF PickPanics, At, IndexReady, TypeOK, listVars
<1>3. ASSUME NEW g \in Goroutines,
             Start(g) \/ Lock(g) \/ HotQuery(g) \/ ColdQuery(g) \/ QueryFails(g) \/ Pick(g)
      PROVE  CrashOnlyOnEmptyList'
  BY <1>3 DEF Start, Lock, HotQuery, ColdQuery, QueryFails, Pick, At
<1> QED BY <1>1, <1>2, <1>3 DEF Next, Step, TableStep, vars, setupVars

LEMMA StaleStep ==
  TypeOK /\ StaleSpent /\ StaleAtMostOnce /\ [Next]_vars
    => StaleSpent' /\ StaleAtMostOnce'
<1> SUFFICES ASSUME TypeOK, StaleSpent, StaleAtMostOnce, [Next]_vars
             PROVE  StaleSpent' /\ StaleAtMostOnce'
  OBVIOUS
<1>1. CASE UNCHANGED <<tableVars, listVars>>
  BY <1>1 DEF StaleSpent, StaleAtMostOnce, tableVars, listVars, Present
<1>2. ASSUME TableStep PROVE StaleSpent' /\ StaleAtMostOnce'
  <2>1. \A k \in Kinds, f \in Files :
          stale'[k][f] = IF rows'[f] = "absent" THEN stale[k][f] ELSE 0
    BY <1>2 DEF TableStep
  <2>2. queue' = queue /\ curIdx' = curIdx
    BY <1>2 DEF TableStep
  <2> QED BY <2>1, <2>2 DEF StaleSpent, StaleAtMostOnce, Present
<1>3. ASSUME NEW g \in Goroutines, HotQuery(g) \/ ColdQuery(g)
      PROVE  StaleSpent' /\ StaleAtMostOnce'
  <2>0. PICK k \in Kinds : \E s \in Result(k) : Replace(k, s)
    BY <1>3 DEF HotQuery, ColdQuery, Kinds
  <2>1. PICK s \in Result(k) : Replace(k, s)
    BY <2>0
  <2>2. stale' = stale /\ rows' = rows
    BY <1>3 DEF HotQuery, ColdQuery, tableVars
  <2>3. /\ queue'[k] = s /\ curIdx'[k] = 0
        /\ \A l \in Kinds : l # k => queue'[l] = queue[l] /\ curIdx'[l] = curIdx[l]
    BY <2>1 DEF Replace, TypeOK
  <2>4. /\ \A i \in DOMAIN s : rows[s[i]] = k /\ s[i] \in Files
        /\ \A i, j \in DOMAIN s : s[i] = s[j] => i = j
    BY ResultIsList
  <2>5. \A f \in Files : \A i \in DOMAIN s : s[i] = f => Present(f)
    BY <2>4 DEF Present, Kinds
  <2>6. \A f \in Files : stale[k][f] > 0 => \A i \in DOMAIN s : s[i] # f
    BY <2>5 DEF StaleSpent, TypeOK
  <2>7. ASSUME NEW l \in Kinds, NEW f \in Files
        PROVE  /\ \A i, j \in DOMAIN queue'[l] : queue'[l][i] = f /\ queue'[l][j] = f => i = j
               /\ Present(f)' => stale'[l][f] = 0
               /\ stale'[l][f] > 0 =>
                    \A i \in DOMAIN queue'[l] : i > curIdx'[l] => queue'[l][i] # f
    <3>1. Present(f)' => stale'[l][f] = 0
      BY <2>2 DEF StaleSpent, Present
    <3>2. CASE l = k
      BY <3>1, <3>2, <2>2, <2>3, <2>4, <2>6
    <3>3. CASE l # k
      BY <3>1, <3>3, <2>2, <2>3 DEF StaleSpent
    <3> QED BY <3>2, <3>3
  <2> QED BY <2>2, <2>7 DEF StaleSpent, StaleAtMostOnce
<1>4. ASSUME NEW g \in Goroutines, Pick(g)
      PROVE  StaleSpent' /\ StaleAtMostOnce'
  <2> DEFINE k == want[g]
             e == Taken(k)
  <2>1. /\ k \in Kinds /\ ~UsedUp(k)
        /\ curIdx' = [curIdx EXCEPT ![k] = @ + 1]
        /\ queue' = queue /\ rows' = rows
        /\ stale' = IF Present(e) THEN stale ELSE [stale EXCEPT ![k][e] = @ + 1]
    BY <1>4 DEF Pick, TypeOK, tableVars
  <2>2. /\ curIdx[k] + 1 \in DOMAIN queue[k] /\ e \in Files
        /\ e = queue[k][curIdx[k] + 1]
        /\ curIdx[k] \in Nat /\ \A l \in Kinds : DOMAIN queue[l] \subseteq Nat
    BY <2>1, TakenFacts, QueueFacts DEF Taken
  <2>3. stale[k][e] = 0
    <3>1. stale[k][e] \in Nat
      BY <2>1, <2>2 DEF TypeOK
    <3>2. ASSUME stale[k][e] > 0 PROVE FALSE
      <4>1. \A i \in DOMAIN queue[k] : i > curIdx[k] => queue[k][i] # e
        BY <2>1, <2>2, <3>2 DEF StaleSpent
      <4>2. curIdx[k] + 1 > curIdx[k]
        BY <2>2
      <4> QED BY <2>2, <4>1, <4>2
    <3> HIDE DEF k, e
    <3> QED BY <3>1, <3>2
  <2>4. /\ \A l \in Kinds, f \in Files :
             ~(l = k /\ f = e) => stale'[l][f] = stale[l][f]
        /\ stale'[k][e] \in {0, 1} /\ (Present(e) => stale'[k][e] = 0)
    BY <2>1, <2>2, <2>3 DEF TypeOK
  <2>5. /\ curIdx'[k] = curIdx[k] + 1
        /\ \A l \in Kinds : l # k => curIdx'[l] = curIdx[l]
    BY <2>1 DEF TypeOK
  <2> HIDE DEF k, e
  <2>6. ASSUME NEW l \in Kinds, NEW f \in Files
        PROVE  /\ \A i, j \in DOMAIN queue'[l] : queue'[l][i] = f /\ queue'[l][j] = f => i = j
               /\ Present(f)' => stale'[l][f] = 0
               /\ stale'[l][f] > 0 =>
                    \A i \in DOMAIN queue'[l] : i > curIdx'[l] => queue'[l][i] # f
               /\ stale'[l][f] <= 1
    <3>1. \A i, j \in DOMAIN queue[l] : queue[l][i] = f /\ queue[l][j] = f => i = j
      BY DEF StaleSpent
    <3>2. CASE l = k /\ f = e
      <4>1. \A i \in DOMAIN queue[k] : i > curIdx[k] + 1 => queue[k][i] # e
        BY <2>2, <3>1, <3>2
      <4> QED BY <2>1, <2>4, <2>5, <3>1, <3>2, <4>1 DEF Present
    <3>3. CASE l = k /\ f # e
      <4>1. curIdx'[l] > curIdx[l] /\ curIdx[l] \in Nat
        BY <2>2, <2>5, <3>3
      <4>2. \A i \in DOMAIN queue[l] : i > curIdx'[l] => i > curIdx[l]
        BY <2>2, <2>5, <3>3
      <4> QED BY <2>1, <2>4, <3>1, <3>3, <4>2 DEF Present, StaleSpent, StaleAtMostOnce
    <3>4. CASE l # k
      BY <2>1, <2>4, <2>5, <3>1, <3>4 DEF Present, StaleSpent, StaleAtMostOnce
    <3> QED BY <3>2, <3>3, <3>4
  <2> QED BY <2>6 DEF StaleSpent, StaleAtMostOnce
<1> QED BY <1>1, <1>2, <1>3, <1>4
        DEF Next, Step, Start, Lock, QueryFails, PickPanics, vars, setupVars, listVars

-----------------------------------------------------------------------------
(* The theorems.                                                           *)

LEMMA SetupInvariant == Spec => []SetupInv
<1>1. SetupInv /\ [Next]_vars => SetupInv'
  BY TypeStep, ExclusiveStep, IndexStep, CrashStep, StaleStep DEF SetupInv
<1> QED BY <1>1, SetupInit, PTL DEF Spec

\* setupFileLock (l.181) is held by exactly the goroutine that is between the
\* test of the lists and the return of fileForSetup, on every path.
THEOREM ListsExclusive == Spec => [](TypeOK /\ Exclusive)
BY SetupInvariant, PTL DEF SetupInv

\* A panic of fileForSetup (l.217, l.220) means that a query found no row of
\* the kind that was wanted, however calls, failures and deletions interleave.
THEOREM CrashExplained == Spec => [](IdxInRange /\ CrashOnlyOnEmptyList)
BY SetupInvariant, PTL DEF SetupInv

\* A content that is gone is asked for at most once out of each list.
THEOREM StaleBounded == Spec => []StaleAtMostOnce
BY SetupInvariant, PTL DEF SetupInv
=============================================================================
