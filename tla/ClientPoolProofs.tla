-------------------------- MODULE ClientPoolProofs --------------------------
(***************************************************************************)
(* Proofs about the connection pool, for every number of addresses,        *)
(* connections and goroutines: types, the conservation of sessions, the    *)
(* completeness of the pool and the bound on the load of a connection.     *)
(***************************************************************************)
EXTENDS ClientPool, FiniteSetTheorems, FunctionTheorems, TLAPS

-----------------------------------------------------------------------------
(* Counting.                                                               *)

\* n disjoint subsets of A with at least m elements each: A has n * m elements.
LEMMA DisjointSubsets ==
  ASSUME NEW n \in Nat, NEW m \in Nat, NEW A, IsFiniteSet(A),
         NEW U, U \in [0 .. n-1 -> SUBSET A],
         \A i \in 0 .. n-1 : Cardinality(U[i]) >= m,
         \A i, j \in 0 .. n-1 : i # j => U[i] \cap U[j] = {}
  PROVE  n * m <= Cardinality(A)
<1> DEFINE P == (0 .. n-1) \X (1 .. m)
<1>1. IsFiniteSet(P) /\ Cardinality(P) = n * m
  <2>1. IsFiniteSet(0 .. n-1) /\ Cardinality(0 .. n-1) = n
    BY FS_Interval
  <2>2. IsFiniteSet(1 .. m) /\ Cardinality(1 .. m) = m
    BY FS_Interval
  <2>3. P = (0 .. n-1) \X (1 .. m)
    OBVIOUS
  <2> HIDE DEF P
  <2>4. \A S, T : IsFiniteSet(S) /\ IsFiniteSet(T) =>
          /\ IsFiniteSet(S \X T)
          /\ Cardinality(S \X T) = Cardinality(S) * Cardinality(T)
    BY FS_Product
  <2>5. /\ IsFiniteSet(P)
        /\ Cardinality(P) = Cardinality(0 .. n-1) * Cardinality(1 .. m)
    BY <2>1, <2>2, <2>3, <2>4
  <2> QED BY <2>1, <2>2, <2>5
<1>2. \A i \in 0 .. n-1 :
        \E b \in Injection(1 .. m, A) : \A x \in 1 .. m : b[x] \in U[i]
  <2> TAKE i \in 0 .. n-1
  <2>1. U[i] \in SUBSET A
    OBVIOUS
  <2>2. IsFiniteSet(U[i])
    BY <2>1, FS_Subset
  <2>3. /\ Cardinality(U[i]) \in Nat
        /\ ExistsBijection(1 .. Cardinality(U[i]), U[i])
    BY <2>2, FS_CardinalityType
  <2>4. PICK b : b \in Bijection(1 .. Cardinality(U[i]), U[i])
    BY <2>3 DEF ExistsBijection
  <2>5. b \in Injection(1 .. Cardinality(U[i]), U[i])
    BY <2>4 DEF Bijection
  <2>6. 1 .. m \subseteq 1 .. Cardinality(U[i])
    BY <2>3
  <2> DEFINE c == [x \in 1 .. m |-> b[x]]
  <2>7. \A x \in 1 .. m : c[x] \in U[i]
    BY <2>5, <2>6 DEF Injection
  <2>8. c \in Injection(1 .. m, A)
    BY <2>1, <2>5, <2>6, <2>7 DEF Injection, IsInjective
  <2> QED BY <2>7, <2>8
<1> DEFINE B == [i \in 0 .. n-1 |->
                   CHOOSE b \in Injection(1 .. m, A) : \A x \in 1 .. m : b[x] \in U[i]]
<1>3. \A i \in 0 .. n-1 : /\ B[i] \in Injection(1 .. m, A)
                          /\ \A x \in 1 .. m : B[i][x] \in U[i]
  BY <1>2
<1> DEFINE f == [p \in P |-> B[p[1]][p[2]]]
<1> HIDE DEF B
<1>4. f \in [P -> A]
  BY <1>3
<1>5. ASSUME NEW p \in P, NEW q \in P, f[p] = f[q]
      PROVE  p = q
  <2>1. f[p] \in U[p[1]] /\ f[q] \in U[q[1]]
    BY <1>3
  <2>2. p[1] = q[1]
    BY <2>1, <1>5
  <2>3. B[p[1]] \in Injection(1 .. m, A)
    BY <1>3
  <2>4. p[2] = q[2]
    BY <2>2, <2>3, <1>5 DEF Injection, IsInjective
  <2> QED BY <2>2, <2>4
<1>6. f \in Injection(P, A)
  BY <1>4, <1>5 DEF Injection, IsInjective
<1> HIDE DEF f, P
<1> QED BY <1>1, <1>6, FS_Injection

\* Induction over the natural numbers, for a set in the place of a predicate:
\* the least number outside the set would have a predecessor inside it.
LEMMA NaturalInduction ==
  ASSUME NEW S, 0 \in S, \A n \in Nat : n \in S => n + 1 \in S
  PROVE  Nat \subseteq S
<1> DEFINE T == Nat \ S
           R == OpToRel(<, Nat)
<1> SUFFICES ASSUME T # {} PROVE FALSE
  OBVIOUS
<1>1. \E x \in T : \A y \in T : ~ (<<y, x>> \in R)
  <2>1. IsWellFoundedOn(R, Nat) /\ T \subseteq Nat
    BY NatLessThanWellFounded
  <2> HIDE DEF R, T
  <2> QED BY <2>1, WFMin
<1>2. R = {ss \in Nat \X Nat : ss[1] < ss[2]}
  BY DEF OpToRel
<1> HIDE DEF R
<1>3. PICK x \in T : \A y \in T : ~ (<<y, x>> \in R)
  BY <1>1
<1>4. x # 0 /\ x - 1 \in Nat /\ x - 1 \in S => x \in S
  <2>1. x # 0 /\ x \in Nat
    OBVIOUS
  <2>2. x - 1 \in Nat /\ (x - 1) + 1 = x
    BY <2>1
  <2> QED BY <2>1, <2>2
<1>5. <<x - 1, x>> \in R
  <2>1. x \in Nat /\ x - 1 < x
    OBVIOUS
  <2> QED BY <1>2, <1>4, <2>1
<1>6. x - 1 \notin T
  BY <1>3, <1>5
<1> QED BY <1>4, <1>6

-----------------------------------------------------------------------------
(* What the loop of allocClient computes.                                  *)

\* The loop has one solution step by step (existence), and every solution
\* holds, at each index, the first of the least loaded clients so far.
LEMMA ScanLoopIsFirstLeast ==
  ASSUME NEW ip, \A i \in Indices : Load(ip, i) \in Nat
  PROVE  IsFirstLeast(ip, ScanLoop(ip))
<1> USE SessionCountAssumption
<1> DEFINE N == gMaxSessionCount
           Step(g, i) == IF i = 0 THEN 0
                         ELSE LET c == g[i - 1]
                              IN IF Load(ip, i) < Load(ip, c) THEN i ELSE c
           Sol(g, k) == g = [i \in 0 .. k |-> Step(g, i)]
           Best(i, k) == /\ i \in 0 .. k
                         /\ \A j \in 0 .. k : Load(ip, i) <= Load(ip, j)
                         /\ \A j \in 0 .. k : j < i => Load(ip, i) < Load(ip, j)
<1>1. \E g : Sol(g, N - 1)
  <2> DEFINE S == {k \in Nat : \E g : Sol(g, k)}
  <2>1. 0 \in S
    <3>1. Sol([i \in 0 .. 0 |-> 0], 0)
      OBVIOUS
    <3>2. \E g : Sol(g, 0)
      BY <3>1
    <3> HIDE DEF Sol
    <3> QED BY <3>2
  <2>2. ASSUME NEW k \in Nat, k \in S
        PROVE  k + 1 \in S
    <3>1. PICK g : Sol(g, k)
      BY <2>2
    <3> DEFINE h == [i \in 0 .. k + 1 |-> IF i <= k THEN g[i] ELSE Step(g, k + 1)]
    <3>2. \A i \in 0 .. k : g[i] = Step(g, i)
      BY <3>1
    <3>3. \A i \in 0 .. k + 1 : Step(h, i) = Step(g, i)
      <4> TAKE i \in 0 .. k + 1
      <4>1. CASE i = 0
        BY <4>1
      <4>2. CASE i # 0
        <5>1. h[i - 1] = g[i - 1]
          BY <4>2
        <5> QED BY <5>1
      <4> QED BY <4>1, <4>2
    <3>4. \A i \in 0 .. k + 1 : h[i] = Step(h, i)
      BY <3>2, <3>3
    <3>5. Sol(h, k + 1)
      BY <3>4
    <3>6. \E f : Sol(f, k + 1)
      BY <3>5
    <3> HIDE DEF Sol
    <3> QED BY <3>6
  <2>3. Nat \subseteq S
    <3> HIDE DEF S
    <3> QED BY <2>1, <2>2, NaturalInduction
  <2>4. N - 1 \in Nat
    OBVIOUS
  <2> QED BY <2>3, <2>4
<1> DEFINE client == CHOOSE f : Sol(f, N - 1)
<1>2. Sol(client, N - 1)
  BY <1>1
<1>3. ScanLoop(ip) = client[N - 1]
  BY DEF ScanLoop, Indices
<1> HIDE DEF client
<1> DEFINE E == {k \in Nat : k < N => Best(client[k], k)}
<1>4. 0 \in E
  <2>1. client[0] = 0
    BY <1>2
  <2>2. Load(ip, 0) \in Nat
    BY DEF Indices
  <2> QED BY <2>1, <2>2
<1>5. ASSUME NEW k \in Nat, k \in E
      PROVE  k + 1 \in E
  <2> SUFFICES ASSUME k + 1 < N
               PROVE  Best(client[k + 1], k + 1)
    OBVIOUS
  <2>1. Best(client[k], k)
    BY <1>5
  <2> DEFINE c == client[k]
             d == client[k + 1]
  <2>2. d = IF Load(ip, k + 1) < Load(ip, c) THEN k + 1 ELSE c
    BY <1>2
  <2>3. \A j \in 0 .. k + 1 : Load(ip, j) \in Nat /\ (j \in 0 .. k \/ j = k + 1)
    BY DEF Indices
  <2>4. c \in 0 .. k + 1 /\ d \in 0 .. k + 1 /\ c <= k
    BY <2>1, <2>2
  <2> HIDE DEF c, d
  <2>5. CASE Load(ip, k + 1) < Load(ip, c)
    BY <2>1, <2>2, <2>3, <2>4, <2>5 DEF c, d
  <2>6. CASE ~ (Load(ip, k + 1) < Load(ip, c))
    BY <2>1, <2>2, <2>3, <2>4, <2>6 DEF c, d
  <2> QED BY <2>5, <2>6
<1>6. Nat \subseteq E
  <2> HIDE DEF E
  <2> QED BY <1>4, <1>5, NaturalInduction
<1>7. Best(client[N - 1], N - 1)
  BY <1>6
<1> QED BY <1>3, <1>7 DEF IsFirstLeast, Indices

-----------------------------------------------------------------------------
(* Types and the pool that Init builds.                                    *)

\* The clients dialled so far: all of the finished addresses, and the first
\* idx ones of the address being dialled.
DialledSoFar ==
  /\ \A n \in 1 .. dialled : \A i \in Indices :
       clientKey(remoteIPs[n], i) \in gClientMap
  /\ \A i \in Indices : i < idx => clientKey(remoteIPs[dialled + 1], i) \in gClientMap
  /\ phase = "up" => dialled = Len(remoteIPs)
  /\ dialled = Len(remoteIPs) => idx = 0

LEMMA KeyType == \A ip \in IPs : \A i \in Indices : clientKey(ip, i) \in Keys
BY DEF Keys

LEMMA ScanType ==
  ASSUME TypeOK, NEW ip \in IPs
  PROVE  IsFirstLeast(ip, ScanLoop(ip)) /\ ScanLoop(ip) \in Indices
BY KeyType, ScanLoopIsFirstLeast DEF TypeOK, Load, IsFirstLeast

LEMMA NextIP ==
  ASSUME TypeOK, Dialling
  PROVE  remoteIPs[dialled + 1] \in IPs /\ Len(remoteIPs) \in Nat
BY RemoteIPsAssumption DEF TypeOK, Dialling

LEMMA TypeInit == PoolInit => TypeOK
<1> SUFFICES ASSUME PoolInit PROVE TypeOK
  OBVIOUS
<1>1. Len(remoteIPs) \in Nat /\ 0 \in Indices
  BY RemoteIPsAssumption, SessionCountAssumption DEF Indices
<1>2. dialled \in 0 .. Len(remoteIPs) /\ idx \in Indices
  BY <1>1 DEF PoolInit
<1>3. phase \in {"init", "up", "exited"} /\ retrying \in BOOLEAN /\ gClientMap \subseteq Keys
  BY DEF PoolInit
<1>4. gClientSession \in [Keys -> Nat] /\ cl \in [Callers -> Keys \cup {NoClient}]
  BY DEF PoolInit
<1> QED BY <1>2, <1>3, <1>4 DEF TypeOK

\* Release needs Conservation: a connection in use has at least one session.
LEMMA TypeStep == TypeOK /\ Conservation /\ [Next]_vars => TypeOK'
<1> SUFFICES ASSUME TypeOK, Conservation, [Next]_vars
             PROVE  TypeOK'
  OBVIOUS
<1> USE RemoteIPsAssumption, SessionCountAssumption
<1>1. CASE DialOk
  <2>1. /\ remoteIPs[dialled + 1] \in IPs
        /\ Len(remoteIPs) \in Nat
    BY <1>1, NextIP DEF DialOk
  <2>2. gClientMap' \subseteq Keys
    BY <1>1, <2>1, KeyType DEF DialOk, TypeOK
  <2>3. idx' \in Indices /\ dialled' \in 0 .. Len(remoteIPs)
    BY <1>1, <2>1 DEF DialOk, Dialling, TypeOK, Indices
  <2> QED BY <1>1, <2>2, <2>3 DEF DialOk, TypeOK
<1>2. CASE DialFail \/ DialFailAgain \/ InitDone
  BY <1>2 DEF DialFail, DialFailAgain, InitDone, TypeOK
<1>3. ASSUME NEW g \in Callers, NEW ip \in IPs, Alloc(g, ip)
      PROVE  TypeOK'
  BY <1>3, KeyType, ScanType DEF Alloc, TypeOK, initVars
<1>4. ASSUME NEW g \in Callers, Release(g)
      PROVE  TypeOK'
  <2>1. cl[g] \in Keys
    BY <1>4 DEF Release, TypeOK
  <2>2. IsFiniteSet(Users(cl[g])) /\ g \in Users(cl[g])
    BY CallersAssumption, FS_Subset, Users(cl[g]) \in SUBSET Callers DEF Users
  <2>3. gClientSession[cl[g]] \in Nat \ {0}
    BY <2>1, <2>2, FS_EmptySet DEF Conservation, TypeOK
  <2> QED BY <1>4, <2>1, <2>3 DEF Release, TypeOK, initVars
<1>5. CASE UNCHANGED vars
  BY <1>5 DEF vars, TypeOK
<1> QED BY <1>1, <1>2, <1>3, <1>4, <1>5 DEF Next

LEMMA ConservationInit == PoolInit => Conservation
<1> SUFFICES ASSUME PoolInit, NEW k \in Keys PROVE gClientSession[k] = Cardinality(Users(k))
  BY DEF Conservation
<1>1. Users(k) = {}
  BY NoClientAssumption DEF PoolInit, Users
<1> QED BY <1>1, FS_EmptySet DEF PoolInit

LEMMA ConservationStep == TypeOK /\ Conservation /\ [Next]_vars => Conservation'
<1> SUFFICES ASSUME TypeOK, Conservation, [Next]_vars, NEW k \in Keys
             PROVE  gClientSession'[k] = Cardinality(Users(k)')
  BY DEF Conservation
<1>0. IsFiniteSet(Users(k)) /\ gClientSession[k] = Cardinality(Users(k))
  BY CallersAssumption, FS_Subset, Users(k) \in SUBSET Callers
  DEF Users, Conservation
<1>1. CASE UNCHANGED <<gClientSession, cl>>
  BY <1>1, <1>0 DEF Users
<1>2. ASSUME NEW g \in Callers, NEW ip \in IPs, Alloc(g, ip)
      PROVE  gClientSession'[k] = Cardinality(Users(k)')
  <2>1. PICK i \in Indices :
          /\ gClientSession' = [gClientSession EXCEPT ![clientKey(ip, i)] = @ + 1]
          /\ cl' = [cl EXCEPT ![g] = clientKey(ip, i)]
    BY <1>2, ScanType DEF Alloc
  <2>2. cl[g] = NoClient /\ k # NoClient
    BY <1>2, NoClientAssumption DEF Alloc
  <2>3. CASE k = clientKey(ip, i)
    <3>1. Users(k)' = Users(k) \cup {g} /\ g \notin Users(k)
      BY <2>1, <2>2, <2>3 DEF Users, TypeOK
    <3>2. Cardinality(Users(k) \cup {g}) = Cardinality(Users(k)) + 1
      BY <3>1, <1>0, FS_AddElement
    <3> QED BY <3>1, <3>2, <2>1, <2>3, <1>0 DEF TypeOK
  <2>4. CASE k # clientKey(ip, i)
    <3>1. Users(k)' = Users(k)
      BY <2>1, <2>2, <2>4 DEF Users, TypeOK
    <3> QED BY <3>1, <2>1, <2>4, <1>0 DEF TypeOK
  <2> QED BY <2>3, <2>4
<1>3. ASSUME NEW g \in Callers, Release(g)
      PROVE  gClientSession'[k] = Cardinality(Users(k)')
  <2>1. cl[g] \in Keys /\ k # NoClient
    BY <1>3, NoClientAssumption DEF Release, TypeOK
  <2>2. CASE k = cl[g]
    <3>1. Users(k)' = Users(k) \ {g} /\ g \in Users(k)
      BY <1>3, <2>1, <2>2 DEF Release, Users, TypeOK
    <3>2. Cardinality(Users(k) \ {g}) = Cardinality(Users(k)) - 1
      BY <3>1, <1>0, FS_RemoveElement
    <3> QED BY <3>1, <3>2, <1>3, <2>2, <1>0 DEF Release, TypeOK
  <2>3. CASE k # cl[g]
    <3>1. Users(k)' = Users(k)
      BY <1>3, <2>1, <2>3 DEF Release, Users, TypeOK
    <3> QED BY <3>1, <1>3, <2>3, <1>0 DEF Release, TypeOK
  <2> QED BY <2>2, <2>3
<1> QED BY <1>1, <1>2, <1>3
        DEF Next, DialOk, DialFail, DialFailAgain, InitDone, vars

LEMMA DialledInit == PoolInit => DialledSoFar
<1> SUFFICES ASSUME PoolInit PROVE DialledSoFar
  OBVIOUS
<1>1. Len(remoteIPs) \in Nat
  BY RemoteIPsAssumption
<1> QED BY <1>1 DEF PoolInit, DialledSoFar, Indices

LEMMA DialledStep == TypeOK /\ DialledSoFar /\ [Next]_vars => DialledSoFar'
<1> SUFFICES ASSUME TypeOK, DialledSoFar, [Next]_vars
             PROVE  DialledSoFar'
  OBVIOUS
<1>0. Len(remoteIPs) \in Nat
  BY RemoteIPsAssumption
<1>1. CASE DialOk
  <2> USE <1>0, <1>1, SessionCountAssumption
  <2>1. gClientMap \subseteq gClientMap' /\ clientKey(remoteIPs[dialled + 1], idx) \in gClientMap'
    BY DEF DialOk
  <2>2. CASE idx + 1 < gMaxSessionCount
    BY <2>1, <2>2 DEF DialOk, Dialling, DialledSoFar, TypeOK, Indices
  <2>3. CASE ~(idx + 1 < gMaxSessionCount)
    <3>1. idx' = 0 /\ dialled' = dialled + 1 /\ idx = gMaxSessionCount - 1
      BY <2>3 DEF DialOk, TypeOK, Indices
    <3>2. \A i \in Indices : clientKey(remoteIPs[dialled + 1], i) \in gClientMap'
      BY <2>1, <3>1 DEF DialledSoFar, TypeOK, Indices
    <3>3. \A n \in 1 .. dialled' : n \in 1 .. dialled \/ n = dialled + 1
      BY <3>1 DEF TypeOK
    <3>4. \A n \in 1 .. dialled' : \A i \in Indices : clientKey(remoteIPs[n], i) \in gClientMap'
      BY <2>1, <3>2, <3>3 DEF DialledSoFar
    <3> QED BY <3>1, <3>4 DEF DialOk, Dialling, DialledSoFar, Indices
  <2> QED BY <2>2, <2>3
<1>2. CASE InitDone
  BY <1>2 DEF InitDone, DialledSoFar
<1>3. CASE DialFail \/ DialFailAgain
  BY <1>3 DEF DialFail, DialFailAgain, Dialling, DialledSoFar
<1>4. CASE UNCHANGED initVars
  BY <1>4 DEF initVars, DialledSoFar
<1> QED BY <1>1, <1>2, <1>3, <1>4 DEF Next, Alloc, Release, vars, initVars

-----------------------------------------------------------------------------
(* The load of a connection.                                               *)

LEMMA ProductMonotonic ==
  ASSUME NEW n \in Nat, NEW a \in Nat, NEW b \in Nat, a <= b
  PROVE  a * n <= b * n
<1>1. PICK d \in Nat : b = a + d
  <2>1. b - a \in Nat /\ b = a + (b - a)
    OBVIOUS
  <2> QED BY <2>1
<1>2. b * n = a * n + d * n /\ d * n \in Nat /\ a * n \in Nat
  BY <1>1
<1> QED BY <1>2

\* Every connection of the address carries at least the load of the one that
\* Alloc picks, and the goroutine that asks carries none.
LEMMA AllocBound ==
  ASSUME TypeOK, Conservation, NEW g \in Callers, NEW ip \in IPs,
         cl[g] = NoClient, NEW i \in Indices, IsFirstLeast(ip, i)
  PROVE  Load(ip, i) * gMaxSessionCount < Cardinality(Callers)
<1> DEFINE N == gMaxSessionCount
           m == Load(ip, i)
           A == Callers \ {g}
           U == [j \in 0 .. N-1 |-> Users(clientKey(ip, j))]
<1>1. /\ IsFiniteSet(A) /\ Cardinality(A) = Cardinality(Callers) - 1
      /\ Cardinality(Callers) \in Nat
  BY CallersAssumption, FS_RemoveElement, FS_CardinalityType
<1>2. N \in Nat /\ \A j \in 0 .. N-1 : j \in Indices /\ clientKey(ip, j) \in Keys
  BY SessionCountAssumption, KeyType DEF Indices
<1>3. m \in Nat
  BY KeyType DEF Load, TypeOK
<1>4. U \in [0 .. N-1 -> SUBSET A]
  BY <1>2, NoClientAssumption DEF Users
<1>5. \A j \in 0 .. N-1 : Cardinality(U[j]) >= m
  <2> TAKE j \in 0 .. N-1
  <2>1. U[j] = Users(clientKey(ip, j)) /\ Load(ip, j) \in Nat
    BY <1>2 DEF Load, TypeOK
  <2>2. Cardinality(U[j]) = Load(ip, j)
    BY <1>2, <2>1 DEF Conservation, Load
  <2>3. m <= Load(ip, j)
    BY <1>2 DEF IsFirstLeast
  <2> QED BY <1>3, <2>1, <2>2, <2>3
<1>6. \A j, l \in 0 .. N-1 : j # l => U[j] \cap U[l] = {}
  BY DEF Users, clientKey
<1>7. N * m <= Cardinality(A)
  <2> HIDE DEF N, m, A, U
  <2> QED BY <1>1, <1>2, <1>3, <1>4, <1>5, <1>6, DisjointSubsets
<1>8. N * m = m * N /\ N * m \in Nat
  BY <1>2, <1>3
<1>9. m * N < Cardinality(Callers)
  <2> HIDE DEF N, m, A
  <2> QED BY <1>1, <1>7, <1>8
<1> QED BY <1>9

LEMMA SpreadInit == PoolInit => SpreadBound
BY DEF PoolInit, SpreadBound

LEMMA SpreadStep == TypeOK /\ Conservation /\ SpreadBound /\ [Next]_vars => SpreadBound'
<1> SUFFICES ASSUME TypeOK, Conservation, SpreadBound, [Next]_vars,
                    NEW k \in Keys, gClientSession'[k] > 0
             PROVE  (gClientSession'[k] - 1) * gMaxSessionCount < Cardinality(Callers)
  BY DEF SpreadBound
<1>1. CASE gClientSession' = gClientSession
  BY <1>1 DEF SpreadBound
<1>2. ASSUME NEW g \in Callers, NEW ip \in IPs, Alloc(g, ip)
      PROVE  (gClientSession'[k] - 1) * gMaxSessionCount < Cardinality(Callers)
  <2>1. PICK i \in Indices :
          /\ IsFirstLeast(ip, i)
          /\ gClientSession' = [gClientSession EXCEPT ![clientKey(ip, i)] = @ + 1]
    BY <1>2, ScanType DEF Alloc
  <2>2. CASE k = clientKey(ip, i)
    <3>1. Load(ip, i) * gMaxSessionCount < Cardinality(Callers)
      BY <1>2, <2>1, AllocBound DEF Alloc
    <3>2. gClientSession'[k] - 1 = Load(ip, i)
      BY <2>1, <2>2 DEF Load, TypeOK
    <3> QED BY <3>1, <3>2
  <2>3. CASE k # clientKey(ip, i)
    <3>1. gClientSession'[k] = gClientSession[k]
      BY <2>1, <2>3 DEF TypeOK
    <3> QED BY <3>1 DEF SpreadBound
  <2> QED BY <2>2, <2>3
<1>3. ASSUME NEW g \in Callers, Release(g)
      PROVE  (gClientSession'[k] - 1) * gMaxSessionCount < Cardinality(Callers)
  <2> DEFINE old == gClientSession[k]
             new == gClientSession'[k]
  <2>1. old \in Nat /\ new \in Nat /\ new <= old /\ new > 0
    <3>1. gClientSession' \in [Keys -> Nat]
      BY TypeStep DEF TypeOK
    <3>2. gClientSession' = [gClientSession EXCEPT ![cl[g]] = @ - 1]
      BY <1>3 DEF Release
    <3>3. new = old \/ new = old - 1
      BY <3>2 DEF TypeOK
    <3> QED BY <3>1, <3>3 DEF TypeOK
  <2>2. (old - 1) * gMaxSessionCount < Cardinality(Callers)
    BY <2>1 DEF SpreadBound
  <2>3. /\ new - 1 \in Nat /\ old - 1 \in Nat /\ new - 1 <= old - 1
        /\ gMaxSessionCount \in Nat
        /\ Cardinality(Callers) \in Nat
    BY <2>1, SessionCountAssumption, CallersAssumption, FS_CardinalityType
  <2> HIDE DEF old, new
  <2>4. (new - 1) * gMaxSessionCount <= (old - 1) * gMaxSessionCount
    BY <2>3, ProductMonotonic
  <2>5. (new - 1) * gMaxSessionCount \in Nat /\ (old - 1) * gMaxSessionCount \in Nat
    BY <2>3
  <2>6. (new - 1) * gMaxSessionCount < Cardinality(Callers)
    BY <2>2, <2>3, <2>4, <2>5
  <2> QED BY <2>6 DEF new
<1> QED BY <1>1, <1>2, <1>3
        DEF Next, DialOk, DialFail, DialFailAgain, InitDone, vars

-----------------------------------------------------------------------------
(* The theorems.                                                           *)

\* What the pool maintains, and why: Release decrements a session that
\* Conservation says is there, and the load bound counts the sessions.
PoolInv == TypeOK /\ Conservation /\ DialledSoFar /\ SpreadBound

LEMMA PoolInvariant == Spec => []PoolInv
<1>1. PoolInit => PoolInv
  BY TypeInit, ConservationInit, DialledInit, SpreadInit DEF PoolInv
<1>2. PoolInv /\ [Next]_vars => PoolInv'
  BY TypeStep, ConservationStep, DialledStep, SpreadStep DEF PoolInv
<1> QED BY <1>1, <1>2, PTL DEF Spec

\* Whatever the addresses, the pool size and the goroutines of remote.go, the
\* variables keep their types; in particular no session count is negative.
THEOREM PoolTypes == Spec => []TypeOK
BY PoolInvariant, PTL DEF PoolInv

\* gClientSession (l.18) counts exactly the goroutines between allocClient and
\* releaseClient, for every interleaving of any number of them.
THEOREM SessionsConserved == Spec => []Conservation
BY PoolInvariant, PTL DEF PoolInv

\* The loop of allocClient (l.52-63) returns the least loaded client of lowest
\* index, for every pool size.
THEOREM LoopPicksFirstLeast == Spec => []ScanAgrees
<1>1. TypeOK => ScanAgrees
  BY ScanType DEF ScanAgrees
<1> QED BY <1>1, PoolTypes, PTL

\* allocClient (l.47-67) never loads a connection beyond the even spread.
THEOREM LoadBounded == Spec => []SpreadBound
BY PoolInvariant, PTL DEF PoolInv

\* After Init (l.22-41) every client of every configured address exists.
THEOREM PoolComplete == Spec => []NoMissing
<1>1. PoolInv => NoMissing
  BY DEF PoolInv, DialledSoFar, NoMissing
<1> QED BY <1>1, PoolInvariant, PTL
=============================================================================
