----------------------------- MODULE DummyAdds -----------------------------
(***************************************************************************)
(* src/dummy-adds/dummy-adds.go answers every request with the name of an  *)
(* advertisement: one that caches hold, or, for a share of the requests,   *)
(* one they miss.  Requests are served side by side; what they share is    *)
(* three counters, each of them changed by one atomic instruction, but     *)
(* between the first and the second of a request others come in.           *)
(*                                                                         *)
(* Left out: the template of the answer, the delay before it.              *)
(***************************************************************************)
EXTENDS Integers, Sequences, FiniteSets

CONSTANTS
  Handlers,           \* goroutines that serve requests
  MissRates,          \* values of -cache-miss-rate
  Width,              \* values of a counter (2^32 in the code)
  HitNames,           \* hit names are taken from a ring of this size (10000)
  MissNames,          \* and miss names from one of this size (1000)
  MaxRequests         \* bound: the requests served

RatesAssumption == MissRates \subseteq Int
SizesAssumption ==
  /\ Width \in Nat \ {0} /\ HitNames \in Nat \ {0} /\ MissNames \in Nat \ {0}
  /\ MaxRequests \in Nat

Kinds == {"hit", "miss"}
Ring(kind) == IF kind = "hit" THEN HitNames ELSE MissNames

VARIABLES
  missRate,
  advIdx,
  idx,                \* idx[kind]: hitIdx and missIdx
  pc,                 \* pc[h]: "idle", or the kind of name it has to take
  \* history
  served,             \* the requests so far
  panics,             \* those that ended in a division by zero
  taken               \* taken[kind]: the numbers behind the names, in order

vars == <<missRate, advIdx, idx, pc, served, panics, taken>>

TypeOK ==
  /\ missRate \in MissRates
  /\ advIdx \in 0 .. Width - 1 /\ idx \in [Kinds -> 0 .. Width - 1]
  /\ pc \in [Handlers -> {"idle"} \cup Kinds]
  /\ served \in 0 .. MaxRequests /\ panics \in 0 .. served
  /\ taken \in [Kinds -> Seq(0 .. Width - 1)]

Init ==
  /\ missRate \in MissRates
  /\ advIdx = 0 /\ idx = [k \in Kinds |-> 0]
  /\ pc = [h \in Handlers |-> "idle"]
  /\ served = 0 /\ panics = 0 /\ taken = [k \in Kinds |-> <<>>]

-----------------------------------------------------------------------------
\* Every Period-th request is a miss, by integer division of Go, and none is one
\* without a rate.
Period == 100 \div missRate
MissAt(n) == missRate > 0 /\ n % Period = 0

\* MyHandler up to its choice.  A rate above 100 makes the period 0, and the
\* remainder panics, which ends this request only.
Begin(h) ==
  /\ pc[h] = "idle" /\ served < MaxRequests
  /\ served' = served + 1
  /\ advIdx' = (advIdx + 1) % Width
  /\ IF missRate > 0 /\ Period = 0
     THEN panics' = panics + 1 /\ UNCHANGED pc
     ELSE /\ pc' = [pc EXCEPT ![h] = IF MissAt(advIdx') THEN "miss" ELSE "hit"]
          /\ UNCHANGED panics
  /\ UNCHANGED <<missRate, idx, taken>>

\* Mutant: load and store are two steps, and an increment may be lost.
TakeNameUnlocked(h) ==
  /\ pc[h] \in Kinds
  /\ LET n == (idx[pc[h]] + 1) % Width IN
       /\ idx' \in {[idx EXCEPT ![pc[h]] = n]}
                    \cup {idx : g \in {g \in Handlers \ {h} : pc[g] = pc[h]}}
       /\ taken' = [taken EXCEPT ![pc[h]] = Append(@, n)]
  /\ pc' = [pc EXCEPT ![h] = "idle"]
  /\ UNCHANGED <<missRate, advIdx, served, panics>>

\* advFileForHit or advFileForMiss.
TakeName(h) ==
  /\ pc[h] \in Kinds
  /\ LET n == (idx[pc[h]] + 1) % Width IN
       /\ idx' = [idx EXCEPT ![pc[h]] = n]
       /\ taken' = [taken EXCEPT ![pc[h]] = Append(@, n)]
  /\ pc' = [pc EXCEPT ![h] = "idle"]
  /\ UNCHANGED <<missRate, advIdx, served, panics>>

Next == \E h \in Handlers : Begin(h) \/ TakeName(h)

Spec == Init /\ [][Next]_vars

-----------------------------------------------------------------------------
(* Properties.                                                             *)

\* The name a number stands for: even and odd numbers have a prefix each.
Name(kind, n) == LET i == n % Ring(kind) IN <<i % 2, (i \div 2) + 1>>

\* Whatever the interleaving, a name is not given again before all others of
\* its kind were (l.35-53), except where the counter passes 2^32, which no ring
\* divides.
NamesRotate ==
  TypeOK /\ \A k \in Kinds : \A i, j \in 1 .. Len(taken[k]) :
    /\ i < j /\ j < i + Ring(k) /\ taken[k][i] < taken[k][j]
         => Name(k, taken[k][i]) # Name(k, taken[k][j])
    /\ i < j /\ taken[k][i] >= taken[k][j] => j - i >= Width - taken[k][i]

\* The misses so far: those who took a miss name and those who are about to.
MissesBegun ==
  Len(taken["miss"]) + Cardinality({h \in Handlers : pc[h] = "miss"})

\* A rate from 1 to 100 is a percentage of the requests (l.25): at no moment are
\* the misses a whole request behind it, and if the rate divides 100 they are not
\* ahead of it either; without a rate nobody misses.  The counters tell requests
\* apart (l.35, l.46, l.56), none is counted twice or left out, until advIdx
\* passes 2^32.
MissesCounted ==
  served < Width =>
    /\ missRate \in 1 .. 100 => 100 * MissesBegun > missRate * served - 100
    /\ missRate \in 1 .. 100 /\ 100 % missRate = 0 => 100 * MissesBegun <= missRate * served
    /\ missRate <= 0 => MissesBegun = 0

\* "cache miss rate (percent)" (l.25): with any percentage, the misses are that
\* many of a hundred requests, up to one.  l.59 rounds 100 / missRate down: 40
\* misses every other request, 60 every one.
RateIsPercent ==
  missRate \in 0 .. 100 /\ served < Width =>
    100 * MissesBegun - missRate * served \in -100 .. 100

\* Both of the above: what the counters say of the requests, however handlers
\* interleave.
RequestsCounted == NamesRotate /\ MissesCounted
=============================================================================
