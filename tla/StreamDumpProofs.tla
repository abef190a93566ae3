-------------------------- MODULE StreamDumpProofs --------------------------
(***************************************************************************)
(* Proofs about udp-server, multicast-dump and rtp-to-ts, for every size   *)
(* of a block, a header, a buffer and a file, and however often the file   *)
(* is sent: what the tools write down is the stream that was sent, round   *)
(* after round, if their flags agree, and after a whole block only then.   *)
(*                                                                         *)
(* The stream is what recursive functions compute (RtpToTs, FlattenSeq).   *)
(* A loop has an end, and one result only: with that each of them is known *)
(* by its first value and its step.                                        *)
(***************************************************************************)
EXTENDS StreamDump, Integers, SequenceTheorems, NaturalsInduction, WellFoundedInduction, TLAPS

-----------------------------------------------------------------------------
(* What a loop computes.                                                   *)

\* Induction over the natural numbers, for a set in the place of a predicate.
LEMMA NaturalInduction ==
  ASSUME NEW S, 0 \in S, \A n \in Nat : n \in S => n + 1 \in S
  PROVE  Nat \subseteq S
<1> DEFINE T == Nat \ S
           R == OpToRel(<, Nat)
<1> SUFFICES ASSUME T # {} PROVE FALSE
  OBVIOUS
<1>1. \E x \in T : \A y \in T : ~ (<<y, x>> \in R)
  <2>1. IsWellFoundedOn(R, Nat) /\ T \subseteq Nat
    BY NatLessThanWellFounded
  <2> HIDE DEF R, T
  <2> QED BY <2>1, WFMin
<1>2. R = {ss \in Nat \X Nat : ss[1] < ss[2]}
  BY DEF OpToRel
<1> HIDE DEF R
<1>3. PICK x \in T : \A y \in T : ~ (<<y, x>> \in R)
  BY <1>1
<1>4. x # 0 /\ x - 1 \in Nat /\ x - 1 \in S => x \in S
  <2>1. x # 0 /\ x \in Nat
    OBVIOUS
  <2>2. x - 1 \in Nat /\ (x - 1) + 1 = x
    BY <2>1
  <2> QED BY <2>1, <2>2
<1>5. <<x - 1, x>> \in R
  <2>1. x \in Nat /\ x - 1 < x
    OBVIOUS
  <2> QED BY <1>2, <1>4, <2>1
<1>6. x - 1 \notin T
  BY <1>3, <1>5
<1> QED BY <1>4, <1>6

\* f holds what a loop has computed after each number from lo to hi: base, and
\* then the value of step for the number and what there was before.
Loop(f, lo, hi, base, step, S) ==
  /\ f \in [lo .. hi -> S] /\ f[lo] = base
  /\ \A k \in lo .. hi : k > lo => f[k] = step[<<k, f[k - 1]>>]

\* A loop ends: there are such values.
LEMMA LoopEnds ==
  ASSUME NEW S, NEW lo \in Nat, NEW hi \in Nat, lo <= hi,
         NEW base \in S, NEW step \in [Nat \X S -> S]
  PROVE  \E f : Loop(f, lo, hi, base, step, S)
<1> DEFINE Ok == {n \in Nat : \E f : Loop(f, lo, lo + n, base, step, S)}
<1>1. 0 \in Ok
  <2>1. Loop([k \in lo .. lo |-> base], lo, lo + 0, base, step, S)
    BY DEF Loop
  <2> QED BY <2>1
<1>2. ASSUME NEW n \in Nat, n \in Ok
      PROVE  n + 1 \in Ok
  <2>1. PICK f : Loop(f, lo, lo + n, base, step, S)
    BY <1>2
  <2> DEFINE new == step[<<lo + n + 1, f[lo + n]>>]
             g == [k \in lo .. lo + n + 1 |-> IF k <= lo + n THEN f[k] ELSE new]
  <2>2. f \in [lo .. lo + n -> S] /\ f[lo] = base
    BY <2>1 DEF Loop
  <2>3. new \in S
    BY <2>2
  <2>4. g \in [lo .. lo + n + 1 -> S] /\ g[lo] = base
    BY <2>2, <2>3
  <2>5. ASSUME NEW k \in lo .. lo + n + 1, k > lo
        PROVE  g[k] = step[<<k, g[k - 1]>>]
    <3>1. k - 1 \in lo .. lo + n /\ g[k - 1] = f[k - 1]
      BY <2>5
    <3>2. CASE k <= lo + n
      BY <2>1, <2>5, <3>1, <3>2 DEF Loop
    <3>3. CASE k = lo + n + 1
      <4>1. k - 1 = lo + n /\ ~ (k <= lo + n)
        BY <3>3
      <4>2. g[k] = new
        BY <4>1
      <4> HIDE DEF g
      <4> QED BY <3>1, <3>3, <4>1, <4>2
    <3> QED BY <3>2, <3>3
  <2>6. Loop(g, lo, lo + (n + 1), base, step, S)
    <3> HIDE DEF g
    <3>1. lo + (n + 1) = lo + n + 1
      OBVIOUS
    <3> QED BY <2>4, <2>5, <3>1 DEF Loop
  <2> HIDE DEF g
  <2> QED BY <2>6
<1>3. Nat \subseteq Ok
  <2> HIDE DEF Ok
  <2> QED BY <1>1, <1>2, NaturalInduction
<1>4. hi - lo \in Ok /\ lo + (hi - lo) = hi
  BY <1>3
<1> QED BY <1>4

\* g is computed by the same loop, for all one knows.
Meets(g, lo, hi, base, step, S) ==
  /\ g[lo] = base
  /\ \A k \in lo .. hi : k > lo /\ g[k - 1] \in S => g[k] = step[<<k, g[k - 1]>>]

\* Then it is no other one.
LEMMA LoopIsOne ==
  ASSUME NEW S, NEW lo, NEW hi, NEW base, NEW step, NEW f, NEW g, lo \in Nat, hi \in Nat,
         Loop(f, lo, hi, base, step, S), Meets(g, lo, hi, base, step, S)
  PROVE  \A k \in lo .. hi : g[k] = f[k]
<1> DEFINE Ok == {n \in Nat : lo + n <= hi => g[lo + n] = f[lo + n]}
<1>1. 0 \in Ok
  BY DEF Loop, Meets
<1>2. ASSUME NEW n \in Nat, n \in Ok
      PROVE  n + 1 \in Ok
  <2> SUFFICES ASSUME lo + (n + 1) <= hi
               PROVE  g[lo + (n + 1)] = f[lo + (n + 1)]
    OBVIOUS
  <2> DEFINE k == lo + (n + 1)
  <2>1. k \in lo .. hi /\ k > lo /\ k - 1 = lo + n /\ lo + n \in lo .. hi
    OBVIOUS
  <2>2. g[k - 1] = f[k - 1] /\ f[k - 1] \in S
    BY <1>2, <2>1 DEF Loop
  <2> HIDE DEF k
  <2>3. g[k] = f[k]
    BY <2>1, <2>2 DEF Loop, Meets
  <2> QED BY <2>3 DEF k
<1>3. Nat \subseteq Ok
  <2> HIDE DEF Ok
  <2> QED BY <1>1, <1>2, NaturalInduction
<1>4. ASSUME NEW k \in lo .. hi
      PROVE  g[k] = f[k]
  <2>1. k - lo \in Ok /\ lo + (k - lo) = k
    BY <1>3
  <2> QED BY <2>1
<1> QED BY <1>4

\* And a loop that goes less far does the same as far as it goes.
LEMMA LoopShorter ==
  ASSUME NEW S, NEW lo \in Nat, NEW hi \in Nat, NEW mid \in lo .. hi, NEW base, NEW step, NEW f,
         Loop(f, lo, hi, base, step, S)
  PROVE  Loop([k \in lo .. mid |-> f[k]], lo, mid, base, step, S)
<1> DEFINE g == [k \in lo .. mid |-> f[k]]
<1>1. g \in [lo .. mid -> S] /\ g[lo] = base
  BY DEF Loop
<1>2. ASSUME NEW k \in lo .. mid, k > lo
      PROVE  g[k] = step[<<k, g[k - 1]>>]
  <2>1. k \in lo .. hi /\ k - 1 \in lo .. mid
    BY <1>2
  <2>2. f[k] = step[<<k, f[k - 1]>>]
    BY <1>2, <2>1 DEF Loop
  <2> QED BY <2>1, <2>2
<1> HIDE DEF g
<1>3. Loop(g, lo, mid, base, step, S)
  BY <1>1, <1>2 DEF Loop
<1> QED BY <1>3 DEF g

-----------------------------------------------------------------------------
(* From a stream file back into a file.                                    *)

LEMMA FunctionIsSeq ==
  ASSUME NEW S, NEW n \in Nat, NEW f \in [1 .. n -> S]
  PROVE  f \in Seq(S) /\ Len(f) = n
<1>1. f \in Seq(S)
  BY SeqDef
<1>2. DOMAIN f = 1 .. Len(f) /\ Len(f) \in Nat
  BY <1>1, LenProperties
<1> QED BY <1>1, <1>2

LEMMA Laps ==
  ASSUME NEW W \in Nat, W > 0, NEW x \in Nat
  PROVE  /\ x = W * (x \div W) + (x % W)
         /\ x \div W \in Nat /\ x % W \in 0 .. W - 1
OBVIOUS

LEMMA LapsAre ==
  ASSUME NEW W \in Nat, W > 0, NEW q \in Nat, NEW r \in 0 .. W - 1
  PROVE  (W * q + r) % W = r /\ (W * q + r) \div W = q
OBVIOUS

Joined(x, y) == x \o y

Joins(step, s, n, S) ==
  /\ step \in [Nat \X S -> S]
  /\ \A k \in 1 .. n, x \in S : step[<<k, x>>] = Joined(x, s[k])

\* FlattenSeq is a loop.
LEMMA FlattenIsLoop ==
  ASSUME NEW S, NEW n, n \in Nat, n >= 1, NEW s, Len(s) = n, s[1] \in S,
         NEW step, Joins(step, s, n, S),
         NEW f, Loop(f, 1, n, s[1], step, S)
  PROVE  FlattenSeq(s) = f[n]
<1> DEFINE Sol(g) == g = [k \in 1 .. n |-> IF k = 1 THEN s[k] ELSE Joined(g[k - 1], s[k])]
           flatten == CHOOSE g : Sol(g)
<1>1. FlattenSeq(s) = flatten[n]
  BY DEF FlattenSeq, Joined
<1>2. Sol(f)
  <2>1. f \in [1 .. n -> S] /\ f[1] = s[1]
    BY DEF Loop
  <2>2. \A k \in 1 .. n : f[k] = IF k = 1 THEN s[k] ELSE Joined(f[k - 1], s[k])
    <3> SUFFICES ASSUME NEW k \in 1 .. n, k > 1
                 PROVE  f[k] = Joined(f[k - 1], s[k])
      BY <2>1
    <3>1. f[k - 1] \in S
      BY <2>1
    <3>2. f[k] = step[<<k, f[k - 1]>>]
      BY DEF Loop
    <3> QED BY <3>1, <3>2 DEF Joins
  <2> QED BY <2>1, <2>2
<1>3. Sol(flatten)
  <2> HIDE DEF Sol
  <2> QED BY <1>2
<1> HIDE DEF flatten
<1>7. \A k \in 1 .. n : flatten[k] = IF k = 1 THEN s[k] ELSE Joined(flatten[k - 1], s[k])
  BY <1>3
<1> HIDE DEF Sol
<1>4. flatten[1] = s[1]
  BY <1>7
<1>5. ASSUME NEW k \in 1 .. n, k > 1, flatten[k - 1] \in S
      PROVE  flatten[k] = step[<<k, flatten[k - 1]>>]
  <2>1. flatten[k] = Joined(flatten[k - 1], s[k])
    BY <1>5, <1>7
  <2> QED BY <1>5, <2>1 DEF Joins
<1>6. \A k \in 1 .. n : flatten[k] = f[k]
  <2>1. Meets(flatten, 1, n, s[1], step, S)
    BY <1>4, <1>5 DEF Meets
  <2>2. 1 \in Nat
    OBVIOUS
  <2> QED BY <2>1, <2>2, LoopIsOne
<1> QED BY <1>1, <1>6

\* The step of that loop.
JoinTo(s, T) ==
  [x \in Nat \X Seq(T) |-> IF x[1] \in 1 .. Len(s) THEN Joined(x[2], s[x[1]]) ELSE x[2]]

LEMMA JoinIs ==
  ASSUME NEW T, NEW s \in Seq(Seq(T))
  PROVE  Joins(JoinTo(s, T), s, Len(s), Seq(T))
<1>0. Len(s) \in Nat /\ \A k \in 1 .. Len(s) : s[k] \in Seq(T)
  BY ElementOfSeq, LenProperties
<1>1. ASSUME NEW x \in Nat \X Seq(T)
      PROVE  (IF x[1] \in 1 .. Len(s) THEN Joined(x[2], s[x[1]]) ELSE x[2]) \in Seq(T)
  BY <1>0, ConcatProperties DEF Joined
<1>2. JoinTo(s, T) \in [Nat \X Seq(T) -> Seq(T)]
  BY <1>1 DEF JoinTo
<1>3. ASSUME NEW k \in 1 .. Len(s), NEW x \in Seq(T)
      PROVE  JoinTo(s, T)[<<k, x>>] = Joined(x, s[k])
  <2>1. <<k, x>> \in Nat \X Seq(T)
    BY <1>0
  <2> QED BY <2>1 DEF JoinTo
<1> QED BY <1>2, <1>3 DEF Joins

\* One sequence more behind what is flattened already.
LEMMA FlattenMore ==
  ASSUME NEW T, NEW s \in Seq(Seq(T)), NEW e \in Seq(T)
  PROVE  /\ FlattenSeq(s) \in Seq(T)
         /\ FlattenSeq(Append(s, e)) = FlattenSeq(s) \o e
<1> DEFINE n == Len(s)
           t == Append(s, e)
<1>0. /\ n \in Nat /\ Len(t) = n + 1 /\ t \in Seq(Seq(T))
      /\ t[n + 1] = e /\ \A k \in 1 .. n : t[k] = s[k] /\ s[k] \in Seq(T)
  BY AppendProperties, ElementOfSeq, LenProperties
<1> HIDE DEF n, t
<1> DEFINE step == JoinTo(t, T)
<1>1. Joins(step, t, n + 1, Seq(T)) /\ step \in [Nat \X Seq(T) -> Seq(T)]
  <2>1. Joins(step, t, Len(t), Seq(T))
    BY <1>0, JoinIs
  <2> QED BY <1>0, <2>1 DEF Joins
<1> HIDE DEF step
<1>2. t[1] \in Seq(T)
  BY <1>0
<1>3. PICK f : Loop(f, 1, n + 1, t[1], step, Seq(T))
  <2>1. 1 \in Nat /\ n + 1 \in Nat /\ 1 <= n + 1
    BY ONLY <1>0
  <2> QED BY ONLY <1>1, <1>2, <2>1, LoopEnds
<1>4. FlattenSeq(t) = f[n + 1]
  <2>1. n + 1 \in Nat /\ n + 1 >= 1 /\ Len(t) = n + 1
    BY ONLY <1>0
  <2> DEFINE m == n + 1
             S == Seq(T)
  <2>2. /\ m \in Nat /\ m >= 1 /\ Len(t) = m /\ t[1] \in S
        /\ Joins(step, t, m, S) /\ Loop(f, 1, m, t[1], step, S)
    BY ONLY <1>1, <1>2, <1>3, <2>1
  <2> HIDE DEF m, S
  <2>3. FlattenSeq(t) = f[m]
    BY ONLY <2>2, FlattenIsLoop
  <2> QED BY ONLY <2>3 DEF m
<1>5. CASE n = 0
  <2>1. FlattenSeq(s) = s /\ s = <<>>
    BY <1>5, EmptySeq DEF n, FlattenSeq
  <2>2. f[n + 1] = e
    BY <1>0, <1>3, <1>5 DEF Loop
  <2>3. <<>> \o e = e /\ <<>> \in Seq(T)
    BY ConcatEmptySeq
  <2> QED BY <1>4, <2>1, <2>2, <2>3 DEF t
<1>6. CASE n # 0
  <2>0. n > 0 /\ n \in 1 .. n + 1 /\ n + 1 \in 1 .. n + 1 /\ n + 1 > 1 /\ (n + 1) - 1 = n
    BY <1>0, <1>6
  <2> DEFINE g == [k \in 1 .. n |-> f[k]]
  <2>1. f \in [1 .. n + 1 -> Seq(T)]
    BY <1>3 DEF Loop
  <2>2. Loop(g, 1, n, s[1], step, Seq(T))
    <3>1. Loop(g, 1, n, t[1], step, Seq(T))
      BY <1>0, <1>3, <2>0, LoopShorter
    <3>2. t[1] = s[1]
      BY <1>0, <2>0
    <3> QED BY ONLY <3>1, <3>2
  <2>3. g[n] = f[n]
    BY <2>0
  <2> HIDE DEF g
  <2>4. Joins(step, s, n, Seq(T))
    <3>1. ASSUME NEW k \in 1 .. n, NEW x \in Seq(T)
          PROVE  step[<<k, x>>] = Joined(x, s[k])
      <4>1. k \in 1 .. n + 1 /\ t[k] = s[k]
        BY <1>0
      <4> QED BY <1>1, <4>1 DEF Joins
    <3> QED BY <1>1, <3>1 DEF Joins
  <2>5. FlattenSeq(s) = g[n]
    <3> DEFINE S == Seq(T)
    <3>1. /\ n \in Nat /\ n >= 1 /\ Len(s) = n /\ s[1] \in S
          /\ Joins(step, s, n, S) /\ Loop(g, 1, n, s[1], step, S)
      BY ONLY <1>0, <2>0, <2>2, <2>4 DEF n
    <3> HIDE DEF S
    <3> QED BY ONLY <3>1, FlattenIsLoop
  <2>6. f[n] \in Seq(T)
    BY <2>0, <2>1
  <2>7. f[n + 1] = step[<<n + 1, f[n]>>]
    BY <1>3, <2>0 DEF Loop
  <2>8. f[n + 1] = f[n] \o e
    BY <1>0, <1>1, <2>0, <2>6, <2>7 DEF Joined, Joins
  <2> QED BY <1>4, <2>3, <2>5, <2>6, <2>8 DEF t
<1> QED BY <1>5, <1>6

\* The step of rtp-to-ts: a byte of a header is dropped.
KeepFrom(from) ==
  [x \in Nat \X Seq(Nat) |->
     IF (x[1] - from - 1) % (Ts + Header) < Header THEN x[2] ELSE Append(x[2], x[1])]

LEMMA KeepIs ==
  ASSUME NEW from \in Nat
  PROVE  /\ KeepFrom(from) \in [Nat \X Seq(Nat) -> Seq(Nat)]
         /\ \A k \in Nat, x \in Seq(Nat) :
              KeepFrom(from)[<<k, x>>] =
                IF (k - from - 1) % (Ts + Header) < Header THEN x ELSE Append(x, k)
<1>1. ASSUME NEW x \in Nat \X Seq(Nat)
      PROVE  (IF (x[1] - from - 1) % (Ts + Header) < Header THEN x[2] ELSE Append(x[2], x[1]))
               \in Seq(Nat)
  <2>1. x[1] \in Nat /\ x[2] \in Seq(Nat)
    OBVIOUS
  <2>2. Append(x[2], x[1]) \in Seq(Nat)
    BY <2>1, AppendProperties
  <2> QED BY <2>1, <2>2
<1>2. KeepFrom(from) \in [Nat \X Seq(Nat) -> Seq(Nat)]
  BY <1>1 DEF KeepFrom
<1>3. ASSUME NEW k \in Nat, NEW x \in Seq(Nat)
      PROVE  KeepFrom(from)[<<k, x>>] =
               IF (k - from - 1) % (Ts + Header) < Header THEN x ELSE Append(x, k)
  <2>1. <<k, x>> \in Nat \X Seq(Nat)
    OBVIOUS
  <2> QED BY <2>1 DEF KeepFrom
<1> QED BY <1>2, <1>3

\* The loop of rtp-to-ts.
LEMMA RtpIsLoop ==
  ASSUME NEW from \in Nat, NEW to \in Nat, from <= to,
         NEW f, Loop(f, from, to, <<>>, KeepFrom(from), Seq(Nat))
  PROVE  RtpToTs(from, to) = f[to]
<1> DEFINE Drop(k) == (k - from - 1) % (Ts + Header) < Header
           Sol(g) == g = [k \in from .. to |->
                            IF k = from THEN <<>>
                            ELSE IF Drop(k) THEN g[k - 1] ELSE Append(g[k - 1], k)]
           keep == CHOOSE g : Sol(g)
           step == KeepFrom(from)
<1>1. RtpToTs(from, to) = keep[to]
  BY DEF RtpToTs
<1> HIDE DEF Drop, step
<1>0. \A k \in Nat, x \in Seq(Nat) : step[<<k, x>>] = IF Drop(k) THEN x ELSE Append(x, k)
  BY KeepIs DEF step, Drop
<1>2. Sol(f)
  <2>1. f \in [from .. to -> Seq(Nat)] /\ f[from] = <<>>
    BY DEF Loop
  <2>2. ASSUME NEW k \in from .. to, k > from
        PROVE  f[k] = IF Drop(k) THEN f[k - 1] ELSE Append(f[k - 1], k)
    <3>1. f[k - 1] \in Seq(Nat) /\ k \in Nat
      BY <2>1, <2>2
    <3>2. f[k] = step[<<k, f[k - 1]>>]
      BY <2>2 DEF Loop, step
    <3> QED BY <1>0, <3>1, <3>2
  <2> QED BY <2>1, <2>2
<1>3. Sol(keep)
  <2> HIDE DEF Sol
  <2> QED BY <1>2
<1> HIDE DEF keep
<1>4. keep[from] = <<>>
  BY <1>3
<1>7. \A k \in from .. to : k # from =>
        keep[k] = IF Drop(k) THEN keep[k - 1] ELSE Append(keep[k - 1], k)
  BY <1>3
<1> HIDE DEF Sol
<1>5. ASSUME NEW k \in from .. to, k > from, keep[k - 1] \in Seq(Nat)
      PROVE  keep[k] = step[<<k, keep[k - 1]>>]
  <2>1. keep[k] = IF Drop(k) THEN keep[k - 1] ELSE Append(keep[k - 1], k)
    <3>1. k # from
      BY <1>5
    <3> QED BY <1>7, <3>1
  <2>2. k \in Nat
    OBVIOUS
  <2> QED BY <1>0, <1>5, <2>1, <2>2
<1>6. \A k \in from .. to : keep[k] = f[k]
  <2>1. Meets(keep, from, to, <<>>, step, Seq(Nat))
    BY <1>4, <1>5 DEF Meets
  <2> QED BY <2>1, LoopIsOne DEF step
<1> QED BY <1>1, <1>6

\* What rtp-to-ts does to one byte more.
LEMMA RtpMore ==
  ASSUME SizesAssumption, NEW from \in Nat, NEW p \in Nat, from <= p
  PROVE  /\ RtpToTs(from, from) = <<>>
         /\ RtpToTs(from, p) \in Seq(Nat)
         /\ RtpToTs(from, p + 1) =
              IF (p - from) % (Ts + Header) < Header THEN RtpToTs(from, p)
              ELSE Append(RtpToTs(from, p), p + 1)
<1> DEFINE step == KeepFrom(from)
           S == Seq(Nat)
<1>0. step \in [Nat \X S -> S] /\ <<>> \in S
  BY KeepIs, EmptySeq
<1> HIDE DEF step, S
<1>1. PICK f : Loop(f, from, p + 1, <<>>, step, S)
  <2>1. p + 1 \in Nat /\ from <= p + 1
    OBVIOUS
  <2> QED BY <1>0, <2>1, LoopEnds
<1>2. ASSUME NEW q \in from .. p + 1
      PROVE  RtpToTs(from, q) = f[q]
  <2> DEFINE g == [k \in from .. q |-> f[k]]
  <2>1. Loop(g, from, q, <<>>, step, S)
    BY <1>1, LoopShorter
  <2>2. g[q] = f[q]
    OBVIOUS
  <2> HIDE DEF g
  <2>3. q \in Nat /\ from <= q
    OBVIOUS
  <2> QED BY <2>1, <2>2, <2>3, RtpIsLoop DEF step, S
<1>3. f \in [from .. p + 1 -> S] /\ f[from] = <<>> /\ f[p + 1] = step[<<p + 1, f[p]>>]
  BY <1>1 DEF Loop
<1>4. f[p] \in S /\ p + 1 \in Nat /\ (p + 1) - from - 1 = p - from
  BY <1>3
<1>5. f[p + 1] = IF (p - from) % (Ts + Header) < Header THEN f[p] ELSE Append(f[p], p + 1)
  <2>1. step[<<p + 1, f[p]>>] =
          IF ((p + 1) - from - 1) % (Ts + Header) < Header THEN f[p] ELSE Append(f[p], p + 1)
    BY <1>4, KeepIs DEF step, S
  <2> QED BY ONLY <1>3, <1>4, <2>1
<1>6. from \in from .. p + 1 /\ p \in from .. p + 1 /\ p + 1 \in from .. p + 1
  OBVIOUS
<1> QED BY <1>2, <1>3, <1>4, <1>5, <1>6 DEF S

\* n bytes of the file behind the first p ones, as they are in the stream, if a
\* block begins there.
Piece(p, n) ==
  LET h == IF kind = "rtp" THEN Header ELSE 0
  IN [k \in 1 .. (IF n > h THEN n - h ELSE 0) |-> p + h + k]

LEMMA DumpSizes ==
  ASSUME SizesAssumption, kind \in Kinds
  PROVE  /\ Header \in Nat /\ Small \in Nat /\ Ts \in Nat /\ Wide \in Nat
         /\ MaxSize \in Nat /\ MaxOffset \in Nat /\ MaxRounds \in Nat
         /\ 0 < Header /\ Header < Small /\ Small < Ts /\ Ts + Header < Wide
         /\ Block \in Nat /\ Block > Small /\ Block > Header
         /\ kind = "rtp" => Block = Ts + Header
         /\ kind # "rtp" => Block = Ts \/ Block = Wide
         /\ kind = "ts" => Block = Ts
BY DEF SizesAssumption, Block, Kinds

LEMMA PieceIs ==
  ASSUME SizesAssumption, NEW p, NEW n, p \in Nat, n \in Nat
  PROVE  /\ Piece(p, n) \in Seq(Nat)
         /\ kind # "rtp" => /\ Len(Piece(p, n)) = n
                            /\ \A k \in 1 .. n : Piece(p, n)[k] = p + k
         /\ kind = "rtp" => /\ Len(Piece(p, n)) = IF n > Header THEN n - Header ELSE 0
                            /\ \A k \in 1 .. Len(Piece(p, n)) : Piece(p, n)[k] = p + Header + k
<1> DEFINE h == IF kind = "rtp" THEN Header ELSE 0
           m == IF n > h THEN n - h ELSE 0
<1>1. h \in Nat /\ m \in Nat
  BY DEF SizesAssumption
<1>2. Piece(p, n) = [k \in 1 .. m |-> p + h + k]
  BY DEF Piece
<1>3. kind # "rtp" => h = 0 /\ m = n
  OBVIOUS
<1>4. kind = "rtp" => h = Header /\ m = IF n > Header THEN n - Header ELSE 0
  OBVIOUS
<1> HIDE DEF h, m
<1>5. Piece(p, n) \in [1 .. m -> Nat] /\ \A k \in 1 .. m : Piece(p, n)[k] = p + h + k
  BY <1>1, <1>2
<1>6. Piece(p, n) \in Seq(Nat) /\ Len(Piece(p, n)) = m
  BY <1>1, <1>5, FunctionIsSeq
<1>7. kind # "rtp" => \A k \in 1 .. n : Piece(p, n)[k] = p + k
  BY <1>3, <1>5
<1>8. kind = "rtp" => \A k \in 1 .. Len(Piece(p, n)) : Piece(p, n)[k] = p + Header + k
  BY <1>4, <1>5, <1>6
<1> QED BY <1>3, <1>4, <1>6, <1>7, <1>8

LEMMA ModPlus ==
  ASSUME NEW b \in Nat, b > 0, NEW d \in Nat, d % b = 0, NEW n \in Nat, n < b
  PROVE  (d + n) % b = n
<1>1. d = b * (d \div b) + 0 /\ d \div b \in Nat
  <2>1. d = b * (d \div b) + (d % b) /\ d \div b \in Nat
    BY Laps
  <2> QED BY <2>1
<1>2. n \in 0 .. b - 1
  OBVIOUS
<1>3. (b * (d \div b) + n) % b = n
  BY <1>1, <1>2, LapsAre
<1>4. d + n = b * (d \div b) + n
  BY <1>1
<1> QED BY <1>3, <1>4

\* A block more of an RTP file, or a part of one, without its header.
LEMMA RtpGrows ==
  ASSUME SizesAssumption, kind = "rtp", NEW from \in Nat, NEW d \in Nat,
         d % (Ts + Header) = 0
  PROVE  \A n \in 0 .. Ts + Header :
           RtpToTs(from, from + d + n) = RtpToTs(from, from + d) \o Piece(from + d, n)
<1> DEFINE B == Ts + Header
           p == from + d
           Kept(n) == RtpToTs(from, p + n)
           Ok == {n \in Nat : n <= B => Kept(n) = Kept(0) \o Piece(p, n)}
<1>0. /\ Ts \in Nat /\ Header \in Nat /\ B \in Nat /\ B > 0 /\ p \in Nat /\ p + 0 = p
      /\ from <= p
  BY DEF SizesAssumption
<1> HIDE DEF B
<1>1. \A n \in Nat : Kept(n) \in Seq(Nat)
  <2> SUFFICES ASSUME NEW n \in Nat
               PROVE  Kept(n) \in Seq(Nat)
    OBVIOUS
  <2>1. p + n \in Nat /\ from <= p + n
    BY <1>0
  <2> QED BY <2>1, RtpMore
<1>2. 0 \in Ok
  <2>1. Piece(p, 0) \in Seq(Nat) /\ Len(Piece(p, 0)) = 0
    <3>1. p \in Nat /\ 0 \in Nat /\ ~ (0 > Header)
      BY <1>0
    <3> HIDE DEF p
    <3> QED BY <3>1, PieceIs
  <2>2. Piece(p, 0) = <<>>
    BY <2>1, EmptySeq
  <2>3. Kept(0) \o <<>> = Kept(0)
    BY <1>1, ConcatEmptySeq
  <2> HIDE DEF p
  <2> QED BY <2>2, <2>3
<1>3. ASSUME NEW n \in Nat, n \in Ok
      PROVE  n + 1 \in Ok
  <2> SUFFICES ASSUME n + 1 <= B
               PROVE  Kept(n + 1) = Kept(0) \o Piece(p, n + 1)
    OBVIOUS
  <2>1. n <= B /\ n < B /\ p + n \in Nat /\ from <= p + n /\ (p + n) - from = d + n
    BY <1>0
  <2>2. Kept(n) = Kept(0) \o Piece(p, n)
    BY <1>3, <2>1
  <2>3. (d + n) % B = n
    BY <1>0, <2>1, ModPlus DEF B
  <2>4. Kept(n + 1) = IF n < Header THEN Kept(n) ELSE Append(Kept(n), p + n + 1)
    <3>1. RtpToTs(from, (p + n) + 1) =
            IF ((p + n) - from) % (Ts + Header) < Header THEN RtpToTs(from, p + n)
            ELSE Append(RtpToTs(from, p + n), (p + n) + 1)
      BY <2>1, RtpMore
    <3>2. (p + n) + 1 = p + (n + 1) /\ (p + n) + 1 = p + n + 1
      BY <1>0
    <3> HIDE DEF p
    <3> QED BY ONLY <2>1, <2>3, <3>1, <3>2 DEF B
  <2> DEFINE q == Piece(p, n)
             r == Piece(p, n + 1)
  <2>5. /\ q \in Seq(Nat) /\ r \in Seq(Nat)
        /\ Len(q) = IF n > Header THEN n - Header ELSE 0
        /\ Len(r) = IF n + 1 > Header THEN n + 1 - Header ELSE 0
        /\ \A k \in 1 .. Len(q) : q[k] = p + Header + k
        /\ \A k \in 1 .. Len(r) : r[k] = p + Header + k
    <3>1. p \in Nat /\ n + 1 \in Nat
      BY <1>0
    <3> HIDE DEF p
    <3>2. /\ q \in Seq(Nat) /\ Len(q) = IF n > Header THEN n - Header ELSE 0
          /\ \A k \in 1 .. Len(q) : q[k] = p + Header + k
      BY <3>1, PieceIs
    <3>3. /\ r \in Seq(Nat) /\ Len(r) = IF n + 1 > Header THEN n + 1 - Header ELSE 0
          /\ \A k \in 1 .. Len(r) : r[k] = p + Header + k
      <4> DEFINE m == n + 1
      <4>1. m \in Nat
        BY <3>1
      <4>2. r = Piece(p, m)
        OBVIOUS
      <4> HIDE DEF m, r
      <4>3. /\ r \in Seq(Nat) /\ Len(r) = IF m > Header THEN m - Header ELSE 0
            /\ \A k \in 1 .. Len(r) : r[k] = p + Header + k
        BY <3>1, <4>1, <4>2, PieceIs
      <4> QED BY <1>0, <4>3 DEF m
    <3> HIDE DEF q, r
    <3> QED BY <3>2, <3>3
  <2> HIDE DEF q, r, p, Kept
  <2>6. CASE n < Header
    <3>1. Len(q) = 0 /\ Len(r) = 0
      BY <1>0, <2>5, <2>6
    <3>2. q = <<>> /\ r = <<>>
      BY <2>5, <3>1, EmptySeq
    <3> QED BY <2>2, <2>4, <2>6, <3>2 DEF q, r
  <2>7. CASE ~ (n < Header)
    <3>1. Len(q) = n - Header /\ Len(r) = Len(q) + 1 /\ Len(q) \in Nat
      BY <1>0, <2>5, <2>7
    <3>2. p + n + 1 \in Nat /\ p + n + 1 = p + Header + (Len(q) + 1)
      BY <1>0, <3>1
    <3>3. r = Append(q, p + n + 1)
      <4> DEFINE a == Append(q, p + n + 1)
      <4>1. /\ a \in Seq(Nat) /\ Len(a) = Len(q) + 1 /\ a[Len(q) + 1] = p + n + 1
            /\ \A k \in 1 .. Len(q) : a[k] = q[k]
        BY <2>5, <3>2, AppendProperties
      <4> HIDE DEF a
      <4>2. \A k \in 1 .. Len(r) : r[k] = a[k]
        <5> SUFFICES ASSUME NEW k \in 1 .. Len(r)
                     PROVE  r[k] = a[k]
          OBVIOUS
        <5>1. k \in 1 .. Len(q) \/ k = Len(q) + 1
          BY ONLY <3>1, k \in 1 .. Len(r)
        <5>2. CASE k \in 1 .. Len(q)
          BY <2>5, <4>1, <5>2
        <5>3. CASE k = Len(q) + 1
          <6>1. r[k] = p + Header + k
            BY <2>5
          <6> QED BY ONLY <3>2, <4>1, <5>3, <6>1
        <5> QED BY <5>1, <5>2, <5>3
      <4>3. r = a
        BY <2>5, <3>1, <4>1, <4>2, SeqEqual
      <4> QED BY <4>3 DEF a
    <3>4. Append(Kept(0) \o q, p + n + 1) = Kept(0) \o Append(q, p + n + 1)
      <4> DEFINE x == Kept(0)  e == p + n + 1  T == Nat
      <4>1. x \in Seq(T) /\ q \in Seq(T) /\ e \in T
        BY <1>1, <2>5, <3>2
      <4> HIDE DEF x, e, T
      <4>2. Append(x \o q, e) = x \o Append(q, e)
        BY ONLY <4>1
      <4> QED BY ONLY <4>2 DEF x, e
    <3>5. Kept(n + 1) = Append(Kept(n), p + n + 1)
      BY <2>4, <2>7
    <3> QED BY ONLY <2>2, <3>3, <3>4, <3>5 DEF q, r
  <2> QED BY <2>6, <2>7
<1>4. Nat \subseteq Ok
  <2> HIDE DEF Ok
  <2> QED BY <1>2, <1>3, NaturalInduction
<1>5. ASSUME NEW n \in 0 .. B
      PROVE  Kept(n) = Kept(0) \o Piece(p, n)
  <2>1. n \in Nat /\ n <= B
    BY <1>0
  <2>2. n \in Ok
    <3> HIDE DEF Ok
    <3> QED BY <1>4, <2>1
  <2> QED BY <2>1, <2>2
<1>6. Kept(0) = RtpToTs(from, from + d)
  BY <1>0
<1> QED BY <1>5, <1>6 DEF B

\* The numbers of bytes, for what is true of sequences of anything.
Bytes == Nat

\* The stream between two places, as sequence.
LEMMA StreamIs ==
  ASSUME SizesAssumption, kind \in Kinds, NEW from, NEW to, from \in Nat, to \in Nat
  PROVE  /\ Stream(from, to) \in Seq(Bytes)
         /\ from >= to => Stream(from, to) = <<>>
         /\ from <= to /\ kind = "rtp" => Stream(from, to) = RtpToTs(from, to)
         /\ from <= to /\ kind # "rtp" =>
              /\ Len(Stream(from, to)) = to - from
              /\ \A k \in 1 .. to - from : Stream(from, to)[k] = from + k
<1>1. CASE from >= to
  <2>1. Stream(from, to) = <<>>
    BY <1>1 DEF Stream
  <2>2. <<>> \in Seq(Bytes) /\ Len(<<>>) = 0
    BY EmptySeq
  <2>3. from <= to => from = to
    BY <1>1
  <2>4. RtpToTs(from, from) = <<>>
    BY RtpMore
  <2>5. from <= to => to - from = 0
    BY <1>1
  <2> QED BY <2>1, <2>2, <2>3, <2>4, <2>5
<1>2. CASE ~ (from >= to)
  <2>0. from < to /\ to - from \in Nat
    BY <1>2
  <2>1. CASE kind = "rtp"
    <3>1. Stream(from, to) = RtpToTs(from, to)
      BY <2>0, <1>2, <2>1 DEF Stream
    <3>2. RtpToTs(from, to) \in Seq(Bytes)
      BY <2>0, RtpMore DEF Bytes
    <3> QED BY <1>2, <2>1, <3>1, <3>2
  <2>2. CASE kind # "rtp"
    <3> DEFINE m == to - from
               f == [k \in 1 .. m |-> from + k]
    <3>1. Stream(from, to) = f
      BY <2>0, <1>2, <2>2 DEF Stream
    <3>2. m \in Nat /\ f \in [1 .. m -> Bytes] /\ \A k \in 1 .. m : f[k] = from + k
      BY <2>0 DEF Bytes
    <3> HIDE DEF f, m
    <3>3. f \in Seq(Bytes) /\ Len(f) = m
      BY <3>2, FunctionIsSeq
    <3> QED BY <1>2, <2>2, <3>1, <3>2, <3>3 DEF m
  <2> QED BY <2>1, <2>2
<1> QED BY <1>1, <1>2

\* A block more, or a part of one, behind whole blocks.
LEMMA StreamGrows ==
  ASSUME SizesAssumption, kind \in Kinds, NEW from \in Nat, NEW d \in Nat,
         d % Block = 0, NEW n \in 1 .. Block
  PROVE  /\ Piece(from + d, n) \in Seq(Bytes)
         /\ Stream(from, from + d + n) = Stream(from, from + d) \o Piece(from + d, n)
<1> DEFINE p == from + d
           x == Stream(from, p)
           y == Piece(p, n)
           z == Stream(from, p + n)
<1>0. /\ p \in Nat /\ n \in Nat /\ p + n \in Nat /\ from <= p /\ from <= p + n
      /\ p - from = d /\ (p + n) - from = d + n
  BY DumpSizes
<1> HIDE DEF p
<1>1. y \in Seq(Bytes)
  BY <1>0, PieceIs DEF Bytes
<1>2. x \in Seq(Bytes) /\ z \in Seq(Bytes)
  BY <1>0, StreamIs
<1>3. CASE kind = "rtp"
  <2>1. x = RtpToTs(from, p) /\ z = RtpToTs(from, p + n)
    BY <1>0, <1>3, StreamIs
  <2>2. d % (Ts + Header) = 0 /\ n \in 0 .. Ts + Header
    BY <1>3, DumpSizes
  <2>3. RtpToTs(from, p + n) = RtpToTs(from, p) \o y
    BY <1>3, <2>2, RtpGrows DEF p
  <2> HIDE DEF x, y, z
  <2> QED BY ONLY <1>1, <2>1, <2>3 DEF p, x, y, z
<1>4. CASE kind # "rtp"
  <2>1. Len(x) = d /\ \A k \in 1 .. d : x[k] = from + k
    BY <1>0, <1>4, StreamIs
  <2>2. Len(z) = d + n /\ \A k \in 1 .. d + n : z[k] = from + k
    BY <1>0, <1>4, StreamIs
  <2>3. Len(y) = n /\ \A k \in 1 .. n : y[k] = p + k
    BY <1>0, <1>4, PieceIs
  <2> HIDE DEF x, y, z
  <2>4. /\ x \o y \in Seq(Bytes) /\ Len(x \o y) = d + n
        /\ \A k \in 1 .. d + n : (x \o y)[k] = IF k <= d THEN x[k] ELSE y[k - d]
    <3>1. /\ x \o y \in Seq(Bytes) /\ Len(x \o y) = Len(x) + Len(y)
          /\ \A k \in 1 .. Len(x) + Len(y) :
               (x \o y)[k] = IF k <= Len(x) THEN x[k] ELSE y[k - Len(x)]
      BY ONLY <1>1, <1>2, ConcatProperties
    <3> QED BY ONLY <2>1, <2>3, <3>1
  <2>5. ASSUME NEW k \in 1 .. Len(z)
        PROVE  z[k] = (x \o y)[k]
    <3>0. k \in 1 .. d + n /\ z[k] = from + k
      BY <2>2
    <3>1. (x \o y)[k] = IF k <= d THEN x[k] ELSE y[k - d]
      BY <2>4, <3>0
    <3>2. CASE k <= d
      BY <2>1, <3>0, <3>1, <3>2
    <3>3. CASE ~ (k <= d)
      <4>1. k - d \in 1 .. n
        BY <1>0, <3>0, <3>3
      <4>2. y[k - d] = p + (k - d)
        BY <2>3, <4>1
      <4> QED BY <3>0, <3>1, <3>3, <4>2 DEF p
    <3> QED BY <3>2, <3>3
  <2>6. z = x \o y
    BY <1>2, <2>2, <2>4, <2>5, SeqEqual
  <2> QED BY ONLY <1>1, <2>6 DEF p, x, y, z
<1> QED BY <1>3, <1>4

\* What was sent: the rounds that are over, and this one so far.
Begun == IF rounds = 0 THEN first ELSE 0
Over == [k \in 1 .. rounds |-> Stream(IF k = 1 THEN first ELSE 0, size)]

LEMMA SentIs ==
  ASSUME SizesAssumption, TypeOK
  PROVE  /\ Over \in Seq(Seq(Bytes)) /\ Len(Over) = rounds
         /\ FlattenSeq(Over) \in Seq(Bytes)
         /\ Stream(Begun, pos) \in Seq(Bytes)
         /\ Sent \in Seq(Bytes)
         /\ Sent = FlattenSeq(Over) \o Stream(Begun, pos)
<1>0. /\ kind \in Kinds /\ rounds \in Nat /\ first \in Nat /\ size \in Nat /\ pos \in Nat
      /\ Begun \in Nat
  BY DumpSizes DEF TypeOK, Begun
<1>1. ASSUME NEW k \in 1 .. rounds
      PROVE  Stream(IF k = 1 THEN first ELSE 0, size) \in Seq(Bytes)
  <2> DEFINE from == IF k = 1 THEN first ELSE 0
  <2>1. from \in Nat
    BY <1>0
  <2> HIDE DEF from
  <2>2. Stream(from, size) \in Seq(Bytes)
    BY <1>0, <2>1, StreamIs
  <2> QED BY <2>2 DEF from
<1>2. Over \in [1 .. rounds -> Seq(Bytes)]
  BY <1>1 DEF Over
<1>3. Over \in Seq(Seq(Bytes)) /\ Len(Over) = rounds
  BY <1>0, <1>2, FunctionIsSeq
<1>4. FlattenSeq(Over) \in Seq(Bytes)
  <2>1. <<>> \in Seq(Bytes)
    BY EmptySeq
  <2> QED BY <1>3, <2>1, FlattenMore
<1>5. Stream(Begun, pos) \in Seq(Bytes)
  BY <1>0, StreamIs
<1>6. Sent = FlattenSeq(Over) \o Stream(Begun, pos)
  BY DEF Sent, Over, Begun
<1>7. Sent \in Seq(Bytes)
  <2> DEFINE x == FlattenSeq(Over)  y == Stream(Begun, pos)
  <2> HIDE DEF x, y
  <2>1. x \in Seq(Bytes) /\ y \in Seq(Bytes) /\ Sent = x \o y
    BY ONLY <1>4, <1>5, <1>6 DEF x, y
  <2> QED BY ONLY <2>1
<1> QED BY <1>3, <1>4, <1>5, <1>6, <1>7

LEMMA OverStays ==
  ASSUME kind' = kind, size' = size, first' = first, rounds' = rounds
  PROVE  Over' = Over /\ Begun' = Begun
<1>1. \A k \in 1 .. rounds :
        Stream(IF k = 1 THEN first ELSE 0, size)' = Stream(IF k = 1 THEN first ELSE 0, size)
  BY DEF Stream, RtpToTs
<1>2. Over' = Over
  BY <1>1 DEF Over
<1> QED BY <1>2 DEF Begun

LEMMA SentNext ==
  Sent' = FlattenSeq(Over') \o Stream(Begun, pos)'
BY DEF Sent, Over, Begun

LEMMA SentStays ==
  ASSUME kind' = kind, size' = size, first' = first, rounds' = rounds, pos' = pos
  PROVE  Sent' = Sent
<1>1. Over' = Over /\ Begun' = Begun
  BY OverStays
<1>2. Stream(Begun, pos)' = Stream(Begun, pos)
  BY <1>1 DEF Stream, RtpToTs
<1>3. Sent = FlattenSeq(Over) \o Stream(Begun, pos)
  BY DEF Sent, Over, Begun
<1> QED BY <1>1, <1>2, <1>3, SentNext

LEMMA SentGrows ==
  ASSUME SizesAssumption, TypeOK,
         kind' = kind, size' = size, first' = first, rounds' = rounds,
         pos >= Begun, (pos - Begun) % Block = 0,
         NEW n \in 1 .. Block, pos' = pos + n
  PROVE  /\ Piece(pos, n) \in Seq(Bytes)
         /\ Sent' = Sent \o Piece(pos, n)
<1>0. /\ kind \in Kinds /\ rounds \in Nat /\ first \in Nat /\ pos \in Nat /\ Begun \in Nat
  BY DumpSizes DEF TypeOK, Begun
<1>1. Over' = Over /\ Begun' = Begun
  BY OverStays
<1> DEFINE d == pos - Begun
           x == FlattenSeq(Over)
           y == Stream(Begun, pos)
           z == Piece(pos, n)
<1>2. d \in Nat /\ Begun + d = pos /\ Begun + d + n = pos + n
  BY <1>0
<1>3. z \in Seq(Bytes) /\ Stream(Begun, pos + n) = y \o z
  <2>1. d % Block = 0
    OBVIOUS
  <2> HIDE DEF d
  <2>2. /\ Piece(Begun + d, n) \in Seq(Bytes)
        /\ Stream(Begun, Begun + d + n) = Stream(Begun, Begun + d) \o Piece(Begun + d, n)
    BY <1>0, <1>2, <2>1, StreamGrows
  <2> QED BY ONLY <1>2, <2>2
<1>4. Stream(Begun, pos)' = Stream(Begun, pos + n)
  BY <1>1 DEF Stream, RtpToTs
<1>5. x \in Seq(Bytes) /\ y \in Seq(Bytes) /\ Sent = x \o y
  BY SentIs
<1> HIDE DEF x, y, z
<1>6. (x \o y) \o z = x \o (y \o z)
  BY ONLY <1>3, <1>5
<1>7. Sent' = x \o (y \o z)
  BY ONLY <1>1, <1>3, <1>4, SentNext DEF x
<1> QED BY ONLY <1>3, <1>5, <1>6, <1>7 DEF z

\* A round more is the same stream.
LEMMA SentOver ==
  ASSUME SizesAssumption, TypeOK,
         kind' = kind, size' = size, first' = first, rounds' = rounds + 1,
         pos >= size, pos <= size \/ (rounds = 0 /\ pos = first), pos' = 0
  PROVE  Sent' = Sent
<1>0. /\ kind \in Kinds /\ rounds \in Nat /\ first \in Nat /\ size \in Nat /\ pos \in Nat
      /\ Begun \in Nat
  BY DumpSizes DEF TypeOK, Begun
<1> DEFINE x == FlattenSeq(Over)
           y == Stream(Begun, pos)
<1>1. x \in Seq(Bytes) /\ y \in Seq(Bytes) /\ Sent = x \o y
  BY SentIs
<1>2. Stream(Begun, size) = y
  <2>1. CASE pos = size
    BY <2>1
  <2>2. CASE pos # size
    <3>1. Begun = pos /\ Begun >= size
      BY <1>0, <2>2 DEF Begun
    <3>2. y = <<>> /\ Stream(Begun, size) = <<>>
      BY <1>0, <3>1, StreamIs
    <3> QED BY <3>2
  <2> QED BY <2>1, <2>2
<1>3. Over' = Append(Over, y)
  <2>1. /\ Over \in Seq(Seq(Bytes)) /\ Len(Over) = rounds
        /\ \A k \in 1 .. rounds : Over[k] = Stream(IF k = 1 THEN first ELSE 0, size)
    BY SentIs DEF Over
  <2> DEFINE a == Append(Over, y)
  <2>2. /\ a \in Seq(Seq(Bytes)) /\ Len(a) = rounds + 1 /\ a[rounds + 1] = y
        /\ \A k \in 1 .. rounds : a[k] = Over[k]
    BY <1>1, <2>1, AppendProperties
  <2>3. a = [k \in 1 .. rounds + 1 |-> a[k]]
    BY <2>2, LenProperties
  <2> HIDE DEF a, y
  <2>4. ASSUME NEW k \in 1 .. rounds + 1
        PROVE  a[k] = Stream(IF k = 1 THEN first ELSE 0, size)
    <3>1. CASE k \in 1 .. rounds
      BY <2>1, <2>2, <3>1
    <3>2. CASE ~ (k \in 1 .. rounds)
      <4>1. k = rounds + 1
        BY <1>0, <3>2
      <4>2. (IF k = 1 THEN first ELSE 0) = Begun
        BY <1>0, <4>1 DEF Begun
      <4> QED BY ONLY <1>2, <2>2, <4>1, <4>2
    <3> QED BY <3>1, <3>2
  <2>5. Over' = [k \in 1 .. rounds + 1 |-> Stream(IF k = 1 THEN first ELSE 0, size)]
    BY DEF Over, Stream, RtpToTs
  <2> QED BY ONLY <2>3, <2>4, <2>5 DEF a
<1>4. FlattenSeq(Over') = x \o y
  <2>1. Over \in Seq(Seq(Bytes))
    BY SentIs
  <2> QED BY <1>1, <1>3, <2>1, FlattenMore
<1>5. Stream(Begun, pos)' = <<>>
  <2>1. Begun' = 0
    BY <1>0 DEF Begun
  <2> QED BY <1>0, <2>1 DEF Stream
<1>6. (x \o y) \o <<>> = x \o y
  <2> HIDE DEF x, y
  <2> QED BY ONLY <1>1
<1> HIDE DEF x, y
<1> QED BY ONLY <1>1, <1>4, <1>5, <1>6, SentNext

\* A datagram of n bytes of the file, behind the first p ones.
Packet(p, n) ==
  LET h == IF isRtp THEN Header ELSE 0
  IN [k \in 1 .. h + n |-> IF k <= h THEN 0 ELSE p + k - h]

\* udp-sender reads whole blocks, up to the end of the file; -offset may lie
\* behind it.
Placed ==
  /\ size >= Block /\ (tool = "server" => ~dumpRtp)
  /\ first % Block = 0
  /\ pos < size => pos % Block = 0
  /\ pos <= size \/ (rounds = 0 /\ pos = first)
  /\ pos >= Begun

OnWire(p, n) ==
  /\ wire = <<Packet(p, n)>> /\ n <= Block /\ p + n <= size /\ p % Block = 0
  /\ n < Block => p + n = size

\* Nothing was read yet, or there is nothing to read in this round.
Untouched ==
  IF first < size THEN rounds = 0 /\ pos = first ELSE pos = Begun /\ rounds <= 1

\* Two ways not to agree: there is a header where a byte of the stream should be, and
\* then the file begins with it, or bytes of every whole block are cut off.
Foreign == ~Agreed /\ (kind = "rtp" \/ (isRtp /\ ~dumpRtp))
Short == ~Agreed /\ kind # "rtp" /\ (isRtp => dumpRtp)
Strange(x) == x = 0 \/ (kind = "rtp" /\ (x - 1) % Block = 0)
Live == ~lost /\ receiver = "up"

\* What is written when nothing is under way, and when a datagram is.
NothingYet ==
  wire = <<>> =>
    /\ Agreed /\ Live => Sent = out
    /\ Short => /\ Len(out) <= Len(Sent)
                /\ WholeBlockSent => Len(out) < Len(Sent)
    /\ Foreign /\ Live => IF out # <<>> THEN Strange(out[1]) ELSE Untouched

Owing(p, n) ==
  /\ Agreed /\ Live => Sent = out \o Piece(p, n)
  /\ Short => /\ Len(out) + n <= Len(Sent)
              /\ WholeBlockSent /\ n < Block => Len(out) + n < Len(Sent)
  /\ Foreign /\ Live /\ out # <<>> => Strange(out[1])

UnderWay ==
  wire # <<>> => \E p \in Nat, n \in Nat \ {0} : OnWire(p, n) /\ Owing(p, n)

\* No byte of the stream is one of a header.
SentBytes ==
  \A k \in 1 .. Len(Sent) :
    Sent[k] > 0 /\ (kind = "rtp" => (Sent[k] - 1) % Block >= Header)

DumpInv == TypeOK /\ Placed /\ NothingYet /\ UnderWay /\ SentBytes /\ PanicOnTail

LEMMA DumpTyped ==
  ASSUME SizesAssumption, TypeOK
  PROVE  /\ kind \in Kinds /\ rounds \in Nat /\ first \in Nat /\ size \in Nat /\ pos \in Nat
         /\ Begun \in Nat /\ size > 0 /\ size <= MaxSize /\ pos <= MaxSize + MaxOffset
         /\ isRtp \in BOOLEAN /\ dumpRtp \in BOOLEAN /\ lost \in BOOLEAN
         /\ tool \in {"dump", "server"} /\ out \in Seq(0 .. size)
         /\ out \in Seq(Bytes) /\ Len(out) \in Nat
         /\ Sent \in Seq(Bytes) /\ Len(Sent) \in Nat
<1>1. /\ kind \in Kinds /\ rounds \in Nat /\ first \in Nat /\ size \in Nat /\ pos \in Nat
      /\ Begun \in Nat /\ size > 0 /\ size <= MaxSize /\ pos <= MaxSize + MaxOffset
      /\ isRtp \in BOOLEAN /\ dumpRtp \in BOOLEAN /\ lost \in BOOLEAN
      /\ tool \in {"dump", "server"} /\ out \in Seq(0 .. size)
  BY DumpSizes DEF TypeOK, Begun
<1>2. 0 .. size \subseteq Bytes
  BY <1>1 DEF Bytes
<1>3. out \in Seq(Bytes)
  BY <1>1, <1>2, SeqMonotonic
<1>4. Sent \in Seq(Bytes)
  BY SentIs
<1>5. Len(out) \in Nat /\ Len(Sent) \in Nat
  BY ONLY <1>3, <1>4, LenProperties
<1> QED BY <1>1, <1>3, <1>4, <1>5

LEMMA PacketIs ==
  ASSUME SizesAssumption, TypeOK, NEW p, NEW n, p \in Nat, n \in Nat, p + n <= size
  PROVE  /\ Packet(p, n) \in Seq(0 .. size)
         /\ isRtp => /\ Len(Packet(p, n)) = Header + n
                     /\ \A k \in 1 .. Header + n :
                          Packet(p, n)[k] = IF k <= Header THEN 0 ELSE p + k - Header
         /\ ~isRtp => /\ Len(Packet(p, n)) = n
                      /\ \A k \in 1 .. n : Packet(p, n)[k] = p + k
<1> DEFINE h == IF isRtp THEN Header ELSE 0
<1>1. h \in Nat /\ size \in Nat /\ Header \in Nat
  BY DumpTyped DEF SizesAssumption
<1>2. isRtp => h = Header
  OBVIOUS
<1>3. ~isRtp => h = 0
  OBVIOUS
<1>4. Packet(p, n) = [k \in 1 .. h + n |-> IF k <= h THEN 0 ELSE p + k - h]
  BY DEF Packet
<1> HIDE DEF h
<1> DEFINE f == Packet(p, n)
<1>5. \A k \in 1 .. h + n : f[k] = (IF k <= h THEN 0 ELSE p + k - h) /\ f[k] \in 0 .. size
  BY <1>1, <1>4
<1>6. f \in [1 .. h + n -> 0 .. size] /\ h + n \in Nat
  BY <1>1, <1>4, <1>5
<1> HIDE DEF f
<1>7. f \in Seq(0 .. size) /\ Len(f) = h + n
  BY <1>6, FunctionIsSeq
<1>8. isRtp => \A k \in 1 .. Header + n : f[k] = IF k <= Header THEN 0 ELSE p + k - Header
  BY <1>2, <1>5
<1>9. ~isRtp => h + n = n /\ \A k \in 1 .. n : f[k] = p + k
  BY <1>1, <1>3, <1>5
<1> QED BY <1>2, <1>7, <1>8, <1>9 DEF f

LEMMA FlagsKept ==
  ASSUME UNCHANGED flags
  PROVE  /\ kind' = kind /\ size' = size /\ isRtp' = isRtp /\ repeat' = repeat /\ tool' = tool
         /\ dumpRtp' = dumpRtp /\ first' = first
         /\ Block' = Block
         /\ Agreed' <=> Agreed
         /\ Foreign' <=> Foreign
         /\ Short' <=> Short
         /\ \A x : Strange(x)' <=> Strange(x)
         /\ \A p, n : Piece(p, n)' = Piece(p, n)
         /\ \A p, n : Packet(p, n)' = Packet(p, n)
<1>1. /\ kind' = kind /\ size' = size /\ isRtp' = isRtp /\ repeat' = repeat /\ tool' = tool
      /\ dumpRtp' = dumpRtp /\ first' = first
  BY DEF flags
<1>2. Block' = Block
  BY <1>1 DEF Block
<1>3. Agreed' <=> Agreed
  BY <1>1 DEF Agreed, Headers
<1>4. (Foreign' <=> Foreign) /\ (Short' <=> Short)
  BY <1>1, <1>3 DEF Foreign, Short
<1>5. \A x : Strange(x)' <=> Strange(x)
  BY <1>1, <1>2 DEF Strange
<1>6. \A p, n : Piece(p, n)' = Piece(p, n) /\ Packet(p, n)' = Packet(p, n)
  BY <1>1 DEF Piece, Packet
<1> QED BY <1>1, <1>2, <1>3, <1>4, <1>5, <1>6

\* Blocks.
LEMMA WholeBlocks ==
  ASSUME NEW b \in Nat, b > 0, NEW x \in Nat, NEW y \in Nat, x % b = 0, y % b = 0
  PROVE  /\ (x + b) % b = 0
         /\ y <= x => (x - y) % b = 0
         /\ y < x => x - y >= b
<1> DEFINE q == x \div b  r == y \div b
<1>1. x = b * q /\ y = b * r /\ q \in Nat /\ r \in Nat
  <2>1. /\ x = b * (x \div b) + (x % b) /\ x \div b \in Nat
        /\ y = b * (y \div b) + (y % b) /\ y \div b \in Nat
    BY Laps
  <2> QED BY <2>1
<1> HIDE DEF q, r
<1>0. 0 \in 0 .. b - 1
  OBVIOUS
<1>2. (x + b) % b = 0
  <2>1. q + 1 \in Nat /\ b * (q + 1) + 0 = x + b
    BY <1>1
  <2> QED BY <1>0, <2>1, LapsAre
<1>3. ASSUME y < x
      PROVE  q > r
  BY ONLY <1>1, <1>3, b \in Nat, b > 0, x \in Nat, y \in Nat
<1>4. ASSUME y < x
      PROVE  (x - y) % b = 0 /\ x - y >= b
  <2>1. q - r \in Nat /\ q - r >= 1 /\ b * (q - r) + 0 = x - y
    BY <1>1, <1>3, <1>4
  <2>2. (b * (q - r) + 0) % b = 0
    BY <1>0, <2>1, LapsAre
  <2>3. b * (q - r) >= b
    BY <2>1
  <2> QED BY <2>1, <2>2, <2>3
<1>5. y = x => (x - y) % b = 0
  <2>1. 0 \in Nat /\ b * 0 + 0 = 0 /\ x - x = 0
    OBVIOUS
  <2>2. (b * 0 + 0) % b = 0
    BY <1>0, <2>1, LapsAre
  <2> QED BY <2>1, <2>2
<1> QED BY <1>2, <1>4, <1>5

\* The block that is sent next.
LEMMA SendIs ==
  ASSUME SizesAssumption, TypeOK, Placed, SendBlock
  PROVE  \E n \in 1 .. Block :
           /\ pos + n <= size /\ pos' = pos + n /\ wire' = <<Packet(pos, n)>>
           /\ pos % Block = 0 /\ (pos - Begun) % Block = 0 /\ Begun % Block = 0
           /\ n < Block => pos + n = size
<1> DEFINE n == Least(Block, size - pos)
<1>0. Block \in Nat /\ Block > 0 /\ pos \in Nat /\ size \in Nat /\ pos < size
      /\ Begun \in Nat /\ first \in Nat
  BY DumpTyped, DumpSizes DEF SendBlock
<1>1. /\ n \in 1 .. Block /\ pos + n <= size /\ (n < Block => pos + n = size)
      /\ Least(pos + Block, size) = pos + n
  BY <1>0 DEF Least
<1>2. wire' = <<Packet(pos, n)>>
  BY DEF SendBlock, Datagram, Packet
<1>3. pos' = pos + n
  BY <1>1 DEF SendBlock
<1>4. pos % Block = 0 /\ first % Block = 0 /\ pos >= Begun
  BY <1>0 DEF Placed
<1>5. Begun % Block = 0
  <2>1. 0 % Block = 0
    <3>1. 0 \in 0 .. Block - 1 /\ 0 \in Nat /\ Block * 0 + 0 = 0
      BY <1>0
    <3> QED BY <1>0, <3>1, LapsAre
  <2> QED BY <1>4, <2>1 DEF Begun
<1>6. (pos - Begun) % Block = 0
  BY <1>0, <1>4, <1>5, WholeBlocks
<1> HIDE DEF n
<1> QED BY <1>1, <1>2, <1>3, <1>4, <1>5, <1>6

LEMMA DumpSendStep ==
  ASSUME SizesAssumption, DumpInv, SendBlock
  PROVE  DumpInv'
<1>0. TypeOK /\ Placed /\ NothingYet /\ SentBytes /\ PanicOnTail
  BY DEF DumpInv
<1>1. PICK n \in 1 .. Block :
        /\ pos + n <= size /\ pos' = pos + n /\ wire' = <<Packet(pos, n)>>
        /\ pos % Block = 0 /\ (pos - Begun) % Block = 0 /\ Begun % Block = 0
        /\ n < Block => pos + n = size
  BY <1>0, SendIs
<1>2. /\ pos \in Nat /\ size \in Nat /\ Begun \in Nat /\ Block \in Nat /\ Block > 0
      /\ size <= MaxSize /\ MaxSize \in Nat /\ MaxOffset \in Nat /\ Header \in Nat
      /\ first \in Nat /\ rounds \in Nat
      /\ Len(out) \in Nat /\ Len(Sent) \in Nat /\ n \in Nat /\ kind \in Kinds
  <2>1. /\ pos \in Nat /\ size \in Nat /\ Begun \in Nat /\ size <= MaxSize
        /\ first \in Nat /\ rounds \in Nat
        /\ Len(out) \in Nat /\ Len(Sent) \in Nat /\ kind \in Kinds
    BY <1>0, DumpTyped
  <2>2. /\ Block \in Nat /\ Block > 0
        /\ MaxSize \in Nat /\ MaxOffset \in Nat /\ Header \in Nat
    BY <2>1, DumpSizes
  <2>3. n \in Nat
    BY <2>2
  <2> QED BY <2>1, <2>2, <2>3
<1>3. /\ UNCHANGED flags /\ wire = <<>>
      /\ sending' = sending /\ receiver' = receiver /\ out' = out
      /\ rounds' = rounds /\ lost' = lost
  BY DEF SendBlock
<1>4. /\ kind' = kind /\ size' = size /\ isRtp' = isRtp /\ repeat' = repeat /\ tool' = tool
      /\ dumpRtp' = dumpRtp /\ first' = first /\ Block' = Block
      /\ (Agreed' <=> Agreed) /\ (Foreign' <=> Foreign) /\ (Short' <=> Short)
      /\ (\A x : Strange(x)' <=> Strange(x)) /\ (Live' <=> Live)
      /\ (\A p, m : Piece(p, m)' = Piece(p, m)) /\ (\A p, m : Packet(p, m)' = Packet(p, m))
      /\ Begun' = Begun
  BY <1>3, FlagsKept DEF Live, Begun
<1>5. /\ Piece(pos, n) \in Seq(Bytes) /\ Sent' = Sent \o Piece(pos, n)
      /\ Sent \in Seq(Bytes)
  <2>1. pos >= Begun
    BY <1>0 DEF Placed
  <2> QED BY <1>0, <1>1, <1>3, <1>4, <2>1, SentGrows, SentIs
<1>6. TypeOK'
  <2>1. Packet(pos, n) \in Seq(0 .. size)
    BY <1>0, <1>1, <1>2, PacketIs
  <2>2. wire' \in Seq(Seq(0 .. size)) /\ Len(wire') <= 1
    BY <1>1, <2>1
  <2>3. pos' \in 0 .. MaxSize + MaxOffset
    BY <1>1, <1>2
  <2> QED BY <1>0, <1>3, <1>4, <2>2, <2>3 DEF TypeOK
<1>7. Placed'
  <2>1. pos' < size => pos' % Block = 0
    <3> SUFFICES ASSUME pos' < size
                 PROVE  pos' % Block = 0
      OBVIOUS
    <3>1. n = Block
      BY <1>1, <1>2
    <3>2. (pos + Block) % Block = 0
      BY <1>1, <1>2, WholeBlocks
    <3> QED BY <1>1, <3>1, <3>2
  <2>2. pos' <= size /\ pos' >= Begun
    BY <1>0, <1>1, <1>2 DEF Placed
  <2> QED BY <1>0, <1>3, <1>4, <2>1, <2>2 DEF Placed
<1>8. NothingYet'
  BY <1>1 DEF NothingYet
<1>9. UnderWay'
  <2> PICK p \in Nat : p = pos
    BY <1>2
  <2>1. OnWire(p, n)'
    <3>1. wire' = <<Packet(p, n)'>>
      BY <1>1, <1>4
    <3>2. n <= Block' /\ p + n <= size' /\ p % Block' = 0
      BY <1>1, <1>2, <1>4
    <3>3. n < Block' => p + n = size'
      BY <1>1, <1>4
    <3> QED BY <3>1, <3>2, <3>3 DEF OnWire
  <2>2. Owing(p, n)'
    <3>1. Agreed /\ Live => Sent' = out \o Piece(pos, n)
      BY <1>0, <1>3, <1>5 DEF NothingYet
    <3>2. ASSUME Short
          PROVE  /\ Len(out) + n <= Len(Sent')
                 /\ WholeBlockSent' /\ n < Block => Len(out) + n < Len(Sent')
      <4>1. Len(Piece(pos, n)) = n
        BY <1>2, <3>2, PieceIs DEF Short
      <4>2. Len(Sent') = Len(Sent) + n
        <5>1. Len(Sent \o Piece(pos, n)) = Len(Sent) + Len(Piece(pos, n))
          BY ONLY <1>5, ConcatProperties
        <5> QED BY ONLY <1>5, <4>1, <5>1
      <4>3. /\ Len(out) <= Len(Sent)
            /\ WholeBlockSent => Len(out) < Len(Sent)
        BY <1>0, <1>3, <3>2 DEF NothingYet
      <4>4. WholeBlockSent' /\ n < Block => WholeBlockSent
        <5> SUFFICES ASSUME WholeBlockSent', n < Block
                     PROVE  WholeBlockSent
          OBVIOUS
        <5>1. pos + n - Begun >= Block
          BY <1>1, <1>2, <1>3, <1>4 DEF WholeBlockSent, Begun
        <5>2. Begun < pos
          BY <1>2, <5>1
        <5>3. pos - Begun >= Block
          BY <1>1, <1>2, <5>2, WholeBlocks
        <5> QED BY <1>2, <5>3 DEF WholeBlockSent, Begun
      <4> QED BY <1>2, <4>2, <4>3, <4>4
    <3>3. Foreign /\ Live /\ out # <<>> => Strange(out[1])
      BY <1>0, <1>3 DEF NothingYet
    <3>4. Agreed' /\ Live' => Sent' = out' \o Piece(p, n)'
      BY <1>3, <1>4, <3>1
    <3>5. Short' => /\ Len(out') + n <= Len(Sent')
                    /\ WholeBlockSent' /\ n < Block' =>
                         Len(out') + n < Len(Sent')
      BY <1>3, <1>4, <3>2
    <3>6. Foreign' /\ Live' /\ out' # <<>> => Strange(out[1])'
      <4>1. Strange(out[1])' <=> Strange(out[1])
        BY <1>3, <1>4 DEF Strange
      <4> QED BY <1>3, <1>4, <3>3, <4>1
    <3> QED BY <3>4, <3>5, <3>6 DEF Owing
  <2>3. n \in Nat \ {0}
    BY <1>2
  <2> QED BY <2>1, <2>2, <2>3 DEF UnderWay
<1>10. SentBytes'
  <2> DEFINE x == Sent
             y == Piece(pos, n)
  <2>1. ASSUME NEW k \in 1 .. Len(y)
        PROVE  y[k] > 0 /\ (kind = "rtp" => (y[k] - 1) % Block >= Header)
    <3>1. CASE kind = "rtp"
      <4>1. Len(y) = (IF n > Header THEN n - Header ELSE 0) /\ y[k] = pos + Header + k
        BY <1>2, <3>1, PieceIs
      <4>2. /\ k >= 1 /\ k <= n - Header /\ Header + k - 1 \in Nat /\ Header + k - 1 < Block
            /\ y[k] - 1 = pos + (Header + k - 1) /\ y[k] > 0
        BY <1>1, <1>2, <4>1
      <4>3. (pos + (Header + k - 1)) % Block = Header + k - 1
        BY <1>1, <1>2, <4>2, ModPlus
      <4> QED BY <1>2, <4>2, <4>3
    <3>2. CASE kind # "rtp"
      <4>1. Len(y) = n /\ y[k] = pos + k
        BY <1>2, <3>2, PieceIs
      <4> QED BY <1>2, <3>2, <4>1
    <3> QED BY <3>1, <3>2
  <2> HIDE DEF x, y
  <2>2. /\ Len(x \o y) = Len(x) + Len(y) /\ Len(x) \in Nat /\ Len(y) \in Nat
        /\ \A k \in 1 .. Len(x) + Len(y) : (x \o y)[k] = IF k <= Len(x) THEN x[k] ELSE y[k - Len(x)]
    BY ONLY <1>5, ConcatProperties, LenProperties DEF x, y
  <2>3. ASSUME NEW k \in 1 .. Len(x) + Len(y)
        PROVE  (x \o y)[k] > 0 /\ (kind = "rtp" => ((x \o y)[k] - 1) % Block >= Header)
    <3>1. CASE k <= Len(x)
      <4>1. k \in 1 .. Len(x) /\ (x \o y)[k] = x[k]
        BY <2>2, <3>1
      <4> QED BY <1>0, <4>1 DEF SentBytes, x
    <3>2. CASE ~ (k <= Len(x))
      <4>1. k - Len(x) \in 1 .. Len(y) /\ (x \o y)[k] = y[k - Len(x)]
        BY <2>2, <3>2
      <4> QED BY <2>1, <4>1
    <3> QED BY <3>1, <3>2
  <2>4. Sent' = x \o y
    BY <1>5 DEF x, y
  <2> QED BY <1>4, <2>2, <2>3, <2>4 DEF SentBytes
<1>11. PanicOnTail'
  BY <1>0, <1>3, <1>4 DEF PanicOnTail
<1> QED BY <1>6, <1>7, <1>8, <1>9, <1>10, <1>11 DEF DumpInv

\* The file is started over.
LEMMA DumpOverStep ==
  ASSUME SizesAssumption, DumpInv, StartOver
  PROVE  DumpInv'
<1>0. TypeOK /\ Placed /\ NothingYet /\ UnderWay /\ SentBytes /\ PanicOnTail
  BY DEF DumpInv
<1>1. /\ UNCHANGED flags /\ wire' = wire
      /\ sending' = sending /\ receiver' = receiver /\ out' = out
      /\ rounds' = rounds + 1 /\ lost' = lost /\ pos' = 0 /\ pos >= size /\ rounds < MaxRounds
  BY DEF StartOver
<1>2. /\ pos \in Nat /\ size \in Nat /\ Begun \in Nat /\ first \in Nat /\ rounds \in Nat
      /\ Len(out) \in Nat /\ Len(Sent) \in Nat /\ kind \in Kinds
  BY <1>0, DumpTyped
<1>3. Block \in Nat /\ Block > 0 /\ MaxSize \in Nat /\ MaxOffset \in Nat /\ MaxRounds \in Nat
  BY <1>2, DumpSizes
<1>4. /\ kind' = kind /\ size' = size /\ isRtp' = isRtp /\ repeat' = repeat /\ tool' = tool
      /\ dumpRtp' = dumpRtp /\ first' = first /\ Block' = Block
      /\ (Agreed' <=> Agreed) /\ (Foreign' <=> Foreign) /\ (Short' <=> Short)
      /\ (\A x : Strange(x)' <=> Strange(x)) /\ (Live' <=> Live)
      /\ (\A p, m : Piece(p, m)' = Piece(p, m)) /\ (\A p, m : Packet(p, m)' = Packet(p, m))
      /\ Begun' = 0
  BY <1>1, <1>2, FlagsKept DEF Live, Begun
<1>5. Sent' = Sent
  <2>1. pos <= size \/ (rounds = 0 /\ pos = first)
    BY <1>0 DEF Placed
  <2> QED BY <1>0, <1>1, <1>4, <2>1, SentOver
<1>6. TypeOK'
  <2>1. pos' \in 0 .. MaxSize + MaxOffset /\ rounds' \in 0 .. MaxRounds
    BY <1>1, <1>2, <1>3
  <2> QED BY <1>0, <1>1, <1>4, <2>1 DEF TypeOK
<1>7. Placed'
  <2>1. pos' % Block = 0
    <3>1. 0 \in 0 .. Block - 1 /\ 0 \in Nat /\ Block * 0 + 0 = 0
      BY <1>3
    <3> QED BY <1>1, <1>3, <3>1, LapsAre
  <2>2. pos' <= size /\ pos' >= Begun'
    BY <1>1, <1>2, <1>4
  <2> QED BY <1>0, <1>4, <2>1, <2>2 DEF Placed
<1>8. ~ WholeBlockSent'
  <2>1. pos' = 0 /\ rounds' # 0
    BY <1>1, <1>2
  <2> QED BY <1>3, <1>4, <2>1 DEF WholeBlockSent
<1>9. Strange(out[1])' <=> Strange(out[1])
  BY <1>1, <1>4 DEF Strange
<1>10. NothingYet'
  <2> SUFFICES ASSUME wire = <<>>
               PROVE  /\ Agreed /\ Live => Sent = out
                      /\ Short => Len(out) <= Len(Sent)
                      /\ Foreign /\ Live => IF out # <<>> THEN Strange(out[1]) ELSE Untouched'
    BY <1>1, <1>4, <1>5, <1>8, <1>9 DEF NothingYet
  <2>1. ASSUME Untouched
        PROVE  Untouched'
    <3>1. CASE first < size
      BY <1>1, <1>2, <2>1, <3>1 DEF Untouched
    <3>2. CASE ~ (first < size)
      <4>1. size >= Block
        BY <1>0 DEF Placed
      <4>2. pos = Begun /\ rounds = 0
        BY <1>1, <1>2, <1>3, <2>1, <3>2, <4>1 DEF Untouched, Begun
      <4> QED BY <1>1, <1>4, <3>2, <4>2 DEF Untouched
    <3> QED BY <3>1, <3>2
  <2> QED BY <1>0, <2>1 DEF NothingYet
<1>11. UnderWay'
  <2> SUFFICES ASSUME wire # <<>>
               PROVE  \E p \in Nat, n \in Nat \ {0} : OnWire(p, n)' /\ Owing(p, n)'
    BY <1>1 DEF UnderWay
  <2>1. PICK p \in Nat, n \in Nat \ {0} : OnWire(p, n) /\ Owing(p, n)
    BY <1>0 DEF UnderWay
  <2>2. OnWire(p, n)'
    BY <1>1, <1>4, <2>1 DEF OnWire
  <2>3. Owing(p, n)'
    <3>1. Agreed' /\ Live' => Sent' = out' \o Piece(p, n)'
      BY <1>1, <1>4, <1>5, <2>1 DEF Owing
    <3>2. Short' => /\ Len(out') + n <= Len(Sent')
                    /\ WholeBlockSent' /\ n < Block' =>
                         Len(out') + n < Len(Sent')
      BY <1>1, <1>4, <1>5, <1>8, <2>1 DEF Owing
    <3>3. Foreign' /\ Live' /\ out' # <<>> => Strange(out[1])'
      BY <1>1, <1>4, <1>9, <2>1 DEF Owing
    <3> QED BY <3>1, <3>2, <3>3 DEF Owing
  <2> QED BY <2>2, <2>3
<1>12. SentBytes'
  BY <1>0, <1>4, <1>5 DEF SentBytes
<1>13. PanicOnTail'
  BY <1>0, <1>1, <1>4 DEF PanicOnTail
<1> QED BY <1>6, <1>7, <1>10, <1>11, <1>12, <1>13 DEF DumpInv

\* The sender ends, the dump ends: what is under way and what was written stays.
LEMMA DumpEndStep ==
  ASSUME SizesAssumption, DumpInv, UNCHANGED flags,
         pos' = pos, wire' = wire, out' = out, rounds' = rounds, lost' = lost,
         sending' \in BOOLEAN,
         receiver' = receiver \/ (receiver = "up" /\ receiver' = "over")
  PROVE  DumpInv'
<1>0. TypeOK /\ Placed /\ NothingYet /\ UnderWay /\ SentBytes /\ PanicOnTail
  BY DEF DumpInv
<1>1. /\ kind' = kind /\ size' = size /\ isRtp' = isRtp /\ repeat' = repeat /\ tool' = tool
      /\ dumpRtp' = dumpRtp /\ first' = first /\ Block' = Block
      /\ (Agreed' <=> Agreed) /\ (Foreign' <=> Foreign) /\ (Short' <=> Short)
      /\ (\A x : Strange(x)' <=> Strange(x)) /\ (Live' => Live)
      /\ (\A p, m : Piece(p, m)' = Piece(p, m)) /\ (\A p, m : Packet(p, m)' = Packet(p, m))
      /\ Begun' = Begun
  BY FlagsKept DEF Live, Begun
<1>2. Sent' = Sent
  BY <1>1, SentStays
<1>3. /\ WholeBlockSent' <=> WholeBlockSent
      /\ Strange(out[1])' <=> Strange(out[1])
      /\ Untouched' <=> Untouched
  BY <1>1 DEF WholeBlockSent, Strange, Untouched
<1>4. TypeOK'
  BY <1>0, <1>1 DEF TypeOK
<1>5. Placed'
  BY <1>0, <1>1 DEF Placed
<1>6. NothingYet'
  BY <1>0, <1>1, <1>2, <1>3 DEF NothingYet
<1>7. UnderWay'
  <2> SUFFICES ASSUME wire # <<>>
               PROVE  \E p \in Nat, n \in Nat \ {0} : OnWire(p, n)' /\ Owing(p, n)'
    BY DEF UnderWay
  <2>1. PICK p \in Nat, n \in Nat \ {0} : OnWire(p, n) /\ Owing(p, n)
    BY <1>0 DEF UnderWay
  <2>2. OnWire(p, n)'
    BY <1>1, <2>1 DEF OnWire
  <2>3. Owing(p, n)'
    <3>1. Agreed' /\ Live' => Sent' = out' \o Piece(p, n)'
      BY <1>1, <1>2, <2>1 DEF Owing
    <3>2. Short' => /\ Len(out') + n <= Len(Sent')
                    /\ WholeBlockSent' /\ n < Block' =>
                         Len(out') + n < Len(Sent')
      BY <1>1, <1>2, <1>3, <2>1 DEF Owing
    <3>3. Foreign' /\ Live' /\ out' # <<>> => Strange(out[1])'
      BY <1>1, <1>3, <2>1 DEF Owing
    <3> QED BY <3>1, <3>2, <3>3 DEF Owing
  <2> QED BY <2>2, <2>3
<1>8. SentBytes'
  BY <1>0, <1>1, <1>2 DEF SentBytes
<1>9. PanicOnTail'
  BY <1>0, <1>1 DEF PanicOnTail
<1> QED BY <1>4, <1>5, <1>6, <1>7, <1>8, <1>9 DEF DumpInv

\* A datagram is gone from the wire: lost, or it came and w was written.
LEMMA DumpOffWire ==
  ASSUME SizesAssumption, DumpInv, UNCHANGED flags,
         sending' = sending, pos' = pos, rounds' = rounds, wire # <<>>, wire' = <<>>,
         lost' \in BOOLEAN, lost => lost', receiver' \in {"up", "over", "panicked"},
         Live' => Live, PanicOnTail',
         NEW p \in Nat, NEW n \in Nat \ {0}, OnWire(p, n), Owing(p, n),
         NEW w \in Seq(0 .. size), out' = out \o w,
         Agreed /\ Live' => w = Piece(p, n),
         Short => Len(w) <= n /\ (n = Block => Len(w) < n),
         Foreign /\ Live' => w # <<>> /\ Strange(w[1])
  PROVE  DumpInv'
<1>0. TypeOK /\ Placed /\ SentBytes
  BY DEF DumpInv
<1>1. /\ kind' = kind /\ size' = size /\ isRtp' = isRtp /\ repeat' = repeat /\ tool' = tool
      /\ dumpRtp' = dumpRtp /\ first' = first /\ Block' = Block
      /\ (Agreed' <=> Agreed) /\ (Foreign' <=> Foreign) /\ (Short' <=> Short)
      /\ (\A x : Strange(x)' <=> Strange(x))
      /\ Begun' = Begun
  BY FlagsKept DEF Begun
<1>2. Sent' = Sent
  BY <1>1, SentStays
<1>3. WholeBlockSent' <=> WholeBlockSent
  BY <1>1 DEF WholeBlockSent
<1>4. Len(out) \in Nat /\ Len(Sent) \in Nat /\ out \in Seq(0 .. size)
      /\ kind \in Kinds
  BY <1>0, DumpTyped
<1>5. Block \in Nat /\ n \in Nat /\ n <= Block
  BY <1>4, DumpSizes DEF OnWire
<1>6. /\ out' \in Seq(0 .. size) /\ Len(out') = Len(out) + Len(w) /\ Len(w) \in Nat
      /\ out # <<>> => out'[1] = out[1]
      /\ out = <<>> => out' = w
      /\ out' = <<>> => w = <<>>
  <2> DEFINE T == 0 .. size
             x == out
             z == out'
  <2>1. x \in Seq(T) /\ w \in Seq(T) /\ z = x \o w
    BY <1>4
  <2> HIDE DEF T, x, z
  <2>2. /\ z \in Seq(T) /\ Len(z) = Len(x) + Len(w)
        /\ \A k \in 1 .. Len(x) + Len(w) : z[k] = IF k <= Len(x) THEN x[k] ELSE w[k - Len(x)]
    BY ONLY <2>1, ConcatProperties
  <2>3. /\ Len(x) \in Nat /\ Len(w) \in Nat /\ (x # <<>> => Len(x) > 0)
        /\ w # <<>> => Len(w) > 0
        /\ z = <<>> => Len(z) = 0
    BY ONLY <2>1, EmptySeq, LenProperties
  <2>4. x # <<>> => z[1] = x[1]
    BY ONLY <2>2, <2>3
  <2>5. x = <<>> => z = w
    BY ONLY <2>1, ConcatEmptySeq
  <2>6. z = <<>> => w = <<>>
    BY ONLY <2>2, <2>3
  <2> QED BY ONLY <2>2, <2>3, <2>4, <2>5, <2>6 DEF T, x, z
<1>7. TypeOK'
  <2>1. wire' \in Seq(Seq(0 .. size)) /\ Len(wire') <= 1
    BY EmptySeq
  <2> QED BY <1>0, <1>1, <1>6, <2>1 DEF TypeOK
<1>8. Placed'
  BY <1>0, <1>1 DEF Placed
<1>9. NothingYet'
  <2>1. Agreed /\ Live' => Sent = out'
    BY DEF Owing
  <2>2. Short => /\ Len(out') <= Len(Sent)
                 /\ WholeBlockSent => Len(out') < Len(Sent)
    <3> SUFFICES ASSUME Short
                 PROVE  /\ Len(out') <= Len(Sent)
                        /\ WholeBlockSent => Len(out') < Len(Sent)
      OBVIOUS
    <3>1. /\ Len(out) + n <= Len(Sent)
          /\ WholeBlockSent /\ n < Block => Len(out) + n < Len(Sent)
      BY DEF Owing
    <3>2. Len(w) <= n /\ (n = Block => Len(w) < n)
      OBVIOUS
    <3> QED BY ONLY <1>4, <1>5, <1>6, <3>1, <3>2
  <2>3. Foreign /\ Live' => out' # <<>> /\ Strange(out'[1])
    <3> SUFFICES ASSUME Foreign, Live'
                 PROVE  out' # <<>> /\ Strange(out'[1])
      OBVIOUS
    <3>1. CASE out = <<>>
      BY <1>6, <3>1
    <3>2. CASE out # <<>>
      BY <1>6, <3>2 DEF Owing
    <3> QED BY <3>1, <3>2
  <2>4. Strange(out[1])' <=> Strange(out'[1])
    BY <1>1 DEF Strange
  <2> QED BY <1>1, <1>2, <1>3, <2>1, <2>2, <2>3, <2>4 DEF NothingYet
<1>10. UnderWay'
  BY DEF UnderWay
<1>11. SentBytes'
  BY <1>0, <1>1, <1>2 DEF SentBytes
<1> QED BY <1>7, <1>8, <1>9, <1>10, <1>11 DEF DumpInv

LEMMA DumpLoseStep ==
  ASSUME SizesAssumption, DumpInv, Lose
  PROVE  DumpInv'
<1>0. TypeOK /\ UnderWay /\ PanicOnTail
  BY DEF DumpInv
<1>1. /\ UNCHANGED flags /\ wire # <<>> /\ wire' = <<>> /\ lost' = TRUE
      /\ sending' = sending /\ receiver' = receiver /\ out' = out
      /\ rounds' = rounds /\ pos' = pos
  BY DEF Lose
<1>2. PICK p \in Nat, n \in Nat \ {0} : OnWire(p, n) /\ Owing(p, n)
  BY <1>0, <1>1 DEF UnderWay
<1>3. ~ Live'
  BY <1>1 DEF Live
<1>4. PanicOnTail'
  BY <1>0, <1>1, FlagsKept DEF PanicOnTail
<1>5. <<>> \in Seq(0 .. size) /\ Len(<<>>) = 0 /\ out' = out \o <<>>
  <2>1. out \in Seq(0 .. size)
    BY <1>0, DumpTyped
  <2> QED BY <1>1, <2>1, EmptySeq, ConcatEmptySeq
<1>6. receiver' \in {"up", "over", "panicked"}
  BY <1>0, <1>1 DEF TypeOK
<1> DEFINE w == <<>>
<1>7. w \in Seq(0 .. size) /\ out' = out \o w /\ Len(w) <= n /\ Len(w) < n
  BY <1>5
<1> HIDE DEF w
<1> QED BY <1>1, <1>2, <1>3, <1>4, <1>6, <1>7, DumpOffWire

\* What is in a datagram that came: after the header, if there is one, the bytes.
LEMMA WireIs ==
  ASSUME SizesAssumption, TypeOK, NEW p \in Nat, NEW n \in Nat \ {0}, OnWire(p, n)
  PROVE  LET d == Head(wire)
         IN /\ d \in Seq(0 .. size)
            /\ isRtp => /\ Len(d) = Header + n
                        /\ \A k \in 1 .. Header + n : d[k] = IF k <= Header THEN 0 ELSE p + k - Header
            /\ ~isRtp => Len(d) = n /\ \A k \in 1 .. n : d[k] = p + k
<1> DEFINE f == Packet(p, n)
<1>1. Head(wire) = f
  BY DEF OnWire
<1>2. n \in Nat /\ p + n <= size
  BY DEF OnWire
<1>3. /\ f \in Seq(0 .. size)
      /\ isRtp => /\ Len(f) = Header + n
                  /\ \A k \in 1 .. Header + n : f[k] = IF k <= Header THEN 0 ELSE p + k - Header
      /\ ~isRtp => Len(f) = n /\ \A k \in 1 .. n : f[k] = p + k
  BY <1>2, PacketIs
<1> HIDE DEF f
<1> QED BY ONLY <1>1, <1>3

LEMMA CutOut ==
  ASSUME NEW S, NEW d \in Seq(S), NEW a, NEW c, a \in Nat, c \in Nat, c <= Len(d)
  PROVE  /\ SubSeq(d, a + 1, c) \in Seq(S)
         /\ Len(SubSeq(d, a + 1, c)) = IF a < c THEN c - a ELSE 0
         /\ \A k \in 1 .. c - a : SubSeq(d, a + 1, c)[k] = d[a + k]
<1> DEFINE m == a + 1
<1>0. m \in Int /\ c \in Int /\ m \in Nat /\ m >= 1 /\ Len(d) \in Nat
  BY LenProperties
<1>1. \A k \in m .. c : d[k] \in S
  <2> SUFFICES ASSUME NEW k \in m .. c
               PROVE  d[k] \in S
    OBVIOUS
  <2>1. k \in 1 .. Len(d)
    BY <1>0
  <2> QED BY <2>1, ElementOfSeq
<1> HIDE DEF m
<1>2. /\ SubSeq(d, m, c) \in Seq(S)
      /\ Len(SubSeq(d, m, c)) = IF m <= c THEN c - m + 1 ELSE 0
      /\ \A k \in 1 .. c - m + 1 : SubSeq(d, m, c)[k] = d[m + k - 1]
  BY <1>0, <1>1, SubSeqProperties
<1>3. /\ c - m + 1 = c - a /\ (m <= c <=> a < c)
      /\ \A k \in 1 .. c - a : m + k - 1 = a + k
  BY <1>0 DEF m
<1>4. \A k \in 1 .. c - a : SubSeq(d, m, c)[k] = d[a + k]
  BY ONLY <1>2, <1>3
<1>5. Len(SubSeq(d, m, c)) = IF a < c THEN c - a ELSE 0
  BY ONLY <1>2, <1>3
<1> QED BY <1>2, <1>4, <1>5 DEF m

\* udp-server writes what fits.
LEMMA DumpServerStep ==
  ASSUME SizesAssumption, DumpInv, ServerArrive
  PROVE  DumpInv'
<1>0. TypeOK /\ UnderWay /\ PanicOnTail /\ Placed
  BY DEF DumpInv
<1>1. /\ UNCHANGED flags /\ wire # <<>> /\ wire' = <<>> /\ lost' = lost
      /\ sending' = sending /\ receiver' = receiver /\ receiver = "up"
      /\ rounds' = rounds /\ pos' = pos /\ tool = "server"
  BY DEF ServerArrive
<1>2. PICK p \in Nat, n \in Nat \ {0} : OnWire(p, n) /\ Owing(p, n)
  BY <1>0, <1>1 DEF UnderWay
<1>3. kind \in Kinds /\ size \in Nat /\ lost \in BOOLEAN /\ out \in Seq(0 .. size)
      /\ isRtp \in BOOLEAN
  BY <1>0, DumpTyped
<1>4. /\ Header \in Nat /\ Header > 0 /\ Small \in Nat /\ Header < Small
      /\ Block \in Nat /\ Small < Block
  BY <1>3, DumpSizes
<1>5. ~dumpRtp /\ ~Agreed
  BY <1>0, <1>1 DEF Placed, Agreed
<1> DEFINE d == Head(wire)
           c == Least(Len(d), Small)
           w == SubSeq(d, 1, c)
<1>6. /\ d \in Seq(0 .. size)
      /\ isRtp => /\ Len(d) = Header + n
                  /\ \A k \in 1 .. Header + n : d[k] = IF k <= Header THEN 0 ELSE p + k - Header
      /\ ~isRtp => Len(d) = n /\ \A k \in 1 .. n : d[k] = p + k
  BY <1>0, <1>2, WireIs
<1>7. out' = out \o w
  BY DEF ServerArrive
<1> HIDE DEF d
<1>8. /\ c \in Nat /\ c >= 1 /\ c <= Len(d) /\ c <= Small
  BY <1>4, <1>6 DEF Least
<1> HIDE DEF c
<1>9. w \in Seq(0 .. size) /\ Len(w) = c /\ w[1] = d[1]
  <2> DEFINE a == 0
  <2>1. a \in Nat /\ a + 1 = 1 /\ a < c /\ c - a = c /\ 1 \in 1 .. c - a /\ a + 1 = 1
    BY <1>8
  <2> HIDE DEF a
  <2>2. /\ SubSeq(d, a + 1, c) \in Seq(0 .. size)
        /\ Len(SubSeq(d, a + 1, c)) = IF a < c THEN c - a ELSE 0
        /\ \A k \in 1 .. c - a : SubSeq(d, a + 1, c)[k] = d[a + k]
    BY <1>6, <1>8, <2>1, CutOut
  <2>3. SubSeq(d, a + 1, c)[1] = d[a + 1]
    BY ONLY <2>1, <2>2
  <2> QED BY ONLY <2>1, <2>2, <2>3
<1> HIDE DEF w
<1>10. Short => Len(w) <= n /\ (n = Block => Len(w) < n)
  BY <1>4, <1>5, <1>6, <1>8, <1>9 DEF Short
<1>11. Foreign => w # <<>> /\ Strange(w[1])
  <2>1. w # <<>>
    BY <1>8, <1>9, EmptySeq
  <2>2. CASE isRtp
    <3>1. 1 \in 1 .. Header + n /\ 1 <= Header
      BY <1>4
    <3>2. w[1] = 0
      BY <1>6, <1>9, <2>2, <3>1
    <3> QED BY <2>1, <3>2 DEF Strange
  <2>3. CASE ~isRtp
    <3>1. w[1] = p + 1 /\ (p + 1) - 1 = p /\ p % Block = 0
      BY <1>2, <1>6, <1>9, <2>3 DEF OnWire
    <3>2. Foreign => kind = "rtp"
      BY <2>3 DEF Foreign
    <3> QED BY <2>1, <3>1, <3>2 DEF Strange
  <2> QED BY <2>1, <2>2, <2>3
<1>12. PanicOnTail' /\ (Live' => Live) /\ receiver' \in {"up", "over", "panicked"}
  BY <1>1 DEF PanicOnTail, Live
<1> QED BY <1>1, <1>2, <1>3, <1>5, <1>7, <1>9, <1>10, <1>11, <1>12, DumpOffWire

\* multicast-dump writes what follows the header it expects, if anything does.
LEMMA DumpArriveStep ==
  ASSUME SizesAssumption, DumpInv, DumpArrive
  PROVE  DumpInv'
<1>0. TypeOK /\ UnderWay /\ PanicOnTail /\ Placed
  BY DEF DumpInv
<1> DEFINE d == Head(wire)
           hs == headerSize
           c == Least(Len(d), Buffer)
           cut == SubSeq(d, hs + 1, c)
<1>1. /\ UNCHANGED flags /\ wire # <<>> /\ wire' = <<>> /\ lost' = lost
      /\ sending' = sending /\ receiver = "up"
      /\ rounds' = rounds /\ pos' = pos /\ tool = "dump"
      /\ IF c < hs THEN receiver' = "panicked" /\ out' = out
         ELSE out' = out \o cut /\ receiver' = receiver
  BY DEF DumpArrive
<1>2. PICK p \in Nat, n \in Nat \ {0} : OnWire(p, n) /\ Owing(p, n)
  BY <1>0, <1>1 DEF UnderWay
<1>3. kind \in Kinds /\ size \in Nat /\ lost \in BOOLEAN /\ out \in Seq(0 .. size)
      /\ isRtp \in BOOLEAN /\ dumpRtp \in BOOLEAN
  BY <1>0, DumpTyped
<1>4. /\ Header \in Nat /\ Header > 0 /\ Ts \in Nat /\ Header < Ts /\ Wide \in Nat
      /\ Ts + Header < Wide /\ Block \in Nat /\ Block > Header
      /\ (kind = "rtp" => Block = Ts + Header) /\ (kind = "ts" => Block = Ts)
  BY <1>3, DumpSizes
<1>5. /\ n <= Block /\ p + n <= size /\ p % Block = 0
      /\ n < Block => p + n = size
  BY <1>2 DEF OnWire
<1>6. /\ d \in Seq(0 .. size)
      /\ isRtp => /\ Len(d) = Header + n
                  /\ \A k \in 1 .. Header + n : d[k] = IF k <= Header THEN 0 ELSE p + k - Header
      /\ ~isRtp => Len(d) = n /\ \A k \in 1 .. n : d[k] = p + k
  BY <1>0, <1>2, WireIs
<1>7. hs \in Nat /\ (dumpRtp => hs = Header) /\ (~dumpRtp => hs = 0)
  BY <1>3, <1>4 DEF headerSize
<1> HIDE DEF d
<1>8. /\ c \in Nat /\ c <= Len(d) /\ c <= Ts + hs /\ (Len(d) <= Ts + hs => c = Len(d))
      /\ (c = Len(d) \/ c = Ts + hs)
  BY <1>3, <1>4, <1>6, <1>7 DEF Least, Buffer
\* The two ways to agree, and not to.
<1>9. Agreed <=> \/ kind = "ts" /\ (isRtp <=> dumpRtp)
                 \/ kind = "rtp" /\ ~isRtp /\ dumpRtp
  BY <1>1, <1>3 DEF Agreed, Headers, Kinds
<1> HIDE DEF c, hs
<1>10. CASE c < hs
  <2>1. /\ dumpRtp /\ ~isRtp /\ n < Header /\ hs = Header
    BY <1>3, <1>4, <1>6, <1>7, <1>8, <1>10
  <2>2. size % Block = n
    <3>1. p + n = size /\ n < Block
      BY <1>4, <1>5, <2>1
    <3>2. (p + n) % Block = n
      BY <1>4, <1>5, <3>1, ModPlus
    <3> QED BY <3>1, <3>2
  <2>3. PanicOnTail'
    <3>1. size' = size /\ dumpRtp' = dumpRtp /\ isRtp' = isRtp /\ Block' = Block
      BY <1>1, FlagsKept
    <3> QED BY <1>4, <2>1, <2>2, <3>1 DEF PanicOnTail
  <2>4. receiver' = "panicked" /\ out' = out \o <<>>
    BY <1>1, <1>3, <1>10, ConcatEmptySeq
  <2> DEFINE w == <<>>
  <2>5. w \in Seq(0 .. size) /\ out' = out \o w /\ Len(w) <= n /\ Len(w) < n
    BY <2>4, EmptySeq
  <2>6. ~ Live'
    BY <2>4 DEF Live
  <2> HIDE DEF w
  <2> QED BY <1>1, <1>2, <1>3, <2>3, <2>4, <2>5, <2>6, DumpOffWire
<1>11. CASE ~ (c < hs)
  <2> DEFINE w == cut
  <2>1. out' = out \o w /\ receiver' = receiver
    BY <1>1, <1>11
  <2>2. /\ w \in Seq(0 .. size) /\ Len(w) = c - hs /\ Len(w) \in Nat
        /\ \A k \in 1 .. Len(w) : w[k] = d[hs + k]
    <3>1. /\ w \in Seq(0 .. size) /\ Len(w) = IF hs < c THEN c - hs ELSE 0
          /\ \A k \in 1 .. c - hs : w[k] = d[hs + k]
      <4> DEFINE T == 0 .. size
      <4>1. d \in Seq(T) /\ hs \in Nat /\ c \in Nat /\ c <= Len(d)
        BY <1>6, <1>7, <1>8
      <4> HIDE DEF T
      <4>2. /\ SubSeq(d, hs + 1, c) \in Seq(T)
            /\ Len(SubSeq(d, hs + 1, c)) = IF hs < c THEN c - hs ELSE 0
            /\ \A k \in 1 .. c - hs : SubSeq(d, hs + 1, c)[k] = d[hs + k]
        BY ONLY <4>1, CutOut
      <4> QED BY ONLY <4>2 DEF T, w
    <3> HIDE DEF w
    <3> QED BY <1>7, <1>8, <1>11, <3>1
  <2> HIDE DEF w
  <2>3. Agreed => w = Piece(p, n)
    <3> SUFFICES ASSUME Agreed
                 PROVE  w = Piece(p, n)
      OBVIOUS
    <3> DEFINE y == Piece(p, n)
    <3>1. y \in Seq(Nat) /\ w \in Seq(Nat)
      <4>1. 0 .. size \subseteq Nat
        BY <1>3
      <4> QED BY <2>2, <4>1, SeqMonotonic, PieceIs
    <3>2. CASE kind = "ts" /\ (isRtp <=> dumpRtp)
      <4>1. Len(y) = n /\ \A k \in 1 .. n : y[k] = p + k
        BY <3>2, PieceIs
      <4> HIDE DEF y
      <4>2. Len(d) = hs + n /\ c = hs + n
        BY <1>3, <1>4, <1>5, <1>6, <1>7, <1>8, <3>2
      <4>3. \A k \in 1 .. n : d[hs + k] = p + k
        <5> SUFFICES ASSUME NEW k \in 1 .. n
                     PROVE  d[hs + k] = p + k
          OBVIOUS
        <5>1. CASE isRtp
          <6>1. hs = Header /\ hs + k \in 1 .. Header + n /\ ~ (hs + k <= Header)
            BY <1>4, <1>7, <3>2, <5>1
          <6> QED BY <1>4, <1>6, <5>1, <6>1
        <5>2. CASE ~isRtp
          <6>1. hs = 0 /\ hs + k = k
            BY <1>7, <3>2, <5>2
          <6> QED BY <1>6, <5>2, <6>1
        <5> QED BY <5>1, <5>2
      <4>4. Len(w) = n
        BY <1>7, <2>2, <4>2
      <4>5. \A k \in 1 .. Len(w) : w[k] = y[k]
        BY <2>2, <4>1, <4>3, <4>4
      <4> QED BY <3>1, <4>1, <4>4, <4>5, SeqEqual DEF y
    <3>3. CASE kind = "rtp" /\ ~isRtp /\ dumpRtp
      <4>1. /\ Len(y) = IF n > Header THEN n - Header ELSE 0
            /\ \A k \in 1 .. Len(y) : y[k] = p + Header + k
        BY <3>3, PieceIs
      <4> HIDE DEF y
      <4>2. Len(d) = n /\ c = n /\ hs = Header /\ n >= Header
        BY <1>4, <1>5, <1>6, <1>7, <1>8, <1>11, <3>3
      <4>3. Len(w) = Len(y) /\ Len(w) = n - Header
        BY <1>4, <2>2, <4>1, <4>2
      <4>4. ASSUME NEW k \in 1 .. Len(w)
            PROVE  w[k] = y[k]
        <5>1. w[k] = d[Header + k] /\ y[k] = p + Header + k
          BY <2>2, <4>1, <4>2, <4>3
        <5>2. Header + k \in 1 .. n
          BY <1>4, <4>2, <4>3
        <5>3. d[Header + k] = p + (Header + k)
          BY <1>6, <3>3, <5>2
        <5> QED BY <1>4, <5>1, <5>2, <5>3
      <4> QED BY <3>1, <4>3, <4>4, SeqEqual DEF y
    <3> QED BY <1>9, <3>2, <3>3
  <2>4. Short => Len(w) <= n /\ (n = Block => Len(w) < n)
    <3> SUFFICES ASSUME Short
                 PROVE  Len(w) <= n /\ (n = Block => Len(w) < n)
      OBVIOUS
    <3>1. kind # "rtp" /\ (isRtp => dumpRtp) /\ ~Agreed
      BY DEF Short
    <3>2. kind = "wide" \/ (kind = "ts" /\ dumpRtp /\ ~isRtp)
      BY <1>3, <1>9, <3>1 DEF Kinds
    <3>3. Len(d) <= hs + n
      BY <1>3, <1>4, <1>6, <1>7, <3>1
    <3>4. kind = "wide" => Block = Wide
      BY DEF Block
    <3>5. Len(w) <= n
      BY <1>7, <1>8, <2>2, <3>3
    <3>6. ASSUME n = Block
          PROVE  Len(w) < n
      <4>1. CASE kind = "wide"
        BY <1>4, <1>7, <1>8, <2>2, <3>4, <3>6, <4>1
      <4>2. CASE kind = "ts" /\ dumpRtp /\ ~isRtp
        BY <1>4, <1>6, <1>7, <1>8, <2>2, <4>2
      <4> QED BY <3>2, <4>1, <4>2
    <3> QED BY <3>5, <3>6
  <2>5. Foreign => w # <<>> /\ Strange(w[1])
    <3> SUFFICES ASSUME Foreign
                 PROVE  w # <<>> /\ Strange(w[1])
      OBVIOUS
    <3>1. \/ isRtp /\ ~dumpRtp
          \/ kind = "rtp" /\ (isRtp <=> dumpRtp)
      BY <1>3, <1>9 DEF Foreign
    <3>2. hs < c
      BY <1>3, <1>4, <1>6, <1>7, <1>8, <3>1
    <3>3. w # <<>> /\ w[1] = d[hs + 1]
      <4>1. Len(w) > 0 /\ 1 \in 1 .. Len(w)
        BY <1>7, <1>8, <2>2, <3>2
      <4> QED BY <2>2, <4>1, EmptySeq
    <3>4. CASE isRtp /\ ~dumpRtp
      <4>1. hs + 1 = 1 /\ 1 \in 1 .. Header + n /\ 1 <= Header
        BY <1>4, <1>7, <3>4
      <4>2. d[1] = 0
        BY <1>6, <3>4, <4>1
      <4> QED BY <3>3, <4>1, <4>2 DEF Strange
    <3>5. CASE kind = "rtp" /\ (isRtp <=> dumpRtp)
      <4>1. d[hs + 1] = p + 1
        <5>1. CASE isRtp
          <6>1. /\ hs + 1 = Header + 1 /\ Header + 1 \in 1 .. Header + n /\ ~ (Header + 1 <= Header)
                /\ p + (Header + 1) - Header = p + 1
            BY <1>4, <1>7, <3>5, <5>1
          <6> QED BY <1>6, <5>1, <6>1
        <5>2. CASE ~isRtp
          <6>1. hs + 1 = 1 /\ 1 \in 1 .. n
            BY <1>7, <3>5, <5>2
          <6> QED BY <1>6, <5>2, <6>1
        <5> QED BY <5>1, <5>2
      <4>2. (p + 1) - 1 = p
        OBVIOUS
      <4> QED BY <1>5, <3>3, <3>5, <4>1, <4>2 DEF Strange
    <3> QED BY <3>1, <3>4, <3>5
  <2>6. PanicOnTail' /\ (Live' => Live) /\ receiver' \in {"up", "over", "panicked"}
    BY <1>1, <2>1 DEF PanicOnTail, Live
  <2> QED BY <1>1, <1>2, <1>3, <2>1, <2>2, <2>3, <2>4, <2>5, <2>6, DumpOffWire
<1> QED BY <1>10, <1>11

LEMMA DumpStarts ==
  ASSUME SizesAssumption, Init
  PROVE  DumpInv
<1>1. /\ kind \in Kinds /\ size \in Block .. MaxSize
      /\ isRtp \in BOOLEAN /\ repeat \in BOOLEAN /\ tool \in {"dump", "server"}
      /\ dumpRtp \in BOOLEAN /\ (tool = "server" => ~dumpRtp)
      /\ sending = TRUE /\ pos = first /\ wire = <<>> /\ receiver = "up" /\ out = <<>>
      /\ rounds = 0 /\ lost = FALSE
  BY DEF Init
<1>2. /\ Block \in Nat /\ Block > 0 /\ MaxSize \in Nat /\ MaxOffset \in Nat
      /\ MaxRounds \in Nat
  BY <1>1, DumpSizes
<1>3. PICK o \in 0 .. MaxOffset : first = (o \div Block) * Block
  BY DEF Init
<1>4. first \in 0 .. MaxOffset /\ first % Block = 0
  <2> DEFINE q == o \div Block
  <2>1. /\ o = Block * q + (o % Block) /\ q \in Nat
        /\ o % Block \in 0 .. Block - 1 /\ o \in Nat
    BY <1>2, Laps
  <2> HIDE DEF q
  <2>2. first = Block * q + 0 /\ first \in Nat
    BY ONLY <1>2, <1>3, <2>1 DEF q
  <2>3. first <= o
    BY ONLY <1>2, <2>1, <2>2
  <2>4. 0 \in 0 .. Block - 1
    BY <1>2
  <2> QED BY <1>2, <2>1, <2>2, <2>3, <2>4, LapsAre
<1>5. TypeOK
  <2>1. pos \in 0 .. MaxSize + MaxOffset /\ rounds \in 0 .. MaxRounds /\ size \in 1 .. MaxSize
    BY <1>1, <1>2, <1>4
  <2>2. wire \in Seq(Seq(0 .. size)) /\ Len(wire) <= 1 /\ out \in Seq(0 .. size)
    BY <1>1, EmptySeq
  <2> QED BY <1>1, <1>4, <2>1, <2>2 DEF TypeOK
<1>6. Placed
  BY <1>1, <1>2, <1>4 DEF Placed, Begun
<1>7. Sent = <<>>
  <2>1. Over = <<>>
    <3>1. Over \in Seq(Seq(Bytes)) /\ Len(Over) = 0
      BY <1>1, <1>5, SentIs
    <3> QED BY <3>1, EmptySeq
  <2>2. Stream(Begun, pos) = <<>>
    <3>1. Begun = pos /\ pos \in Nat /\ pos >= pos
      BY <1>1, <1>4 DEF Begun
    <3> QED BY <1>1, <3>1, StreamIs
  <2>3. FlattenSeq(<<>>) = <<>>
    BY EmptySeq DEF FlattenSeq
  <2>4. Sent = FlattenSeq(Over) \o Stream(Begun, pos)
    BY <1>5, SentIs
  <2>5. <<>> \o <<>> = <<>>
    BY EmptySeq, ConcatEmptySeq
  <2> QED BY ONLY <2>1, <2>2, <2>3, <2>4, <2>5
<1>8. ~ WholeBlockSent
  BY <1>1, <1>2, <1>4 DEF WholeBlockSent
<1>9. NothingYet
  <2>1. Len(<<>>) = 0
    BY EmptySeq
  <2>2. Untouched
    BY <1>1, <1>4 DEF Untouched, Begun
  <2> QED BY <1>1, <1>7, <1>8, <2>1, <2>2 DEF NothingYet
<1>10. UnderWay
  BY <1>1 DEF UnderWay
<1>11. SentBytes
  <2>1. Len(<<>>) = 0
    BY EmptySeq
  <2> QED BY <1>7, <2>1 DEF SentBytes
<1>12. PanicOnTail
  BY <1>1 DEF PanicOnTail
<1> QED BY <1>5, <1>6, <1>9, <1>10, <1>11, <1>12 DEF DumpInv

LEMMA DumpStep ==
  ASSUME SizesAssumption, DumpInv, [Next]_vars
  PROVE  DumpInv'
<1>0. sending \in BOOLEAN
  BY DEF DumpInv, TypeOK
<1>1. CASE SendBlock
  BY <1>1, DumpSendStep
<1>2. CASE StartOver
  BY <1>2, DumpOverStep
<1>3. CASE SenderEnds
  BY <1>3, DumpEndStep DEF SenderEnds
<1>4. CASE Lose
  BY <1>4, DumpLoseStep
<1>5. CASE DumpArrive
  BY <1>5, DumpArriveStep
<1>6. CASE DumpEnds
  BY <1>0, <1>6, DumpEndStep DEF DumpEnds
<1>7. CASE ServerArrive
  BY <1>7, DumpServerStep
<1>8. CASE UNCHANGED vars
  BY <1>0, <1>8, DumpEndStep DEF vars
<1> QED BY <1>1, <1>2, <1>3, <1>4, <1>5, <1>6, <1>7, <1>8 DEF Next

LEMMA DumpInvExplains ==
  ASSUME SizesAssumption, DumpInv
  PROVE  DumpExplained
<1>0. TypeOK /\ NothingYet /\ SentBytes /\ PanicOnTail /\ Placed
  BY DEF DumpInv
<1>1. /\ kind \in Kinds /\ Len(out) \in Nat /\ Len(Sent) \in Nat
      /\ Sent \in Seq(Bytes) /\ pos \in Nat /\ first \in Nat /\ Begun \in Nat
  BY <1>0, DumpTyped
<1>2. Block \in Nat /\ Block > 0 /\ Header \in Nat /\ Header > 0
  BY <1>1, DumpSizes
<1>3. ASSUME wire = <<>>, Live, ~Agreed, WholeBlockSent, out = Sent
      PROVE  FALSE
  <2>1. Short \/ Foreign
    BY <1>3 DEF Short, Foreign
  <2>2. CASE Short
    BY <1>0, <1>1, <1>3, <2>2 DEF NothingYet
  <2>3. CASE Foreign /\ out # <<>>
    <3>1. 1 \in 1 .. Len(Sent)
      BY <1>1, <1>3, <2>3, EmptySeq
    <3>2. /\ Sent[1] > 0
          /\ kind = "rtp" => (Sent[1] - 1) % Block >= Header
      BY <1>0, <3>1 DEF SentBytes
    <3>3. Strange(Sent[1])
      BY <1>0, <1>3, <2>3 DEF NothingYet
    <3> QED BY <1>2, <3>2, <3>3 DEF Strange
  <2>4. CASE Foreign /\ out = <<>>
    <3>1. Untouched
      BY <1>0, <1>3, <2>4 DEF NothingYet
    <3>2. pos = Begun
      BY <3>1 DEF Untouched, Begun
    <3>3. (IF rounds = 0 THEN pos - first ELSE pos) = 0
      BY <1>1, <3>2 DEF Begun
    <3> QED BY <1>2, <1>3, <3>3 DEF WholeBlockSent
  <2> QED BY <2>1, <2>2, <2>3, <2>4
<1>4. AllArrived => wire = <<>> /\ Live
  BY DEF AllArrived, Live
<1>5. wire = <<>> /\ Live /\ Agreed => out = Sent
  BY <1>0 DEF NothingYet
<1>6. DumpExact
  BY <1>3, <1>4, <1>5 DEF DumpExact
<1> QED BY <1>0, <1>6 DEF DumpExplained

\* For sizes as they are ordered in the code, what is written down is explained.
LEMMA DumpSafe ==
  ASSUME SizesAssumption
  PROVE  Spec => []DumpExplained
<1>1. Init => DumpInv
  BY DumpStarts
<1>2. DumpInv /\ [Next]_vars => DumpInv'
  BY DumpStep
<1>3. DumpInv => DumpExplained
  BY DumpInvExplains
<1> QED BY <1>1, <1>2, <1>3, PTL DEF Spec
=============================================================================
