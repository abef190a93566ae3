--------------------------- MODULE UdpStreamProofs ---------------------------
(***************************************************************************)
(* Proofs about multicast-sender and about a stream on its way to it: for  *)
(* any number of groups, channels of any size, sequence numbers of any     *)
(* width and a file of any length.                                         *)
(***************************************************************************)
EXTENDS UdpStream, SequenceTheorems, TLAPS

-----------------------------------------------------------------------------
(* multicast-sender.                                                       *)

\* The datagrams that were put into the channel of sender s.
Handed(s) == IF s < turn THEN Len(received) ELSE Len(received) - 1

\* Every datagram read is in a buffer of its own, in the order it was read, and
\* the loop hands over the last one.
Buffered ==
  /\ memory = received /\ buf = Len(received)
  /\ turn <= Senders => Len(received) > 0

\* What the loop knows of the numbers.
Compared ==
  /\ last = IF Len(received) = 0 THEN -1 ELSE received[Len(received)].seq
  /\ mismatched = {k \in 2 .. Len(received) :
                     received[k].seq # (received[k - 1].seq + 1) % SeqSpace}

\* A datagram handed to a sender was written, is in the hand of its goroutine or
\* waits in its channel: in this order.
InHand(s) == IF hand[s] = 0 THEN 0 ELSE 1
Placed(s) ==
  /\ Len(out[s]) + InHand(s) + Len(ch[s]) = Handed(s)
  /\ hand[s] # 0 => hand[s] = Len(out[s]) + 1
  /\ \A i \in 1 .. Len(ch[s]) : ch[s][i] = Len(out[s]) + InHand(s) + i
  /\ \A i \in 1 .. Len(out[s]) : out[s][i] = received[i]

GroupInv == TypeOK /\ Buffered /\ Compared /\ \A s \in Ids : Placed(s)

-----------------------------------------------------------------------------
(* Packets and numbers.                                                    *)

\* How often the loop of udp-sender counted before it sent d.
Counted(d) == d.number - 1 + d.round

\* The packets there are and have been.
Seen == toRelay \cup toGroups \cup {received[k] : k \in 1 .. Len(received)}

\* A packet's number is what the loop counted, in SeqSpace numbers.
Numbered(d) ==
  /\ d \in Packets
  /\ d.seq = Counted(d) % SeqSpace
  /\ d.number <= sent /\ d.round <= rounds

StreamInv ==
  /\ GroupInv /\ StreamTypeOK
  /\ seq = sent + rounds
  /\ \A d \in Seen : Numbered(d)
  /\ \A d, e \in Seen : d.number <= e.number => d.round <= e.round

-----------------------------------------------------------------------------
LEMMA TypesUnfold ==
  ASSUME TypeOK
  PROVE  /\ Len(received) \in Nat /\ Len(memory) \in Nat
         /\ \A k \in 1 .. Len(received) : received[k] \in Datagrams
         /\ \A s \in Ids : /\ Len(out[s]) \in Nat /\ Len(ch[s]) \in Nat
                           /\ out[s] \in Seq(Datagrams)
                           /\ ch[s] \in Seq(1 .. Len(memory))
                           /\ hand[s] \in 0 .. Len(memory)
BY ElementOfSeq DEF TypeOK

LEMMA ConstantsTyped ==
  /\ SeqSpace \in Nat /\ SeqSpace > 0 /\ Senders \in Nat /\ ChanCap \in Nat /\ ChanCap > 0
  /\ MaxReceived \in Nat /\ Ids = 1 .. Senders
  /\ \A d \in Datagrams : d.seq \in 0 .. SeqSpace - 1
BY DatagramsAssumption, SendersAssumption DEF Ids

LEMMA GroupInit == Init => GroupInv
<1> SUFFICES ASSUME Init PROVE GroupInv
  OBVIOUS
<1> USE ConstantsTyped
<1>1. <<>> \in Seq(Datagrams) /\ <<>> \in Seq(1 .. 0) /\ Len(<<>>) = 0
  BY EmptySeq
<1>2. TypeOK
  BY <1>1 DEF Init, TypeOK
<1>3. Buffered /\ Compared /\ \A s \in Ids : Placed(s)
  BY <1>1 DEF Init, Buffered, Compared, Placed, Handed, InHand
<1> QED BY <1>2, <1>3 DEF GroupInv

\* Counting what a goroutine took as in its hand.
LEMMA OneInHand ==
  /\ \A k, i \in Nat : k + 1 + i = k + 0 + (i + 1)
  /\ \A k, m \in Nat, n \in Int : n = m - 1 => k + 1 + n = k + 0 + m
OBVIOUS

\* Counting one more in its channel.
LEMMA OneMore ==
  ASSUME NEW a \in Nat, NEW b \in Nat, NEW c \in Nat
  PROVE  a + b + c + 1 = a + b + (c + 1)
OBVIOUS

\* A sender nothing happens to.
LEMMA PlacedStays ==
  ASSUME NEW s \in Ids, Placed(s), Handed(s)' = Handed(s),
         out'[s] = out[s], hand'[s] = hand[s], ch'[s] = ch[s],
         \A i \in 1 .. Len(out[s]) : received'[i] = received[i]
  PROVE  Placed(s)'
<1>1. InHand(s)' = InHand(s)
  BY DEF InHand
<1> QED BY <1>1 DEF Placed

\* A datagram is read: nobody has it yet.
LEMMA ReceiveStep ==
  ASSUME GroupInv, NEW d \in Datagrams, Receive(d)
  PROVE  GroupInv'
<1> USE ConstantsTyped
<1>0. TypeOK /\ Buffered /\ Compared /\ \A s \in Ids : Placed(s)
  BY DEF GroupInv
<1>1. /\ Len(received) \in Nat
      /\ received' \in Seq(Datagrams) /\ Len(received') = Len(received) + 1
      /\ \A k \in 1 .. Len(received) : received'[k] = received[k]
      /\ received'[Len(received')] = d
  BY <1>0, TypesUnfold, AppendProperties DEF Receive, TypeOK
<1>2. memory' = received' /\ buf' = Len(received') /\ turn' = 1
  BY <1>0, <1>1 DEF Receive, Buffered, IntoNewBuffer
<1>3. last' = received'[Len(received')].seq /\ d.seq \in 0 .. SeqSpace - 1
  BY <1>1 DEF Receive
<1>4. mismatched' = {k \in 2 .. Len(received') :
                       received'[k].seq # (received'[k - 1].seq + 1) % SeqSpace}
  <2> DEFINE W == {k \in 2 .. Len(received') :
                       received'[k].seq # (received'[k - 1].seq + 1) % SeqSpace}
  <2>1. \A k \in 2 .. Len(received) : k \in mismatched <=> k \in W
    <3> SUFFICES ASSUME NEW k \in 2 .. Len(received) PROVE k \in mismatched <=> k \in W
      OBVIOUS
    <3>1. received'[k] = received[k] /\ received'[k - 1] = received[k - 1]
      BY <1>1
    <3>2. mismatched = {i \in 2 .. Len(received) :
                         received[i].seq # (received[i - 1].seq + 1) % SeqSpace}
      BY <1>0 DEF Compared
    <3>3. k \in 2 .. Len(received')
      BY ONLY <1>1, k \in 2 .. Len(received)
    <3> QED BY ONLY <3>1, <3>2, <3>3, k \in 2 .. Len(received) DEF W
  <2>2. \A k \in mismatched : k \in 2 .. Len(received)
    BY <1>0 DEF Compared
  <2>3. Len(received) + 1 \in W <=> Mismatch(d)
    <3>1. CASE Len(received) = 0
      BY <3>1, <1>0, <1>1 DEF Compared, Mismatch
    <3>2. CASE Len(received) > 0
      <4>1. last = received[Len(received)].seq /\ last # -1
        BY <3>2, <1>0, TypesUnfold DEF Compared
      <4>2. received'[Len(received) + 1] = d /\ received'[Len(received)] = received[Len(received)]
        BY <3>2, <1>1
      <4>3. Len(received) + 1 \in 2 .. Len(received')
        BY <3>2, <1>1
      <4> QED BY <4>1, <4>2, <4>3, <1>1 DEF Mismatch, Expected
    <3> QED BY <3>1, <3>2, <1>1
  <2>4. mismatched' = mismatched \cup IF Mismatch(d) THEN {Len(received) + 1} ELSE {}
    BY DEF Receive
  <2>5. \A k \in W : k \in 2 .. Len(received) \/ k = Len(received) + 1
    BY <1>1
  <2> QED BY <2>1, <2>2, <2>3, <2>4, <2>5
<1>5. ASSUME NEW s \in Ids PROVE Placed(s)'
  <2>1. Handed(s)' = Handed(s)
    <3>1. turn > Senders /\ s < turn /\ ~(s < turn')
      BY <1>0, <1>2 DEF Receive, Reading, TypeOK
    <3> QED BY <3>1, <1>1 DEF Handed
  <2>2. /\ out'[s] = out[s] /\ hand'[s] = hand[s] /\ ch'[s] = ch[s]
        /\ Len(out[s]) <= Len(received) /\ Len(out[s]) \in Nat /\ Len(ch[s]) \in Nat
    <3>1. Len(out[s]) + InHand(s) + Len(ch[s]) = Handed(s)
      BY <1>0 DEF Placed
    <3>2. Handed(s) \in Int /\ Handed(s) <= Len(received) /\ InHand(s) \in Nat
      BY <1>1 DEF Handed, InHand
    <3>3. Len(out[s]) \in Nat /\ Len(ch[s]) \in Nat
      BY <1>0, TypesUnfold
    <3>4. out'[s] = out[s] /\ hand'[s] = hand[s] /\ ch'[s] = ch[s]
      BY DEF Receive
    <3> QED BY <3>1, <3>2, <3>3, <3>4, <1>1
  <2>3. \A i \in 1 .. Len(out[s]) : received'[i] = received[i]
    <3> TAKE i \in 1 .. Len(out[s])
    <3>1. i \in 1 .. Len(received)
      BY ONLY <2>2, <1>1, i \in 1 .. Len(out[s])
    <3> QED BY ONLY <3>1, <1>1
  <2> QED BY <2>1, <2>2, <2>3, <1>0, PlacedStays
<1>6. TypeOK'
  <2>1. Len(received') <= MaxReceived
    BY <1>0, <1>1 DEF Receive, Reading, TypeOK
  <2>2. ch' \in [Ids -> Seq(1 .. Len(memory'))]
    <3>1. \A s \in Ids : ch[s] \in Seq(1 .. Len(memory'))
      <4> SUFFICES ASSUME NEW s \in Ids PROVE ch[s] \in Seq(1 .. Len(memory'))
        OBVIOUS
      <4>1. 1 .. Len(memory) \subseteq 1 .. Len(memory')
        BY <1>0, <1>1, <1>2 DEF Buffered
      <4> QED BY <4>1, <1>0, TypesUnfold, SeqMonotonic
    <3> QED BY <3>1, <1>0 DEF Receive, TypeOK
  <2>3. hand' \in [Ids -> 0 .. Len(memory')]
    BY <1>0, <1>1, <1>2 DEF Receive, TypeOK, Buffered
  <2>4. mismatched' \subseteq 2 .. Len(received')
    BY <1>4
  <2>5. last' \in -1 .. SeqSpace - 1
    BY <1>3, d.seq \in 0 .. SeqSpace - 1 DEF Receive
  <2>6. turn' \in 1 .. Senders + 1 /\ buf' \in 0 .. Len(memory')
    BY <1>1, <1>2
  <2>7. memory' \in Seq(Datagrams) /\ received' \in Seq(Datagrams)
    BY <1>1, <1>2
  <2>8. alive' = alive /\ ch' = ch /\ hand' = hand /\ out' = out
    BY DEF Receive
  <2>9. alive' \in BOOLEAN /\ out' \in [Ids -> Seq(Datagrams)]
    BY <2>8, <1>0 DEF TypeOK
  <2>10. \A s \in Ids : Len(ch'[s]) <= ChanCap
    BY <2>8, <1>0 DEF TypeOK
  <2> QED BY ONLY <2>1, <2>2, <2>3, <2>4, <2>5, <2>6, <2>7, <2>9, <2>10 DEF TypeOK
<1> QED BY <1>1, <1>2, <1>3, <1>4, <1>5, <1>6 DEF GroupInv, Buffered, Compared

\* The last datagram goes to the end of the channel whose turn it is.
LEMMA HandOverStep == GroupInv /\ HandOver => GroupInv'
<1> SUFFICES ASSUME GroupInv, HandOver PROVE GroupInv'
  OBVIOUS
<1> USE ConstantsTyped
<1>0. TypeOK /\ Buffered /\ Compared /\ \A s \in Ids : Placed(s)
  BY DEF GroupInv
<1>1. turn \in Ids /\ buf \in 1 .. Len(memory) /\ Len(received) \in Nat /\ Len(received) > 0
  BY <1>0, TypesUnfold DEF HandOver, TypeOK, Buffered
<1>2. /\ ch'[turn] \in Seq(1 .. Len(memory)) /\ Len(ch'[turn]) = Len(ch[turn]) + 1
      /\ \A i \in 1 .. Len(ch[turn]) : ch'[turn][i] = ch[turn][i]
      /\ ch'[turn][Len(ch[turn]) + 1] = buf
      /\ \A s \in Ids : s # turn => ch'[s] = ch[s]
  BY <1>0, <1>1, AppendProperties DEF HandOver, TypeOK
<1>3. TypeOK'
  <2>1. ch' \in [Ids -> Seq(1 .. Len(memory))] /\ \A s \in Ids : Len(ch'[s]) <= ChanCap
    <3>1. ch' = [ch EXCEPT ![turn] = Append(@, buf)] /\ Len(ch[turn]) < ChanCap
      BY DEF HandOver
    <3>2. Len(ch[turn]) \in Nat
      BY <1>0, <1>1, TypesUnfold
    <3>3. ch \in [Ids -> Seq(1 .. Len(memory))] /\ \A s \in Ids : Len(ch[s]) <= ChanCap
      BY <1>0 DEF TypeOK
    <3>4. Append(ch[turn], buf) \in Seq(1 .. Len(memory))
      BY <3>3, <1>1, AppendProperties
    <3>5. \A s \in Ids : Len(ch'[s]) <= ChanCap
      <4> SUFFICES ASSUME NEW s \in Ids PROVE Len(ch'[s]) <= ChanCap
        OBVIOUS
      <4>1. CASE s = turn
        BY <4>1, <3>1, <3>2, <1>2
      <4>2. CASE s # turn
        BY <4>2, <3>3, <1>2
      <4> QED BY <4>1, <4>2
    <3> QED BY <3>1, <3>3, <3>4, <3>5
  <2>2. turn' \in 1 .. Senders + 1
    BY <1>1 DEF HandOver
  <2> QED BY <2>1, <2>2, <1>0 DEF TypeOK, HandOver
<1>4. Buffered' /\ Compared'
  BY <1>0, <1>1 DEF HandOver, Buffered, Compared
<1>5. ASSUME NEW s \in Ids PROVE Placed(s)'
  <2>1. Placed(s)
    BY <1>0
  <2>0. Len(out[s]) \in Nat /\ Len(ch[s]) \in Nat /\ InHand(s) \in Nat
    BY <1>0, TypesUnfold DEF InHand
  <2>2. CASE s = turn
    <3>1. Handed(s) = Len(received) - 1 /\ Handed(s)' = Len(received)
      BY <2>2, <1>1 DEF HandOver, Handed
    <3>2. buf = Len(out[s]) + InHand(s) + Len(ch[s]) + 1
      BY <2>1, <3>1, <1>0, <1>1 DEF Placed, Buffered
    <3>3. \A i \in 1 .. Len(ch'[s]) : ch'[s][i] = Len(out[s]) + InHand(s) + i
      <4> SUFFICES ASSUME NEW i \in 1 .. Len(ch[s]) + 1
                   PROVE  ch'[s][i] = Len(out[s]) + InHand(s) + i
        BY <2>2, <1>2
      <4>1. CASE i = Len(ch[s]) + 1
        <5>1. ch'[s][i] = buf
          BY <4>1, <2>2, <1>2
        <5>2. i \in Nat
          BY <2>0
        <5>3. buf = Len(out[s]) + InHand(s) + i
          <6>1. buf = Len(out[s]) + InHand(s) + (Len(ch[s]) + 1)
            BY ONLY <2>0, <3>2, OneMore
          <6> QED BY ONLY <4>1, <6>1
        <5> QED BY <5>1, <5>3
      <4>2. CASE i \in 1 .. Len(ch[s])
        <5>1. ch'[s][i] = ch[s][i]
          BY <4>2, <2>2, <1>2
        <5> QED BY <4>2, <5>1, <2>1 DEF Placed
      <4> QED BY <4>1, <4>2, <2>0, <2>1
    <3>4. InHand(s)' = InHand(s) /\ out' = out /\ hand' = hand /\ received' = received
      BY DEF HandOver, InHand
    <3>5. Len(out[s]) + InHand(s) + Len(ch'[s]) = Handed(s)'
      <4>1. Len(ch'[s]) = Len(ch[s]) + 1 /\ Len(received) \in Nat
        BY <2>2, <1>1, <1>2
      <4>2. Len(out[s]) + InHand(s) + Len(ch[s]) = Len(received) - 1
        BY <2>1, <3>1 DEF Placed
      <4>3. Len(out[s]) + InHand(s) + Len(ch'[s]) = Len(received)
        <5>1. Len(out[s]) + InHand(s) + (Len(ch[s]) + 1) = Len(received)
          <6>1. Len(out[s]) + InHand(s) + Len(ch[s]) + 1 = Len(received)
            BY ONLY <4>1, <4>2
          <6> QED BY ONLY <6>1, <2>0, OneMore
        <5> QED BY ONLY <5>1, <4>1
      <4> QED BY <4>3, <3>1
    <3> QED BY <2>1, <3>3, <3>4, <3>5 DEF Placed
  <2>3. CASE s # turn
    <3>1. Handed(s)' = Handed(s) /\ ch'[s] = ch[s]
      BY <2>3, <1>1, <1>2 DEF HandOver, Handed
    <3>2. out' = out /\ hand' = hand /\ received' = received
      BY DEF HandOver
    <3> QED BY <2>1, <3>1, <3>2, PlacedStays
  <2> QED BY <2>2, <2>3
<1> QED BY <1>3, <1>4, <1>5 DEF GroupInv

\* The first of the channel goes to the hand of the goroutine.
LEMMA TakeStep ==
  ASSUME GroupInv, NEW t \in Ids, Take(t)
  PROVE  GroupInv'
<1> USE ConstantsTyped
<1>0. TypeOK /\ Buffered /\ Compared /\ \A s \in Ids : Placed(s)
  BY DEF GroupInv
<1>1. /\ Len(ch[t]) \in Nat /\ Len(ch[t]) > 0 /\ Len(memory) \in Nat
      /\ hand'[t] = ch[t][1] /\ hand'[t] \in 1 .. Len(memory)
      /\ ch'[t] \in Seq(1 .. Len(memory)) /\ Len(ch'[t]) = Len(ch[t]) - 1
      /\ \A i \in 1 .. Len(ch'[t]) : ch'[t][i] = ch[t][i + 1]
      /\ \A s \in Ids : s # t => ch'[s] = ch[s] /\ hand'[s] = hand[s]
  <2>1. ch[t] \in Seq(1 .. Len(memory)) /\ ch[t] # <<>> /\ Len(memory) \in Nat
    BY <1>0, TypesUnfold DEF Take
  <2>2. Len(ch[t]) \in Nat \ {0}
    BY <2>1, EmptySeq
  <2>3. Head(ch[t]) = ch[t][1]
    OBVIOUS
  <2>4. /\ hand' = [hand EXCEPT ![t] = Head(ch[t])] /\ ch' = [ch EXCEPT ![t] = Tail(@)]
        /\ hand \in [Ids -> 0 .. Len(memory)] /\ ch \in [Ids -> Seq(1 .. Len(memory))]
    BY <1>0 DEF Take, TypeOK
  <2>5. /\ Head(ch[t]) \in 1 .. Len(memory)
        /\ Tail(ch[t]) \in Seq(1 .. Len(memory)) /\ Len(Tail(ch[t])) = Len(ch[t]) - 1
        /\ \A i \in 1 .. Len(Tail(ch[t])) : Tail(ch[t])[i] = ch[t][i + 1]
    BY <2>1, HeadTailProperties
  <2>6. hand'[t] = Head(ch[t]) /\ ch'[t] = Tail(ch[t])
    BY <2>4
  <2>7. \A s \in Ids : s # t => ch'[s] = ch[s] /\ hand'[s] = hand[s]
    BY <2>4
  <2>8. Len(ch[t]) > 0 /\ hand'[t] = ch[t][1] /\ hand'[t] \in 1 .. Len(memory)
    BY ONLY <2>2, <2>3, <2>5, <2>6
  <2>9. /\ ch'[t] \in Seq(1 .. Len(memory)) /\ Len(ch'[t]) = Len(ch[t]) - 1
        /\ \A i \in 1 .. Len(ch'[t]) : ch'[t][i] = ch[t][i + 1]
    BY ONLY <2>5, <2>6
  <2> QED BY ONLY <2>1, <2>2, <2>7, <2>8, <2>9
<1>2. TypeOK'
  <2>1. /\ ch' \in [Ids -> Seq(1 .. Len(memory))] /\ \A s \in Ids : Len(ch'[s]) <= ChanCap
        /\ hand' \in [Ids -> 0 .. Len(memory)]
    <3>1. /\ ch' = [ch EXCEPT ![t] = Tail(@)] /\ hand' = [hand EXCEPT ![t] = Head(ch[t])]
          /\ hand \in [Ids -> 0 .. Len(memory)] /\ ch \in [Ids -> Seq(1 .. Len(memory))]
          /\ \A s \in Ids : Len(ch[s]) <= ChanCap
      BY <1>0 DEF Take, TypeOK
    <3>2. ch' \in [Ids -> Seq(1 .. Len(memory))] /\ hand' \in [Ids -> 0 .. Len(memory)]
      <4>1. Tail(ch[t]) \in Seq(1 .. Len(memory)) /\ Head(ch[t]) \in 0 .. Len(memory)
        BY ONLY <3>1, <1>1, t \in Ids
      <4> QED BY ONLY <3>1, <4>1
    <3>3. ASSUME NEW s \in Ids PROVE Len(ch'[s]) <= ChanCap
      <4>1. CASE s = t
        BY ONLY <4>1, <3>1, <1>1, ConstantsTyped
      <4>2. CASE s # t
        BY ONLY <4>2, <3>1, <3>3, <1>1
      <4> QED BY <4>1, <4>2
    <3> QED BY <3>2, <3>3
  <2> QED BY <2>1, <1>0 DEF TypeOK, Take, loopVars
<1>3. Buffered' /\ Compared'
  BY <1>0 DEF Take, loopVars, Buffered, Compared
<1>4. ASSUME NEW s \in Ids PROVE Placed(s)'
  <2>1. Placed(s)
    BY <1>0
  <2>0. Len(out[s]) \in Nat /\ Len(ch[s]) \in Nat /\ Len(received) \in Nat
    BY <1>0, TypesUnfold
  <2>2. Handed(s)' = Handed(s) /\ out'[s] = out[s] /\ received' = received
    BY DEF Take, loopVars, Handed
  <2>3. CASE s = t
    <3>1. InHand(s) = 0 /\ InHand(s)' = 1
      BY <2>3, <1>1 DEF InHand, Take
    <3>2. hand'[s] = Len(out[s]) + 1
      BY <2>0, <2>1, <2>3, <3>1, <1>1 DEF Placed
    <3>3. \A i \in 1 .. Len(ch'[s]) : ch'[s][i] = Len(out[s]) + 1 + i
      <4> SUFFICES ASSUME NEW i \in 1 .. Len(ch'[s])
                   PROVE  ch'[s][i] = Len(out[s]) + 1 + i
        OBVIOUS
      <4>0. i \in 1 .. Len(ch[s]) - 1
        BY ONLY <2>3, <1>1, i \in 1 .. Len(ch'[s])
      <4>1. i + 1 \in 1 .. Len(ch[s]) /\ ch'[s][i] = ch[s][i + 1]
        BY ONLY <4>0, <2>0, <2>3, <1>1, i \in 1 .. Len(ch'[s])
      <4>2. ch[s][i + 1] = Len(out[s]) + 0 + (i + 1)
        BY <4>1, <2>1, <3>1 DEF Placed
      <4>3. i \in Nat
        BY <2>0, <2>3, <1>1
      <4>4. Len(out[s]) + 1 + i = Len(out[s]) + 0 + (i + 1)
        BY <4>3, <2>0, OneInHand, Zenon
      <4> QED BY <4>1, <4>2, <4>4
    <3>4. Len(out[s]) + 1 + Len(ch'[s]) = Handed(s)
      <4>1. Len(out[s]) + 0 + Len(ch[s]) = Handed(s)
        BY <2>1, <3>1 DEF Placed
      <4>2. Len(ch'[s]) = Len(ch[s]) - 1
        BY <2>3, <1>1
      <4>3. Len(out[s]) + 1 + Len(ch'[s]) = Len(out[s]) + 0 + Len(ch[s])
        <5>1. Len(ch'[s]) \in Int
          BY <4>2, <2>0
        <5> QED BY ONLY <5>1, <4>2, <2>0, OneInHand
      <4> QED BY <4>1, <4>3
    <3>5. \A i \in 1 .. Len(out[s]) : out[s][i] = received[i]
      BY <2>1 DEF Placed
    <3> QED BY <2>2, <3>1, <3>2, <3>3, <3>4, <3>5 DEF Placed
  <2>4. CASE s # t
    BY <2>1, <2>2, <2>4, <1>1, PlacedStays
  <2> QED BY <2>3, <2>4
<1> QED BY <1>2, <1>3, <1>4 DEF GroupInv

\* The datagram in hand is the next one of the group.
LEMMA WriteStep ==
  ASSUME GroupInv, NEW t \in Ids, Write(t)
  PROVE  GroupInv'
<1> USE ConstantsTyped
<1>0. TypeOK /\ Buffered /\ Compared /\ \A s \in Ids : Placed(s)
  BY DEF GroupInv
<1>1. /\ Len(out[t]) \in Nat /\ hand[t] = Len(out[t]) + 1 /\ hand[t] \in 1 .. Len(received)
      /\ memory[hand[t]] = received[hand[t]] /\ received[hand[t]] \in Datagrams
  BY <1>0, TypesUnfold DEF Write, Placed, Buffered
<1>2. /\ out'[t] \in Seq(Datagrams) /\ Len(out'[t]) = Len(out[t]) + 1
      /\ \A i \in 1 .. Len(out[t]) : out'[t][i] = out[t][i]
      /\ out'[t][Len(out[t]) + 1] = received[Len(out[t]) + 1]
      /\ \A s \in Ids : s # t => out'[s] = out[s]
  BY <1>0, <1>1, AppendProperties DEF Write, TypeOK
<1>3. TypeOK'
  <2>1. out' \in [Ids -> Seq(Datagrams)] /\ hand' \in [Ids -> 0 .. Len(memory)]
    BY <1>0, <1>1, <1>2 DEF Write, TypeOK
  <2> QED BY <2>1, <1>0 DEF TypeOK, Write, loopVars
<1>4. Buffered' /\ Compared'
  BY <1>0 DEF Write, loopVars, Buffered, Compared
<1>5. ASSUME NEW s \in Ids PROVE Placed(s)'
  <2>1. Placed(s)
    BY <1>0
  <2>0. Len(out[s]) \in Nat /\ Len(ch[s]) \in Nat /\ Len(received) \in Nat
    BY <1>0, TypesUnfold
  <2>2. Handed(s)' = Handed(s) /\ ch'[s] = ch[s] /\ received' = received
    BY DEF Write, loopVars, Handed
  <2>3. CASE s = t
    <3>1. InHand(s) = 1 /\ InHand(s)' = 0 /\ hand'[s] = 0
      BY <2>3, <1>0, <1>1 DEF InHand, Write, TypeOK
    <3>2. \A i \in 1 .. Len(out'[s]) : out'[s][i] = received[i]
      <4>1. \A i \in 1 .. Len(out[s]) : out[s][i] = received[i]
        BY <2>1 DEF Placed
      <4>2. /\ Len(out'[s]) = Len(out[s]) + 1
            /\ \A i \in 1 .. Len(out[s]) : out'[s][i] = out[s][i]
            /\ out'[s][Len(out[s]) + 1] = received[Len(out[s]) + 1]
        BY ONLY <2>3, <1>2
      <4>3. \A i \in 1 .. Len(out'[s]) : i \in 1 .. Len(out[s]) \/ i = Len(out[s]) + 1
        BY ONLY <4>2, <2>0
      <4> QED BY ONLY <4>1, <4>2, <4>3
    <3>3. Len(out'[s]) + 0 + Len(ch[s]) = Handed(s)
      <4>1. Len(out[s]) + 1 + Len(ch[s]) = Handed(s)
        BY <2>1, <3>1 DEF Placed
      <4>2. Len(out'[s]) = Len(out[s]) + 1
        BY <2>3, <1>2
      <4>3. Len(out'[s]) + 0 + Len(ch[s]) = Len(out[s]) + 1 + Len(ch[s])
        BY <4>2, <2>0
      <4> QED BY <4>1, <4>3
    <3>4. \A i \in 1 .. Len(ch[s]) : ch[s][i] = Len(out'[s]) + 0 + i
      <4> SUFFICES ASSUME NEW i \in 1 .. Len(ch[s]) PROVE ch[s][i] = Len(out'[s]) + 0 + i
        OBVIOUS
      <4>1. ch[s][i] = Len(out[s]) + 1 + i
        BY <2>1, <3>1 DEF Placed
      <4> QED BY <4>1, <2>0, <2>1, <2>3, <1>2
    <3> QED BY <2>2, <3>1, <3>2, <3>3, <3>4 DEF Placed
  <2>4. CASE s # t
    <3>1. hand'[s] = hand[s] /\ out'[s] = out[s]
      BY <2>4, <1>0, <1>2 DEF Write, TypeOK
    <3> QED BY <2>1, <2>2, <3>1, PlacedStays
  <2> QED BY <2>3, <2>4
<1> QED BY <1>3, <1>4, <1>5 DEF GroupInv

\* All other steps leave the datagrams where they are.
LEMMA GroupInvNext == GroupInv /\ [Next]_vars => GroupInv'
<1> SUFFICES ASSUME GroupInv, [Next]_vars PROVE GroupInv'
  OBVIOUS
<1>1. CASE HandOver
  BY <1>1, HandOverStep
<1>2. ASSUME NEW s \in Ids, Take(s) \/ Write(s) PROVE GroupInv'
  BY <1>2, TakeStep, WriteStep
<1>3. ASSUME NEW d \in Datagrams, Receive(d) PROVE GroupInv'
  BY <1>3, ReceiveStep
<1>4. ASSUME UNCHANGED <<loopVars, ch, hand, out>>, alive' \in BOOLEAN PROVE GroupInv'
  BY <1>4 DEF GroupInv, TypeOK, Buffered, Compared, Placed, Handed, InHand, loopVars
<1>5. CASE (\E s \in Ids : WriteFails(s)) \/ ReadFails
  BY <1>4, <1>5 DEF WriteFails, ReadFails
<1>6. CASE UNCHANGED vars
  BY <1>4, <1>6 DEF vars, GroupInv, TypeOK
<1> QED BY <1>1, <1>2, <1>3, <1>5, <1>6 DEF Next, Forward

\* Every datagram that was read is, for each group, written, in hand, in its
\* channel or still to be handed over, in this order (l.81-99, l.127-135).
THEOREM GroupSafe == Spec => []GroupInv
BY GroupInit, GroupInvNext, PTL DEF Spec

\* Every group gets a prefix of what was read: in order, nothing left out,
\* nothing twice, whatever waits where.
THEOREM StreamIsSame == Spec => []SameStream
<1>1. GroupInv => SameStream
  <2> SUFFICES ASSUME GroupInv, NEW s \in Ids
               PROVE  out[s] = SubSeq(received, 1, Len(out[s]))
    BY DEF SameStream
  <2> DEFINE n == Len(out[s])
  <2>1. TypeOK /\ Placed(s)
    BY DEF GroupInv
  <2>2. n \in Nat /\ out[s] \in Seq(Datagrams)
    BY <2>1, TypesUnfold
  <2>3. \A i \in 1 .. n : received[i] \in Datagrams /\ out[s][i] = received[i]
    BY <2>1, <2>2, ElementOfSeq DEF Placed
  <2>4. /\ SubSeq(received, 1, n) \in Seq(Datagrams)
        /\ Len(SubSeq(received, 1, n)) = n
        /\ \A i \in 1 .. n : SubSeq(received, 1, n)[i] = received[i]
    <3>1. \A i \in 1 .. n - 1 + 1 : received[1 + i - 1] = received[i]
      BY <2>2
    <3> HIDE DEF n
    <3> QED BY <2>2, <2>3, <3>1, SubSeqProperties
  <2> QED BY <2>2, <2>3, <2>4, SeqEqual
<1> QED BY <1>1, GroupSafe, PTL

\* How far a sender can be behind what it was handed.
LEMMA Behind ==
  ASSUME NEW a \in Nat, NEW h \in Nat, NEW c \in Nat, NEW g \in Int,
         NEW b \in Nat, NEW k \in Nat, NEW e \in Nat, NEW f \in Int,
         a + h + c = g, b + k + e = f, k <= 1, e <= ChanCap
  PROVE  /\ g <= f => a <= b + ChanCap + 1
         /\ g <= f + 1 => a <= b + ChanCap + 2
BY ConstantsTyped

\* No group is further ahead of another than a channel, the hand and the
\* datagram being handed over can hold.
THEOREM LagIsBounded == Spec => []LagBounded
<1>1. GroupInv => LagBounded
  <2> SUFFICES ASSUME GroupInv, NEW s \in Ids, NEW t \in Ids
               PROVE  Len(out[s]) <= Len(out[t]) + ChanCap + (IF t < s THEN 1 ELSE 2)
    BY DEF LagBounded, GroupInv
  <2>1. /\ Len(out[s]) \in Nat /\ Len(ch[s]) \in Nat /\ InHand(s) \in Nat
        /\ Len(out[t]) \in Nat /\ Len(ch[t]) \in Nat /\ InHand(t) \in Nat /\ InHand(t) <= 1
        /\ Len(ch[t]) <= ChanCap /\ Len(received) \in Nat /\ turn \in Nat
    <3>1. TypeOK
      BY DEF GroupInv
    <3>2. InHand(s) \in Nat /\ InHand(t) \in Nat /\ InHand(t) <= 1
      BY DEF InHand
    <3>3. Len(ch[t]) <= ChanCap /\ turn \in Nat
      BY <3>1, ConstantsTyped DEF TypeOK
    <3> QED BY <3>1, <3>2, <3>3, TypesUnfold
  <2>2. /\ Len(out[s]) + InHand(s) + Len(ch[s]) = Handed(s)
        /\ Len(out[t]) + InHand(t) + Len(ch[t]) = Handed(t)
    BY DEF GroupInv, Placed
  <2>3. s \in Int /\ t \in Int
    BY ConstantsTyped
  <2>4. Handed(s) \in Int /\ Handed(t) \in Int
    BY <2>1 DEF Handed
  <2>5. CASE t < s
    <3>1. Handed(s) <= Handed(t)
      BY <2>1, <2>3, <2>5 DEF Handed
    <3> QED BY <2>1, <2>2, <2>4, <2>5, <3>1, Behind
  <2>6. CASE ~(t < s)
    <3>1. Handed(s) <= Handed(t) + 1
      BY <2>1 DEF Handed
    <3> QED BY <2>1, <2>2, <2>4, <2>6, <3>1, Behind
  <2> QED BY <2>5, <2>6
<1> QED BY <1>1, GroupSafe, PTL

-----------------------------------------------------------------------------
(* The numbers of packets: what the loop counted, modulo SeqSpace.         *)

LEMMA Remainder ==
  ASSUME NEW a \in Nat
  PROVE  /\ a = SeqSpace * (a \div SeqSpace) + (a % SeqSpace)
         /\ a \div SeqSpace \in Int /\ a % SeqSpace \in 0 .. SeqSpace - 1
BY ConstantsTyped

LEMMA RemainderIs ==
  ASSUME NEW q \in Int, NEW r \in 0 .. SeqSpace - 1
  PROVE  (SeqSpace * q + r) % SeqSpace = r
BY ConstantsTyped

\* The number after the number of a is the number of a + 1.
LEMMA NextNumber ==
  ASSUME NEW a \in Nat
  PROVE  ((a % SeqSpace) + 1) % SeqSpace = (a + 1) % SeqSpace
<1> DEFINE q == a \div SeqSpace  r == a % SeqSpace
<1>1. a = SeqSpace * q + r /\ q \in Int /\ r \in 0 .. SeqSpace - 1
  BY Remainder
<1>2. SeqSpace \in Nat /\ SeqSpace > 0
  BY ConstantsTyped
<1> HIDE DEF q, r
<1>3. CASE r + 1 < SeqSpace
  <2>1. r + 1 \in 0 .. SeqSpace - 1 /\ 0 \in Int
    BY <1>1, <1>2, <1>3
  <2>2. (SeqSpace * q + (r + 1)) % SeqSpace = r + 1
    BY <2>1, <1>1, RemainderIs
  <2>3. (SeqSpace * 0 + (r + 1)) % SeqSpace = r + 1
    BY <2>1, RemainderIs
  <2>4. SeqSpace * q + (r + 1) = a + 1 /\ SeqSpace * 0 + (r + 1) = r + 1
    BY <1>1, <1>2
  <2> QED BY <2>2, <2>3, <2>4 DEF r
<1>4. CASE r + 1 = SeqSpace
  <2>1. q + 1 \in Int /\ 1 \in Int /\ 0 \in 0 .. SeqSpace - 1
    BY <1>1, <1>2
  <2>2. (SeqSpace * (q + 1) + 0) % SeqSpace = 0
    BY <2>1, RemainderIs
  <2>3. (SeqSpace * 1 + 0) % SeqSpace = 0
    BY <2>1, RemainderIs
  <2>4. SeqSpace * (q + 1) + 0 = a + 1 /\ SeqSpace * 1 + 0 = r + 1
    BY <1>1, <1>2, <1>4
  <2> QED BY <2>2, <2>3, <2>4 DEF r
<1> QED BY <1>1, <1>2, <1>3, <1>4

\* A number that comes after another one hides whole rounds of the numbers only.
LEMMA HiddenRounds ==
  ASSUME NEW a \in Nat, NEW b \in Nat, a % SeqSpace = ((b % SeqSpace) + 1) % SeqSpace
  PROVE  a = b + 1 \/ a - b > SeqSpace \/ a - b <= 1 - SeqSpace
<1> DEFINE c == b + 1
<1>1. c \in Nat /\ a % SeqSpace = c % SeqSpace
  BY NextNumber
<1> DEFINE q == a \div SeqSpace  p == c \div SeqSpace  r == a % SeqSpace
<1>2. a = SeqSpace * q + r /\ q \in Int /\ r \in Int
  BY Remainder
<1>3. c = SeqSpace * p + r /\ p \in Int
  BY <1>1, Remainder
<1>4. SeqSpace \in Nat /\ SeqSpace > 0
  BY ConstantsTyped
<1> HIDE DEF q, p, r
<1>5. a - c = SeqSpace * (q - p)
  BY <1>2, <1>3, <1>4
<1>6. CASE q = p
  BY <1>2, <1>3, <1>6
<1>7. CASE q - p >= 1
  <2>1. SeqSpace * (q - p) >= SeqSpace
    BY <1>2, <1>3, <1>4, <1>7
  <2> QED BY <2>1, <1>4, <1>5
<1>8. CASE q - p <= -1
  <2>1. SeqSpace * (q - p) <= - SeqSpace
    BY <1>2, <1>3, <1>4, <1>8
  <2> QED BY <2>1, <1>4, <1>5
<1> QED BY <1>2, <1>3, <1>6, <1>7, <1>8

-----------------------------------------------------------------------------
(* The stream.                                                             *)

\* What the groups see of the stream is a step of multicast-sender.
LEMMA StreamStepIsGroupStep == StreamTypeOK /\ [StreamNext]_streamVars => [Next]_vars
<1> SUFFICES ASSUME StreamTypeOK, [StreamNext]_streamVars PROVE [Next]_vars
  OBVIOUS
<1>1. CASE SendBlock \/ StartOver \/ SenderEnds \/ Relay \/ Lose
  BY <1>1 DEF SendBlock, StartOver, SenderEnds, Relay, Lose, groupState
<1>2. CASE Arrive
  BY <1>2 DEF Arrive, Next, StreamTypeOK
<1>3. CASE GroupStep
  BY <1>3 DEF GroupStep, Next
<1>4. CASE UNCHANGED streamVars
  BY <1>4 DEF streamVars
<1> QED BY <1>1, <1>2, <1>3, <1>4 DEF StreamNext

LEMMA StreamStarts == StreamInit => StreamInv
<1> SUFFICES ASSUME StreamInit PROVE StreamInv
  OBVIOUS
<1>1. GroupInv
  BY GroupInit DEF StreamInit
<1>2. Seen = {}
  BY EmptySeq DEF StreamInit, Init, Seen
<1> QED BY <1>1, <1>2, FileAssumption DEF StreamInit, StreamInv, StreamTypeOK, GroupInv

LEMMA InSeen ==
  \A d : d \in Seen <=> \/ d \in toRelay \/ d \in toGroups
                        \/ \E k \in 1 .. Len(received) : d = received[k]
BY DEF Seen

LEMMA InSeenNext ==
  \A d : d \in Seen' <=> \/ d \in toRelay' \/ d \in toGroups'
                         \/ \E k \in 1 .. Len(received') : d = received'[k]
BY DEF Seen

LEMMA PacketTypes ==
  ASSUME NEW d \in Packets
  PROVE  /\ d.number \in Nat /\ d.number >= 1 /\ d.round \in Nat
         /\ Counted(d) \in Nat /\ Counted(d) = d.number - 1 + d.round
<1>1. d.number \in Nat /\ d.number >= 1 /\ d.round \in Nat
  BY FileAssumption DEF Packets
<1> DEFINE n == d.number  r == d.round
<1>2. n \in Nat /\ n >= 1 /\ r \in Nat
  BY <1>1
<1> HIDE DEF n, r
<1>3. n - 1 + r \in Nat
  BY <1>2
<1> QED BY <1>1, <1>3 DEF n, r, Counted

\* Only udp-sender makes packets: relay, network and groups pass on what they got.
LEMMA NoNewPackets ==
  ASSUME StreamInv, [StreamNext]_streamVars
  PROVE  Seen' \subseteq Seen \/ (SendBlock /\ Seen' = Seen \cup {Packet})
<1>0. StreamTypeOK /\ TypeOK
  BY DEF StreamInv, StreamTypeOK
<1>1. CASE SendBlock
  <2>1. toRelay' = toRelay \cup {Packet} /\ toGroups' = toGroups /\ received' = received
    BY <1>1 DEF SendBlock, groupState, vars, loopVars
  <2> QED BY <1>1, <2>1 DEF Seen
<1>2. CASE StartOver \/ SenderEnds \/ Relay \/ Lose
  <2>1. /\ toRelay' \subseteq toRelay /\ toGroups' \subseteq toGroups \cup toRelay
        /\ received' = received
    BY <1>2 DEF StartOver, SenderEnds, Relay, Lose, groupState, vars, loopVars
  <2>2. ASSUME NEW d \in Seen' PROVE d \in Seen
    <3>1. d \in toRelay' \/ d \in toGroups' \/ \E k \in 1 .. Len(received') : d = received'[k]
      BY <2>2, InSeenNext
    <3> QED BY <2>1, <3>1, InSeen
  <2> QED BY <2>2
<1>3. CASE Arrive
  <2>1. PICK p \in toGroups : received' = Append(received, p)
    BY <1>3 DEF Arrive, Receive
  <2>2. toRelay' = toRelay /\ toGroups' \subseteq toGroups
    BY <1>3 DEF Arrive
  <2>3. /\ Len(received) \in Nat /\ Len(received') = Len(received) + 1
        /\ \A k \in 1 .. Len(received) : received'[k] = received[k]
        /\ received'[Len(received) + 1] = p
    BY <2>1, <1>0, TypesUnfold, AppendProperties DEF StreamTypeOK, TypeOK
  <2>4. ASSUME NEW k \in 1 .. Len(received')
        PROVE  received'[k] = p \/ \E l \in 1 .. Len(received) : received'[k] = received[l]
    <3>1. k = Len(received) + 1 \/ k \in 1 .. Len(received)
      BY <2>3
    <3> QED BY <2>3, <3>1
  <2>5. ASSUME NEW d \in Seen' PROVE d \in Seen
    <3>1. d \in toRelay' \/ d \in toGroups' \/ \E k \in 1 .. Len(received') : d = received'[k]
      BY <2>5, InSeenNext
    <3>2. p \in Seen
      BY InSeen
    <3> QED BY <2>2, <2>4, <3>1, <3>2, InSeen
  <2> QED BY <2>5
<1>4. CASE GroupStep \/ UNCHANGED streamVars
  <2>1. toRelay' = toRelay /\ toGroups' = toGroups /\ received' = received
    BY <1>4 DEF GroupStep, Forward, HandOver, Take, Write, WriteFails, ReadFails,
                loopVars, streamVars, vars
  <2>2. ASSUME NEW d \in Seen' PROVE d \in Seen
    <3>1. d \in toRelay' \/ d \in toGroups' \/ \E k \in 1 .. Len(received') : d = received'[k]
      BY <2>2, InSeenNext
    <3> QED BY <2>1, <3>1, InSeen
  <2> QED BY <2>2
<1> QED BY <1>1, <1>2, <1>3, <1>4 DEF StreamNext

\* The packet the loop sends has the number it counts.
LEMMA PacketNumbered ==
  ASSUME StreamInv, SendBlock
  PROVE  /\ Packet \in Packets /\ Packet.seq = Counted(Packet) % SeqSpace
         /\ Packet.number = sent + 1 /\ Packet.round = rounds
<1>1. sent \in Nat /\ sent < MaxSent /\ rounds \in 0 .. MaxRounds /\ seq = sent + rounds
  BY FileAssumption DEF StreamInv, StreamTypeOK, SendBlock
<1>2. MaxSent \in Nat /\ MaxRounds \in Nat
  BY FileAssumption
<1>3. Packet.number = sent + 1 /\ Packet.round = rounds /\ Packet.seq = seq % SeqSpace
  BY DEF Packet
<1>4. Counted(Packet) = seq /\ seq \in Nat
  BY <1>1, <1>2, <1>3 DEF Counted
<1>5. seq % SeqSpace \in 0 .. SeqSpace - 1
  BY <1>4, Remainder
<1>6. sent + 1 \in 1 .. MaxSent
  BY <1>1, <1>2
<1> QED BY <1>1, <1>3, <1>4, <1>5, <1>6 DEF Packet, Packets

\* udp-sender counts up.
LEMMA SenderCounts ==
  ASSUME StreamInv, [StreamNext]_streamVars
  PROVE  /\ sent' \in 0 .. MaxSent /\ rounds' \in 0 .. MaxRounds /\ seq' = sent' + rounds'
         /\ sent' = (IF SendBlock THEN sent + 1 ELSE sent) /\ rounds' >= rounds
         /\ SendBlock => rounds' = rounds
<1>1. sent \in 0 .. MaxSent /\ rounds \in 0 .. MaxRounds /\ seq = sent + rounds
  BY DEF StreamInv, StreamTypeOK
<1>2. MaxSent \in Nat /\ MaxRounds \in Nat
  BY FileAssumption
<1>3. CASE SendBlock
  BY <1>1, <1>2, <1>3 DEF SendBlock
<1>4. CASE StartOver
  BY <1>1, <1>2, <1>4 DEF StartOver, SendBlock
<1>5. CASE SenderEnds \/ Relay \/ Lose \/ Arrive \/ GroupStep \/ UNCHANGED streamVars
  <2>1. sent' = sent /\ rounds' = rounds /\ seq' = seq
    BY <1>5 DEF SenderEnds, Relay, Lose, Arrive, GroupStep, senderState, streamVars
  <2> QED BY <2>1, <1>1, <1>2 DEF SendBlock
<1> QED BY <1>3, <1>4, <1>5 DEF StreamNext

LEMMA StreamStep == StreamInv /\ [StreamNext]_streamVars => StreamInv'
<1> SUFFICES ASSUME StreamInv, [StreamNext]_streamVars PROVE StreamInv'
  OBVIOUS
<1>1. StreamTypeOK /\ GroupInv /\ sent \in Int /\ rounds \in Int
  BY FileAssumption DEF StreamInv, StreamTypeOK
<1>2. GroupInv'
  BY <1>1, StreamStepIsGroupStep, GroupInvNext
<1>3. /\ sent' \in 0 .. MaxSent /\ rounds' \in 0 .. MaxRounds /\ seq' = sent' + rounds'
      /\ sent' = (IF SendBlock THEN sent + 1 ELSE sent) /\ rounds' >= rounds
      /\ SendBlock => rounds' = rounds
  BY SenderCounts
<1>4. \A d \in Seen : Numbered(d)
  BY DEF StreamInv
<1>5. ASSUME NEW d \in Seen' PROVE Numbered(d)' /\ (d \in Seen \/ (SendBlock /\ d = Packet))
  <2>1. d \in Seen \/ (SendBlock /\ d = Packet)
    <3>1. Seen' \subseteq Seen \/ (SendBlock /\ Seen' = Seen \cup {Packet})
      BY NoNewPackets
    <3> QED BY <3>1
  <2>2. CASE d \in Seen
    <3>1. d \in Packets /\ d.seq = Counted(d) % SeqSpace /\ d.number <= sent /\ d.round <= rounds
      BY <2>2, <1>4 DEF Numbered
    <3>2. d.number \in Int /\ d.round \in Int
      BY <3>1, FileAssumption DEF Packets
    <3>3. sent <= sent' /\ rounds <= rounds' /\ sent' \in Int /\ rounds' \in Int
      <4>1. sent' \in Int /\ rounds' \in Int
        BY <1>3, FileAssumption
      <4>2. sent' = sent + 1 \/ sent' = sent
        BY <1>3
      <4> QED BY <4>1, <4>2, <1>1, <1>3
    <3>4. d.number <= sent' /\ d.round <= rounds'
      BY <1>1, <3>1, <3>2, <3>3
    <3> QED BY <2>1, <3>1, <3>4 DEF Numbered
  <2>3. CASE SendBlock /\ d = Packet
    <3>1. sent' = sent + 1 /\ rounds' = rounds
      BY <1>3, <2>3
    <3>2. /\ d \in Packets /\ d.seq = Counted(d) % SeqSpace
          /\ d.number = sent + 1 /\ d.round = rounds
      BY <2>3, PacketNumbered
    <3>3. d.number <= sent' /\ d.round <= rounds'
      BY <1>1, <3>1, <3>2
    <3> QED BY <2>1, <3>2, <3>3 DEF Numbered
  <2> QED BY <2>1, <2>2, <2>3
<1>6. ASSUME NEW d \in Seen', NEW e \in Seen', d.number <= e.number
      PROVE  d.round <= e.round
  <2>1. \A f \in Seen : /\ f.number \in Int /\ f.round \in Int
                        /\ f.number <= sent /\ f.round <= rounds
    BY <1>4, FileAssumption DEF Numbered, Packets
  <2>2. SendBlock => Packet.number = sent + 1 /\ Packet.round = rounds
    BY PacketNumbered
  <2>3. CASE d \in Seen /\ e \in Seen
    BY <1>6, <2>3 DEF StreamInv
  <2>4. CASE d \in Seen /\ SendBlock /\ e = Packet
    BY <2>1, <2>2, <2>4
  <2>5. CASE e \in Seen /\ SendBlock /\ d = Packet
    BY <1>1, <1>6, <2>1, <2>2, <2>5
  <2>6. CASE d = e
    <3>1. Numbered(d)'
      BY <1>5
    <3> QED BY <3>1, <2>6, FileAssumption DEF Numbered, Packets
  <2> QED BY <1>5, <2>3, <2>4, <2>5, <2>6
<1>7. StreamTypeOK'
  <2>1. toRelay' \subseteq Datagrams /\ toGroups' \subseteq Datagrams
    BY <1>5, PacketsAssumption DEF Seen, Numbered
  <2>2. /\ repeat' \in BOOLEAN /\ lossPercent' \in BOOLEAN
        /\ sending' \in BOOLEAN /\ relaying' \in BOOLEAN
    BY <1>1
       DEF StreamTypeOK, StreamNext, SendBlock, StartOver, SenderEnds, Relay, Lose, Arrive,
           GroupStep, senderState, streamVars
  <2>4. pos' \in 0 .. FileBlocks
    <3>1. FileBlocks \in Nat /\ pos \in 0 .. FileBlocks
      BY <1>1, FileAssumption DEF StreamTypeOK
    <3>2. pos' = pos \/ pos' = 0 \/ (pos < FileBlocks /\ pos' = pos + 1)
      BY DEF StreamNext, SendBlock, StartOver, SenderEnds, Relay, Lose, Arrive,
             GroupStep, senderState, streamVars
    <3> QED BY <3>1, <3>2
  <2>3. seq' \in 0 .. MaxSent + MaxRounds
    BY <1>3, FileAssumption
  <2> QED BY <1>2, <1>3, <2>1, <2>2, <2>3, <2>4 DEF StreamTypeOK, GroupInv
<1> QED BY <1>2, <1>3, <1>5, <1>6, <1>7 DEF StreamInv

\* Whatever is on its way was sent, and carries the number the loop of udp-sender
\* had counted to by then (udp-sender l.86-101).
THEOREM StreamSafe == StreamSpec => []StreamInv
BY StreamStarts, StreamStep, PTL DEF StreamSpec

\* Whatever the network does with the packets, multicast-sender does what the
\* module MulticastSender says, and what is proved of it holds in the stream.
THEOREM StreamImplementsGroups == StreamSpec => Spec
<1>1. StreamInit => Init
  BY DEF StreamInit
<1>2. StreamInv /\ [StreamNext]_streamVars => [Next]_vars
  BY StreamStepIsGroupStep DEF StreamInv
<1> QED BY <1>1, <1>2, StreamSafe, PTL DEF StreamSpec, Spec

\* What is known of two packets read one after the other.
LEMMA TwoRead ==
  ASSUME StreamInv, NEW k \in 2 .. Len(received)
  PROVE  LET d == received[k - 1]  e == received[k] IN
           /\ Numbered(d) /\ Numbered(e)
           /\ d \in Packets /\ e \in Packets
           /\ k \in mismatched <=> Counted(e) % SeqSpace # ((Counted(d) % SeqSpace) + 1) % SeqSpace
           /\ d.number <= e.number => d.round <= e.round
           /\ e.number <= d.number => e.round <= d.round
<1> DEFINE d == received[k - 1]  e == received[k]
<1>1. Len(received) \in Nat
  BY TypesUnfold DEF StreamInv, GroupInv
<1>2. k \in 1 .. Len(received) /\ k - 1 \in 1 .. Len(received)
  BY <1>1
<1>3. d \in Seen /\ e \in Seen
  BY <1>2 DEF Seen
<1>4. Numbered(d) /\ Numbered(e)
  BY <1>3 DEF StreamInv
<1>5. d \in Packets /\ e \in Packets
  BY <1>4 DEF Numbered
<1>6. k \in mismatched <=> e.seq # (d.seq + 1) % SeqSpace
  BY DEF StreamInv, GroupInv, Compared
<1>7. d.seq = Counted(d) % SeqSpace /\ e.seq = Counted(e) % SeqSpace
  BY <1>4 DEF Numbered
<1>8. /\ d.number <= e.number => d.round <= e.round
      /\ e.number <= d.number => e.round <= d.round
  BY <1>3 DEF StreamInv
<1> QED BY <1>4, <1>5, <1>6, <1>7, <1>8 DEF d, e

\* A mismatch is logged only where a packet is missing, is not the next one, or
\* where the file was started over: wherever the numbers wrap.
THEOREM MismatchesAreExplained == StreamSpec => []MismatchExplained
<1>1. StreamInv => MismatchExplained
  <2> SUFFICES ASSUME StreamInv, NEW k \in mismatched
               PROVE  /\ ~Follows(received[k - 1], received[k])
                      /\ received[k].number = received[k - 1].number + 1
                           => received[k].round > received[k - 1].round
    BY DEF MismatchExplained, StreamInv
  <2> DEFINE d == received[k - 1]  e == received[k]
  <2>1. k \in 2 .. Len(received)
    BY DEF StreamInv, GroupInv, Compared
  <2>2. /\ d \in Packets /\ e \in Packets
        /\ Counted(e) % SeqSpace # ((Counted(d) % SeqSpace) + 1) % SeqSpace
        /\ d.number <= e.number => d.round <= e.round
    BY <2>1, TwoRead
  <2>3. Counted(e) # Counted(d) + 1
    BY <2>2, NextNumber, PacketTypes
  <2> HIDE DEF d, e
  <2>4. ~(e.number = d.number + 1 /\ e.round = d.round)
    BY <2>2, <2>3, PacketTypes
  <2>5. e.number = d.number + 1 => e.round > d.round
    BY <2>2, <2>4, PacketTypes
  <2> QED BY <2>4, <2>5 DEF Follows, d, e
<1> QED BY <1>1, StreamSafe, PTL

\* A lost, repeated or late packet is logged unless the numbers went round.
THEOREM LossesAreNoticed == StreamSpec => []LossNoticed
<1>1. StreamInv => LossNoticed
  <2> SUFFICES ASSUME StreamInv, NEW k \in 2 .. Len(received), k \notin mismatched
               PROVE  \/ Follows(received[k - 1], received[k])
                      \/ Distance(received[k - 1], received[k]) > SeqSpace
                      \/ Distance(received[k - 1], received[k]) <= 1 - SeqSpace
    BY DEF LossNoticed
  <2> DEFINE d == received[k - 1]  e == received[k]
  <2>1. /\ d \in Packets /\ e \in Packets
        /\ Counted(e) % SeqSpace = ((Counted(d) % SeqSpace) + 1) % SeqSpace
        /\ d.number <= e.number => d.round <= e.round
        /\ e.number <= d.number => e.round <= d.round
    BY TwoRead
  <2>2. \/ Counted(e) = Counted(d) + 1
        \/ Counted(e) - Counted(d) > SeqSpace
        \/ Counted(e) - Counted(d) <= 1 - SeqSpace
    BY <2>1, HiddenRounds, PacketTypes
  <2> HIDE DEF d, e
  <2> DEFINE n == d.number  r == d.round  m == e.number  t == e.round
  <2>3. n \in Nat /\ r \in Nat /\ m \in Nat /\ t \in Nat
    BY <2>1, PacketTypes
  <2>4. Counted(d) = n - 1 + r /\ Counted(e) = m - 1 + t
    BY <2>1, PacketTypes
  <2>5. n <= m => r <= t
    BY <2>1
  <2>6. m <= n => t <= r
    BY <2>1
  <2>7. Distance(d, e) = m + t - n - r
    BY DEF Distance
  <2>8. Follows(d, e) <=> m = n + 1 /\ t = r
    BY DEF Follows
  <2> HIDE DEF n, r, m, t
  <2>9. CASE Counted(e) = Counted(d) + 1
    <3>1. m + t = n + r + 1
      BY <2>3, <2>4, <2>9
    <3>2. m = n + 1 /\ t = r
      BY <2>3, <2>5, <2>6, <3>1
    <3> QED BY <2>8, <3>2 DEF d, e
  <2>10. CASE Counted(e) - Counted(d) > SeqSpace \/ Counted(e) - Counted(d) <= 1 - SeqSpace
    <3>1. (m - 1 + t) - (n - 1 + r) = m + t - n - r
      BY <2>3
    <3> QED BY <2>4, <2>7, <2>10, <3>1 DEF d, e
  <2> QED BY <2>2, <2>9, <2>10
<1> QED BY <1>1, StreamSafe, PTL
=============================================================================
