--------------------------- MODULE MulticastSender ---------------------------
(***************************************************************************)
(* src/multicast-sender/main.go: one loop reads datagrams from a socket    *)
(* and hands each of them to every channel, one channel after the other;   *)
(* behind each channel a goroutine writes to a multicast group.            *)
(*                                                                         *)
(* What travels through a channel is a slice, a reference to the buffer    *)
(* the datagram was read into: a channel is a queue of buffers here, and   *)
(* memory says what a buffer holds at the time it is written.              *)
(*                                                                         *)
(* Any failing socket call is a log.Fatal: it ends the process, whatever   *)
(* the channels hold.  Left out: reading the channel list and opening the  *)
(* sockets, which come first.                                              *)
(*                                                                         *)
(* External: the sockets.  UdpStream says which datagrams arrive.          *)
(***************************************************************************)
EXTENDS Integers, Sequences

CONSTANTS
  Datagrams,          \* what may arrive: records with a sequence number
  SeqSpace,           \* sequence numbers are modulo SeqSpace (65536 in the code)
  Senders,            \* how many senders the channel list gives
  ChanCap,            \* capacity of a channel (256 in the code)
  MaxReceived         \* bound: the datagrams read

ASSUME DatagramsAssumption ==
  SeqSpace \in Nat \ {0} /\ \A d \in Datagrams : d.seq \in 0 .. SeqSpace - 1
ASSUME SendersAssumption ==
  Senders \in Nat \ {0} /\ ChanCap \in Nat \ {0} /\ MaxReceived \in Nat

Ids == 1 .. Senders   \* the order of the slice senders

VARIABLES
  alive,              \* no log.Fatal yet
  memory,             \* memory[b]: the datagram in buffer b
  buf,                \* the buffer of the loop, 0 before the first
  turn,               \* the sender it is handed to next; Senders + 1: reading
  last,               \* the number of the last datagram, -1 while first
  ch,                 \* ch[s]: the buffers in the channel of sender s
  hand,               \* hand[s]: the buffer its goroutine writes, 0 if none
  \* history
  received,           \* the datagrams read
  mismatched,         \* the places of those that logged "seq mismatched"
  out                 \* out[s]: the datagrams written to group s

loopVars == <<memory, buf, turn, last, received, mismatched>>
vars == <<alive, loopVars, ch, hand, out>>

TypeOK ==
  /\ alive \in BOOLEAN
  /\ memory \in Seq(Datagrams)
  /\ buf \in 0 .. Len(memory)
  /\ turn \in 1 .. Senders + 1
  /\ last \in -1 .. SeqSpace - 1
  /\ ch \in [Ids -> Seq(1 .. Len(memory))] /\ \A s \in Ids : Len(ch[s]) <= ChanCap
  /\ hand \in [Ids -> 0 .. Len(memory)]
  /\ received \in Seq(Datagrams) /\ Len(received) <= MaxReceived
  /\ mismatched \subseteq 2 .. Len(received)
  /\ out \in [Ids -> Seq(Datagrams)]

Init ==
  /\ alive = TRUE
  /\ memory = <<>> /\ buf = 0 /\ turn = Senders + 1 /\ last = -1
  /\ ch = [s \in Ids |-> <<>>] /\ hand = [s \in Ids |-> 0]
  /\ received = <<>> /\ mismatched = {} /\ out = [s \in Ids |-> <<>>]

-----------------------------------------------------------------------------
Reading == alive /\ turn > Senders /\ Len(received) < MaxReceived

\* Mutant: the buffer is made once, before the loop.
IntoOneBuffer(d) == memory' = <<d>> /\ buf' = 1

\* Every round makes a buffer of its own.
IntoNewBuffer(d) == memory' = Append(memory, d) /\ buf' = Len(memory) + 1

\* Mutant: the next number does not wrap.
ExpectedWide == last + 1

\* last + 1 has 16 bits.
Expected == (last + 1) % SeqSpace

\* Mutant: only a number ahead of the expected one is reported.
MismatchAhead(d) == last # -1 /\ d.seq > Expected

Mismatch(d) == last # -1 /\ d.seq # Expected

\* A datagram is read and its number looked at.
Receive(d) ==
  /\ Reading
  /\ IntoNewBuffer(d)
  /\ mismatched' = mismatched \cup IF Mismatch(d) THEN {Len(received) + 1} ELSE {}
  /\ last' = d.seq
  /\ turn' = 1
  /\ received' = Append(received, d)
  /\ UNCHANGED <<alive, ch, hand, out>>

\* Mutant: a full channel is skipped.
HandOverOrDrop ==
  /\ alive /\ turn <= Senders
  /\ ch' = IF Len(ch[turn]) < ChanCap THEN [ch EXCEPT ![turn] = Append(@, buf)] ELSE ch
  /\ turn' = turn + 1
  /\ UNCHANGED <<alive, memory, buf, last, received, mismatched, hand, out>>

\* s.ch <- buf[:n], which waits while the channel is full.
HandOver ==
  /\ alive /\ turn <= Senders /\ Len(ch[turn]) < ChanCap
  /\ ch' = [ch EXCEPT ![turn] = Append(@, buf)]
  /\ turn' = turn + 1
  /\ UNCHANGED <<alive, memory, buf, last, received, mismatched, hand, out>>

\* The goroutine of sender s.
Take(s) ==
  /\ alive /\ hand[s] = 0 /\ ch[s] # <<>>
  /\ hand' = [hand EXCEPT ![s] = Head(ch[s])]
  /\ ch' = [ch EXCEPT ![s] = Tail(@)]
  /\ UNCHANGED <<alive, loopVars, out>>

Write(s) ==
  /\ alive /\ hand[s] # 0
  /\ out' = [out EXCEPT ![s] = Append(@, memory[hand[s]])]
  /\ hand' = [hand EXCEPT ![s] = 0]
  /\ UNCHANGED <<alive, loopVars, ch>>

\* Mutant: the error is logged, and the next datagram taken.
WriteFailsGoesOn(s) ==
  /\ alive /\ hand[s] # 0
  /\ hand' = [hand EXCEPT ![s] = 0]
  /\ UNCHANGED <<alive, loopVars, ch, out>>

WriteFails(s) ==
  /\ alive /\ hand[s] # 0
  /\ alive' = FALSE
  /\ UNCHANGED <<loopVars, ch, hand, out>>

ReadFails ==
  /\ Reading
  /\ alive' = FALSE
  /\ UNCHANGED <<loopVars, ch, hand, out>>

Forward == HandOver \/ \E s \in Ids : Take(s) \/ Write(s) \/ WriteFails(s)

Next == Forward \/ ReadFails \/ \E d \in Datagrams : Receive(d)

Spec == Init /\ [][Next]_vars

\* Goroutines that can run do, and a write to a socket ends.
Fairness ==
  /\ WF_vars(HandOver)
  /\ \A s \in Ids : WF_vars(Take(s)) /\ WF_vars(Write(s) \/ WriteFails(s))

FairSpec == Spec /\ Fairness

-----------------------------------------------------------------------------
(* Properties.                                                             *)

\* Every group gets the stream as it was read: in order, nothing left out,
\* nothing twice, and no datagram overwritten while it waited in a channel
\* (l.82, l.97-99, l.131-135).
SameStream ==
  \A s \in Ids : out[s] = SubSeq(received, 1, Len(out[s]))

\* No group runs away from another one, because the loop waits for the slowest
\* (l.98) and so for all: it is at most a full channel, the datagram in its
\* goroutine and the one being handed over behind.  A later group of the list is
\* never ahead of an earlier one by the last of these: the order of the list
\* decides who may be first.
LagBounded ==
  /\ TypeOK
  /\ \A s, t \in Ids :
       Len(out[s]) <= Len(out[t]) + ChanCap + (IF t < s THEN 1 ELSE 2)

\* Whatever was read is written to every group, unless the process dies: loop
\* and senders never wait for each other in a circle.
AllForwarded ==
  \A k \in 1 .. MaxReceived, s \in Ids :
    Len(received) >= k ~> (Len(out[s]) >= k \/ ~alive)
=============================================================================
