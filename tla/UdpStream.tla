------------------------------ MODULE UdpStream ------------------------------
(***************************************************************************)
(* A stream on its way to the multicast groups: src/udp-sender sends a     *)
(* file in numbered RTP packets, src/udprelay passes them on and drops     *)
(* some, src/multicast-sender (MulticastSender) reports every number that  *)
(* is not the one after the last.  This module composes the three with a   *)
(* network that loses, repeats and reorders.                               *)
(*                                                                         *)
(* The number is the counter of udp-sender's loop in 16 bits.  A round of  *)
(* the loop that meets the end of the file and starts it over sends        *)
(* nothing but counts all the same, so a number is left out there.         *)
(*                                                                         *)
(* Left out: what the packets carry (the relay cuts one longer than 1316   *)
(* bytes, behind its number), the pace, and streams without -rtp, which    *)
(* have no numbers.                                                        *)
(***************************************************************************)
EXTENDS MulticastSender, FiniteSets

CONSTANTS
  FileBlocks,         \* the packets in the file
  MaxSent, MaxRounds, \* bounds: packets sent, times the file is started over,
  MaxInFlight         \* packets on their way to one socket

\* What udp-sender can send.
Packets == [seq : 0 .. SeqSpace - 1, number : 1 .. MaxSent, round : 0 .. MaxRounds]

ASSUME FileAssumption == FileBlocks \in Nat \ {0} /\ {MaxSent, MaxRounds, MaxInFlight} \subseteq Nat
ASSUME PacketsAssumption == Packets \subseteq Datagrams

VARIABLES
  repeat, lossPercent,     \* the flags -repeat and -loss (0 or more than 0)
  sending,                 \* udp-sender runs
  pos,                     \* the blocks of the file before its position
  seq,                     \* its loop counter
  relaying,                \* udprelay runs
  toRelay, toGroups,       \* the packets on their way
  sent, rounds             \* history: packets sent, times started over

senderState == <<repeat, lossPercent, sending, pos, seq, sent, rounds>>
groupState == vars
streamVars == <<vars, senderState, relaying, toRelay, toGroups>>

Packet == [seq |-> seq % SeqSpace, number |-> sent + 1, round |-> rounds]

StreamTypeOK ==
  /\ TypeOK
  /\ repeat \in BOOLEAN /\ lossPercent \in BOOLEAN
  /\ sending \in BOOLEAN /\ relaying \in BOOLEAN
  /\ pos \in 0 .. FileBlocks /\ sent \in 0 .. MaxSent /\ rounds \in 0 .. MaxRounds
  /\ seq \in 0 .. MaxSent + MaxRounds
  /\ toRelay \subseteq Datagrams /\ toGroups \subseteq Datagrams

StreamInit ==
  /\ Init
  /\ repeat \in BOOLEAN /\ lossPercent \in BOOLEAN
  /\ sending = TRUE /\ relaying = TRUE
  /\ pos \in 0 .. FileBlocks               \* -offset
  /\ seq = 0 /\ sent = 0 /\ rounds = 0
  /\ toRelay = {} /\ toGroups = {}

-----------------------------------------------------------------------------
(* udp-sender.                                                             *)

SendBlock ==
  /\ sending /\ pos < FileBlocks
  /\ sent < MaxSent /\ Cardinality(toRelay) < MaxInFlight
  /\ toRelay' = toRelay \cup {Packet}
  /\ pos' = pos + 1 /\ seq' = seq + 1 /\ sent' = sent + 1
  /\ UNCHANGED <<groupState, repeat, lossPercent, sending, rounds, relaying, toGroups>>

\* EOF with -repeat: the round goes on to the next one, and seq with it.
StartOver ==
  /\ sending /\ pos = FileBlocks /\ repeat /\ rounds < MaxRounds
  /\ pos' = 0 /\ seq' = seq + 1 /\ rounds' = rounds + 1
  /\ UNCHANGED <<groupState, repeat, lossPercent, sending, sent, relaying, toRelay, toGroups>>

\* EOF without -repeat, or a call that fails: log.Fatal.
SenderEnds ==
  /\ sending
  /\ sending' = FALSE
  /\ UNCHANGED <<groupState, repeat, lossPercent, pos, seq, sent, rounds, relaying, toRelay, toGroups>>

-----------------------------------------------------------------------------
(* udprelay: the time is looked at between two packets only, so a relay    *)
(* that is over goes on waiting for one more.                              *)

Relay ==
  /\ relaying
  /\ \E p \in toRelay :
       /\ toRelay' \in {toRelay, toRelay \ {p}}
       /\ \/ Cardinality(toGroups) < MaxInFlight /\ toGroups' = toGroups \cup {p}
          \/ lossPercent /\ UNCHANGED toGroups
  /\ relaying' \in BOOLEAN
  /\ UNCHANGED <<groupState, senderState>>

\* The network, or a socket whose buffer is full because the loop of
\* multicast-sender waits for a channel.
Lose ==
  /\ \E p \in toRelay \cup toGroups :
       toRelay' = toRelay \ {p} /\ toGroups' = toGroups \ {p}
  /\ UNCHANGED <<groupState, senderState, relaying>>

Arrive ==
  /\ \E p \in toGroups :
       /\ Receive(p)
       /\ toGroups' \in {toGroups, toGroups \ {p}}
  /\ UNCHANGED <<senderState, relaying, toRelay>>

GroupStep == (Forward \/ ReadFails) /\ UNCHANGED <<senderState, relaying, toRelay, toGroups>>

StreamNext ==
  \/ SendBlock \/ StartOver \/ SenderEnds \/ Relay \/ Lose \/ Arrive \/ GroupStep

StreamSpec == StreamInit /\ [][StreamNext]_streamVars

-----------------------------------------------------------------------------
(* Properties.                                                             *)

Follows(d, e) == e.number = d.number + 1 /\ e.round = d.round

\* "seq mismatched" (multicast-sender l.92) is never logged for two packets that
\* were sent one after the other, also where the 16 bits wrap, unless udp-sender
\* started the file over between them: then a number is missing that no packet
\* ever had (udp-sender l.88-94).
MismatchExplained ==
  /\ StreamTypeOK
  /\ \A k \in mismatched :
       /\ ~Follows(received[k - 1], received[k])
       /\ received[k].number = received[k - 1].number + 1 => received[k].round > received[k - 1].round

\* How many numbers the sender went from d to e, backwards if negative.
Distance(d, e) == e.number + e.round - d.number - d.round

\* A packet that was lost, repeated or out of order is reported, unless the
\* numbers went round once in between: a gap is hidden only by 65536 numbers and
\* one, an older packet only if it is 65535 numbers old.
LossNoticed ==
  \A k \in 2 .. Len(received) : k \notin mismatched =>
    \/ Follows(received[k - 1], received[k])
    \/ Distance(received[k - 1], received[k]) > SeqSpace
    \/ Distance(received[k - 1], received[k]) <= 1 - SeqSpace
=============================================================================
