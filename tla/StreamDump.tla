----------------------------- MODULE StreamDump -----------------------------
(***************************************************************************)
(* From a stream file over UDP back into a file: udp-sender                *)
(* (src/udp-sender/udp-sender.go) sends it, and multicast-dump             *)
(* (src/multicast-dump/main.go) or udp-server                              *)
(* (src/udp-sender/udp-server/udp-server.go) writes down what arrives.     *)
(* rtp-to-ts (src/rtp-to-ts/main.go) takes the headers off an RTP file     *)
(* without a network.                                                      *)
(*                                                                         *)
(* Nothing in a datagram tells what it is: each program takes headers and  *)
(* lengths for what its flags say, and a datagram that is longer than the  *)
(* receiver's buffer is cut.                                               *)
(*                                                                         *)
(* Byte number p of the file is the number p, counted from 1; 0 is a byte  *)
(* of a header that udp-sender put in front.  Left out: the pace, what is  *)
(* in a header, and order on the way (see UdpStream).  A file begins with  *)
(* a whole packet of its kind, by which udp-sender knows it: sync bytes do *)
(* not occur elsewhere by chance.                                          *)
(*                                                                         *)
(* External: the file, UDP.                                                *)
(***************************************************************************)
EXTENDS Naturals, Sequences, SequencesExt

CONSTANTS
  Ts,                 \* 188 * 7 in the code, seven packets of a stream
  Wide,               \* 204 * 7, seven packets with error correction
  Header,             \* 12, a header of RTP
  Small,              \* 1024, the buffer of udp-server
  MaxSize,            \* bound: bytes of a file
  MaxOffset,          \* bound: -offset
  MaxRounds           \* bound: how often the file is started over

SizesAssumption ==
  /\ {Ts, Wide, Header, Small, MaxSize, MaxOffset, MaxRounds} \subseteq Nat
  /\ 0 < Header /\ Header < Small /\ Small < Ts /\ Ts + Header < Wide

Kinds == {"ts", "wide", "rtp"}

VARIABLES
  kind, size,         \* the file
  isRtp, repeat,      \* the flags of udp-sender; -offset is in pos
  tool, dumpRtp,      \* "dump" or "server"; -rtp of multicast-dump
  sending, pos,       \* udp-sender runs; how far it has read the file
  wire,               \* datagrams under way
  receiver,           \* "up", "over", "panicked"
  out,                \* the bytes of the file that is written
  \* history
  first, rounds,      \* where the first round began; rounds that are over
  lost                \* a datagram was lost

flags == <<kind, size, isRtp, repeat, tool, dumpRtp, first>>
vars == <<flags, sending, pos, wire, receiver, out, rounds, lost>>

\* len(buf) of udp-sender after it has looked at the sync bytes.
Block == CASE kind = "ts" -> Ts [] kind = "wide" -> Wide [] kind = "rtp" -> Ts + Header

TypeOK ==
  /\ kind \in Kinds /\ size \in 1 .. MaxSize
  /\ {isRtp, repeat, dumpRtp, sending, lost} \subseteq BOOLEAN
  /\ tool \in {"dump", "server"} /\ receiver \in {"up", "over", "panicked"}
  /\ pos \in 0 .. MaxSize + MaxOffset /\ first \in 0 .. MaxOffset /\ rounds \in 0 .. MaxRounds
  /\ wire \in Seq(Seq(0 .. size)) /\ Len(wire) <= 1
  /\ out \in Seq(0 .. size)

\* -offset is rounded down to a whole block, and may lie behind the file.
Init ==
  /\ kind \in Kinds /\ size \in Block .. MaxSize
  /\ isRtp \in BOOLEAN /\ repeat \in BOOLEAN
  /\ tool \in {"dump", "server"} /\ dumpRtp \in (IF tool = "dump" THEN BOOLEAN ELSE {FALSE})
  /\ \E offset \in 0 .. MaxOffset : first = (offset \div Block) * Block
  /\ sending = TRUE /\ pos = first
  /\ wire = <<>> /\ receiver = "up" /\ out = <<>> /\ rounds = 0 /\ lost = FALSE

-----------------------------------------------------------------------------
Least(a, b) == IF a < b THEN a ELSE b

\* A block of the file, or what is left of it, with a header if asked for one.
Datagram ==
  LET n == Least(Block, size - pos)
      h == IF isRtp THEN Header ELSE 0
  IN [k \in 1 .. h + n |-> IF k <= h THEN 0 ELSE pos + k - h]

SendBlock ==
  /\ sending /\ pos < size /\ wire = <<>>
  /\ wire' = <<Datagram>>
  /\ pos' = Least(pos + Block, size)
  /\ UNCHANGED <<flags, sending, receiver, out, rounds, lost>>

\* -repeat begins at the start of the file, not at -offset.
StartOver ==
  /\ sending /\ pos >= size /\ repeat /\ rounds < MaxRounds
  /\ pos' = 0 /\ rounds' = rounds + 1
  /\ UNCHANGED <<flags, sending, wire, receiver, out, lost>>

SenderEnds ==
  /\ sending /\ pos >= size /\ ~repeat
  /\ sending' = FALSE
  /\ UNCHANGED <<flags, pos, wire, receiver, out, rounds, lost>>

Lose ==
  /\ wire # <<>>
  /\ wire' = <<>> /\ lost' = TRUE
  /\ UNCHANGED <<flags, sending, pos, receiver, out, rounds>>

headerSize == IF dumpRtp THEN Header ELSE 0

\* Mutant: the buffer has no room for the header.
BufferTight == Ts
Buffer == Ts + headerSize

\* multicast-dump writes buf[headerSize:n], n bytes having come; a datagram
\* shorter than the header it should have is a slice out of range.
DumpArrive ==
  /\ receiver = "up" /\ tool = "dump" /\ wire # <<>>
  /\ LET d == Head(wire)
         n == Least(Len(d), Buffer)
     IN IF n < headerSize
        THEN receiver' = "panicked" /\ UNCHANGED out
        ELSE out' = out \o SubSeq(d, headerSize + 1, n) /\ UNCHANGED receiver
  /\ wire' = <<>>
  /\ UNCHANGED <<flags, sending, pos, rounds, lost>>

\* udp-server writes what fits its buffer.
ServerArrive ==
  /\ receiver = "up" /\ tool = "server" /\ wire # <<>>
  /\ out' = out \o SubSeq(Head(wire), 1, Least(Len(Head(wire)), Small))
  /\ wire' = <<>>
  /\ UNCHANGED <<flags, sending, pos, receiver, rounds, lost>>

\* -duration is over, which is seen only when a datagram has come.
DumpEnds ==
  /\ receiver = "up" /\ tool = "dump" /\ out # <<>>
  /\ receiver' = "over"
  /\ UNCHANGED <<flags, sending, pos, wire, out, rounds, lost>>

Next ==
  \/ SendBlock \/ StartOver \/ SenderEnds \/ Lose
  \/ DumpArrive \/ DumpEnds \/ ServerArrive

Spec == Init /\ [][Next]_vars

\* What rtp-to-ts writes for the bytes from .. to of the file: of every
\* Ts + Header bytes it reads, all but the header.
RtpToTs(from, to) ==
  LET keep[p \in from .. to] ==
        IF p = from THEN <<>>
        ELSE IF (p - from - 1) % (Ts + Header) < Header THEN keep[p - 1]
        ELSE Append(keep[p - 1], p)
  IN keep[to]

-----------------------------------------------------------------------------
(* Properties.                                                             *)

\* The stream in the file between two places.
Stream(from, to) ==
  CASE from >= to -> <<>>
    [] from < to /\ kind = "rtp" -> RtpToTs(from, to)
    [] OTHER -> [k \in 1 .. to - from |-> from + k]

\* The stream that was sent: the rounds that are over, and this one so far.
Sent ==
  FlattenSeq([k \in 1 .. rounds |-> Stream(IF k = 1 THEN first ELSE 0, size)])
    \o Stream(IF rounds = 0 THEN first ELSE 0, pos)

\* Sender and receiver were told the same: a datagram has one header, which
\* multicast-dump takes off, or none.
Headers == (IF kind = "rtp" THEN 1 ELSE 0) + (IF isRtp THEN 1 ELSE 0)
Agreed == tool = "dump" /\ kind # "wide" /\ Headers = (IF dumpRtp THEN 1 ELSE 0)

AllArrived == ~lost /\ wire = <<>> /\ receiver = "up"
WholeBlockSent == (IF rounds = 0 THEN pos - first ELSE pos) >= Block

\* If they agree and nothing is lost the stream is written down byte by byte,
\* round after round (udp-sender l.67-106, multicast-dump l.67-73), for an RTP
\* file just as rtp-to-ts writes it (l.28-38); if they do not, what is
\* written down is not the stream as soon as a whole block was sent: bytes are cut
\* off, or taken for a header, or a header is left in.
DumpExact ==
  AllArrived /\ (Agreed \/ WholeBlockSent) => (Agreed <=> out = Sent)

\* multicast-dump dies only of the end of a file, sent without a header, that is
\* shorter than the header it was told to expect (l.73).
PanicOnTail ==
  receiver = "panicked" => dumpRtp /\ ~isRtp /\ size % Block \in 1 .. Header - 1

\* Both: what a dump may be.
DumpExplained == TypeOK /\ DumpExact /\ PanicOnTail
=============================================================================
