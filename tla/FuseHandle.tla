----------------------------- MODULE FuseHandle -----------------------------
(***************************************************************************)
(* Reading through an open file of the pass-through file systems:          *)
(* FileHandle of src/fusefs/fusefs.go, helloFile of                        *)
(* src/gofusefs/gofusefs.go, hello_read of                                 *)
(* src/fuse-cpp/fusefs_directio.cpp and of fusefs_bufferedio.cpp.          *)
(*                                                                         *)
(* Every READ request of the kernel is served by a goroutine or a thread   *)
(* of its own.  It moves to the offset with one call and reads with        *)
(* another, on ONE file position that the requests of a handle share; no   *)
(* lock makes the two one step.  PositionalReads says what a handle is to  *)
(* do, and it is what it does when no two requests overlap.                *)
(*                                                                         *)
(* Byte number p of the file is the number p, counted from 1; 0 is a byte  *)
(* of a buffer that was never read.  With -no-read fusefs opens no file: it *)
(* invents a content of -content-size zeros, while Attr gives the kernel   *)
(* the size of the real file.                                              *)
(*                                                                         *)
(* Left out: names and attributes; opening and closing (the kernel closes  *)
(* a handle when no request is under way); alignment (the kernel asks for  *)
(* whole pages).  The ifstream of fusefs_bufferedio.cpp, which two threads *)
(* must not use at all, is taken at its best: seekg and readsome are one   *)
(* step each.                                                              *)
(*                                                                         *)
(* External: the kernel's requests, lseek, read and ifstream.              *)
(***************************************************************************)
EXTENDS Naturals, Sequences

CONSTANTS
  Servers,            \* goroutines or threads that serve READ requests
  Flavors,            \* the programs, out of Programs
  FileSize,           \* bytes in the file
  ContentSize,        \* -content-size of fusefs
  MaxLen              \* bound: the longest request

\* fusefs without and with -directio and with -no-read, gofusefs, and the two of
\* fuse-cpp.
Programs == {"buffered", "direct", "noread", "gofuse", "cppdirect", "cppbuffered"}

ASSUME FlavorsAssumption == Flavors \subseteq Programs
ASSUME SizesAssumption ==
  FileSize \in Nat \ {0} /\ MaxLen \in Nat \ {0} /\ ContentSize \in Nat

VARIABLES
  flavor,
  overlap,            \* the reader makes requests that overlap
  pos,                \* the file position of the handle
  handle,             \* "good"; "bad": a stream with its badbit set; "crashed"
  pc,                 \* pc[s]: "idle", "seek", "read", "answered"
  offset, len,        \* the request
  reply,              \* the answer: [ok, data]
  why                 \* history: what befell the request, "moved" or "disk"

opened == <<flavor, overlap>>
vars == <<opened, pos, handle, pc, offset, len, reply, why>>

NoReply == [ok |-> FALSE, data |-> <<>>]
EmptyReply == [ok |-> TRUE, data |-> <<>>]

TypeOK ==
  /\ flavor \in Flavors /\ overlap \in BOOLEAN
  /\ pos \in 0 .. FileSize
  /\ handle \in {"good", "bad", "crashed"}
  /\ pc \in [Servers -> {"idle", "seek", "read", "answered"}]
  /\ offset \in [Servers -> 0 .. FileSize - 1]
  /\ len \in [Servers -> 1 .. MaxLen]
  /\ reply \in [Servers -> [ok : BOOLEAN, data : Seq(0 .. FileSize)]]
  /\ why \in [Servers -> SUBSET {"moved", "disk"}]

Init ==
  /\ flavor \in Flavors /\ overlap \in BOOLEAN
  /\ pos = 0
  /\ handle = "good"
  /\ pc = [s \in Servers |-> "idle"]
  /\ offset = [s \in Servers |-> 0]
  /\ len = [s \in Servers |-> 1]
  /\ reply = [s \in Servers |-> NoReply]
  /\ why = [s \in Servers |-> {}]

-----------------------------------------------------------------------------
Alive == handle # "crashed"
Goto(s, label) == pc' = [pc EXCEPT ![s] = label]
UnderWay(s) == pc[s] \in {"seek", "read"}

\* The kernel, which asks for nothing behind the end of the file.
Request(s) ==
  /\ Alive /\ ~UnderWay(s)
  /\ overlap \/ \A t \in Servers : ~UnderWay(t)
  /\ \E o \in 0 .. FileSize - 1, n \in 1 .. MaxLen :
       offset' = [offset EXCEPT ![s] = o] /\ len' = [len EXCEPT ![s] = n]
  /\ reply' = [reply EXCEPT ![s] = NoReply]
  /\ why' = [why EXCEPT ![s] = {}]
  /\ Goto(s, "seek")
  /\ UNCHANGED <<opened, pos, handle>>

\* What a call of s does to those who have sought their place and not yet read.
Moves(s, p) ==
  /\ pos' = p
  /\ why' = [t \in Servers |->
               IF t # s /\ pc[t] = "read" /\ p # pos THEN why[t] \cup {"moved"} ELSE why[t]]

\* Mutant: the position is left where the last read ended.
SeekNowhere(s) ==
  /\ Alive /\ pc[s] = "seek" /\ flavor # "noread"
  /\ Goto(s, "read")
  /\ UNCHANGED <<opened, pos, handle, offset, len, reply, why>>

\* Seek; on a bad stream seekg does nothing.
Seek(s) ==
  /\ Alive /\ pc[s] = "seek" /\ flavor # "noread"
  /\ Moves(s, IF handle = "bad" THEN pos ELSE offset[s])
  /\ Goto(s, "read")
  /\ UNCHANGED <<opened, handle, offset, len, reply>>

Answer(s, r) ==
  /\ reply' = [reply EXCEPT ![s] = r]
  /\ Goto(s, "answered")

Least(a, b) == IF a < b THEN a ELSE b
Readable(n) == Least(n, FileSize - pos)

\* buffered: the whole buffer, with what was not read; the others cut it.
\* At the end of the file Go's Read fails, and the request is refused.
Served(n) ==
  LET got == Readable(n)
      size == IF flavor = "buffered" THEN n ELSE got
  IN IF got = 0 /\ flavor \in {"buffered", "direct", "gofuse"} THEN NoReply
     ELSE [ok |-> TRUE, data |-> [i \in 1 .. size |-> IF i <= got THEN pos + i ELSE 0]]

\* Mutant: one byte more than was asked for is read.
ReadTooMuch(s) ==
  /\ Alive /\ handle = "good" /\ pc[s] = "read"
  /\ Answer(s, Served(len[s] + 1))
  /\ Moves(s, pos + Readable(len[s] + 1))
  /\ UNCHANGED <<opened, handle, offset, len>>

Read(s) ==
  /\ Alive /\ handle = "good" /\ pc[s] = "read"
  /\ Answer(s, Served(len[s]))
  /\ Moves(s, pos + Readable(len[s]))
  /\ UNCHANGED <<opened, handle, offset, len>>

\* A bad stream reads nothing, which looks like the end of the file.
ReadBad(s) ==
  /\ handle = "bad" /\ pc[s] = "read"
  /\ Answer(s, EmptyReply)
  /\ UNCHANGED <<opened, pos, handle, offset, len, why>>

\* The disk fails a read.  Go refuses the request; readsome sets the badbit,
\* which nobody clears; fusefs_directio.cpp copies (size_t) -1 bytes.
DiskFails(s) ==
  /\ Alive /\ handle = "good" /\ pc[s] = "read"
  /\ why' = [why EXCEPT ![s] = @ \cup {"disk"}]
  /\ CASE flavor = "cppdirect" -> handle' = "crashed" /\ UNCHANGED <<reply, pc>>
       [] flavor = "cppbuffered" -> handle' = "bad" /\ Answer(s, EmptyReply)
       [] OTHER -> Answer(s, NoReply) /\ UNCHANGED handle
  /\ UNCHANGED <<opened, pos, offset, len>>

\* What -no-read answers: zeros, up to the end of the invented content.  Behind
\* it their number is negative, make panics, and the library refuses the request.
FakeBytes(s) ==
  IF offset[s] > ContentSize THEN NoReply
  ELSE [ok |-> TRUE, data |-> [i \in 1 .. Least(len[s], ContentSize - offset[s]) |-> 0]]

ReadFake(s) ==
  /\ flavor = "noread" /\ pc[s] = "seek"
  /\ Answer(s, FakeBytes(s))
  /\ UNCHANGED <<opened, pos, handle, offset, len, why>>

Serve(s) == Seek(s) \/ Read(s) \/ ReadBad(s) \/ DiskFails(s) \/ ReadFake(s)

Next == \E s \in Servers : Request(s) \/ Serve(s)

Spec == Init /\ [][Next]_vars

-----------------------------------------------------------------------------
(* Properties.                                                             *)

\* The bytes the reader gets: the kernel knows where the file ends.
Got(s) == SubSeq(reply[s].data, 1, Least(Len(reply[s].data), FileSize - offset[s]))

Right(s) ==
  /\ reply[s].ok
  /\ Len(Got(s)) = Least(len[s], FileSize - offset[s])
  /\ flavor # "noread" => \A i \in 1 .. Len(Got(s)) : Got(s)[i] = offset[s] + i

\* A wrong answer has a reason: another request moved the position between the
\* two calls, the disk failed this read, or, with an ifstream only, some read
\* of the handle before, or, with -no-read, the file is longer than the content
\* fusefs invents (fusefs.go l.225-232 and l.249-255, gofusefs.go l.98-111,
\* fusefs_directio.cpp l.87-99, fusefs_bufferedio.cpp l.109-110).
WrongHasReason ==
  \A s \in Servers : pc[s] = "answered" /\ ~Right(s) =>
    \/ why[s] # {}
    \/ flavor = "cppbuffered" /\ handle = "bad"
    \/ flavor = "noread" /\ Least(offset[s] + len[s], FileSize) > ContentSize

\* Whoever has the wrong bytes was moved: a failing disk gives no bytes, and
\* zeros in the middle of the file come from fusefs without -directio only.
WrongBytesMoved ==
  \A s \in Servers : pc[s] = "answered" /\ flavor # "noread" =>
    /\ (\E i \in 1 .. Len(Got(s)) : Got(s)[i] # offset[s] + i) => "moved" \in why[s]
    /\ (\E i \in 1 .. Len(Got(s)) : Got(s)[i] = 0) => flavor = "buffered"

\* A process that copies -1 bytes dies of one failed read; no other program
\* dies of one (fusefs_directio.cpp l.96-97).
CrashExplained ==
  ~Alive => flavor = "cppdirect" /\ \E s \in Servers : pc[s] = "read" /\ "disk" \in why[s]

\* All of the above: why the answer to a read may be wrong, or lacking, in the
\* four programs.
WrongExplained == TypeOK /\ WrongHasReason /\ WrongBytesMoved /\ CrashExplained

\* Only reads that do not overlap are looked at here, and not those of -no-read,
\* which are of no file: for all others nothing is ever asked.
Serial == ~overlap /\ flavor # "noread"
IfSerial(f, idle) == IF Serial THEN f ELSE [s \in Servers |-> idle]

Positional == INSTANCE PositionalReads WITH
  stage <- IfSerial([s \in Servers |-> IF UnderWay(s) THEN "asked" ELSE pc[s]], "idle"),
  got <- IfSerial([s \in Servers |-> IF reply[s].ok THEN Got(s) ELSE <<>>], <<>>),
  offset <- IfSerial(offset, 0),
  len <- IfSerial(len, 1)

\* Reads that do not overlap are positional, whatever was read before and from
\* where: each gets the bytes of the file from its offset on, or none of them.
ReadsArePositional == Positional!ReadsSpec
=============================================================================
