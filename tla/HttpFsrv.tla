------------------------------ MODULE HttpFsrv ------------------------------
(***************************************************************************)
(* The HTTP file server, src/httpfsrv/httpfsrv.go, as a cache server uses  *)
(* it: a HEAD for a file, then a GET for it or for a range of it.          *)
(*                                                                         *)
(* handleGet opens the file, takes its size, reads what was asked for with *)
(* readfile (aligned when direct I/O is asked for) and writes it in one    *)
(* piece or in chunks.  Whoever fills the directory may rewrite the file   *)
(* between any two of these.  An index out of range panics; net/http       *)
(* recovers and drops the connection.                                      *)
(*                                                                         *)
(* Byte number p of a file is the number p, counted from 1; 0 is a byte    *)
(* that was never read.  Left out: waiting (-get-delay), Last-Modified and *)
(* the other headers but Content-Length, POST.                             *)
(*                                                                         *)
(* External: hutil.ParseRange clips a range to the file and fails on one   *)
(* that starts behind it.  os.Stat, os.OpenFile, Seek and Read may fail at *)
(* any time (access, too many open files, a disk); Read fails with EOF at  *)
(* the end of the file, unless it is asked for nothing, and may give fewer *)
(* bytes than there are: Go asks the kernel for 1 GiB at most, and network *)
(* file systems and FUSE stop where they like.                             *)
(***************************************************************************)
EXTENDS Integers, Sequences

CONSTANTS
  Confs,              \* command lines: see ConfsAssumption
  HttpRequests,       \* requests: see RequestsAssumption
  AlignSize,          \* 4096 in the code
  MaxSize             \* bound: the largest file

NoRange == <<>>

ASSUME ConfsAssumption ==
  \A c \in Confs :
    /\ {c.directIO, c.readAll, c.chunked, c.disableRange, c.getCode, c.headCode}
         \subseteq BOOLEAN
    /\ c.ceCount \in Nat \ {0} /\ c.otu \in {"none", "castis", "zooin"}
ASSUME RequestsAssumption ==
  \A r \in HttpRequests :
    /\ r.range = NoRange \/ r.range \in Nat \X (Nat \ {0})
    /\ r.session \in BOOLEAN       \* it has a session-id
    /\ r.ims \in BOOLEAN           \* If-Modified-Since is the file's time
ASSUME SizesAssumption == AlignSize \in Nat \ {0} /\ MaxSize \in Nat

\* What a path names; "notdir": it goes through a file.
FileStates ==
  [kind : {"file", "dir"}, size : 0 .. MaxSize] \cup [kind : {"missing", "notdir"}, size : {0}]

VARIABLES
  conf, req,          \* the flags and the request
  file,               \* what the path names
  fresh,              \* If-Modified-Since equals Last-Modified
  changed,            \* the file was rewritten since the HEAD
  pc,                 \* "head", "get", "read", "write", "done", "panicked"
  head,               \* the answer to HEAD: [status, clen]
  fi,                 \* fi.Size() at the GET
  body,               \* what is to be written: [buf, len], buf up to its capacity
  answer,             \* the answer to GET: [status, clen]
  sent,               \* the bytes written
  chunk,              \* chunks written
  faults              \* history: what the file system refused, see Faults

vars == <<conf, req, file, fresh, changed, pc, head, fi, body, answer, sent, chunk, faults>>
given == <<conf, req, file, fresh, changed>>

NoLength == -1
NoAnswer == [status |-> 0, clen |-> NoLength]
Configured == 999     \* -get-resp or -head-resp
Statuses == {0, 200, 206, 301, 304, 404, 500, Configured}
\* Calls that failed; "short": a Read that gave less than there was.
Faults == {"stat", "open", "read", "short"}
Answers == [status : Statuses, clen : {NoLength} \cup 0 .. MaxSize]

TypeOK ==
  /\ conf \in Confs /\ req \in HttpRequests /\ file \in FileStates
  /\ fresh \in BOOLEAN /\ changed \in BOOLEAN
  /\ pc \in {"head", "get", "read", "write", "done", "panicked"}
  /\ head \in Answers /\ answer \in Answers
  /\ fi \in 0 .. MaxSize
  /\ body.buf \in Seq(0 .. MaxSize) /\ body.len \in 0 .. Len(body.buf)
  /\ sent \in Seq(0 .. MaxSize)
  /\ chunk \in 0 .. MaxSize
  /\ faults \subseteq Faults

Init ==
  /\ conf \in Confs /\ req \in HttpRequests /\ file \in FileStates
  /\ fresh = req.ims /\ changed = FALSE /\ pc = "head"
  /\ head = NoAnswer /\ answer = NoAnswer /\ fi = 0
  /\ body = [buf |-> <<>>, len |-> 0] /\ sent = <<>> /\ chunk = 0
  /\ faults = {}

-----------------------------------------------------------------------------
(* Ranges and readfile.                                                    *)

Least(a, b) == IF a < b THEN a ELSE b
Ranged == req.range # NoRange /\ ~conf.disableRange
ParseFails(size) == Ranged /\ req.range[1] >= size

\* ras[0], or the whole file.
Start == IF Ranged THEN req.range[1] ELSE 0
Length(size) == IF Ranged THEN Least(req.range[2], size - Start) ELSE size

\* A Read of n bytes at offset has Readable bytes before it, gives one of Reads if
\* it gives any, and fills a buffer with them.
Readable(offset, n) == IF file.size <= offset THEN 0 ELSE Least(n, file.size - offset)
Reads(offset, n) ==
  IF n = 0 THEN {0} ELSE IF file.kind = "dir" THEN {} ELSE 1 .. Readable(offset, n)
Filled(offset, n, readed) == [i \in 1 .. n |-> IF i <= readed THEN offset + i ELSE 0]

\* From the aligned block before offset to the one that ends behind the range;
\* (0 - 1) / alignSize is 0 in Go.
Beg(offset) == (offset \div AlignSize) * AlignSize
NewLen(offset, len) == len + (offset - Beg(offset))
Sz(offset, len) ==
  IF NewLen(offset, len) = 0 THEN AlignSize
  ELSE ((NewLen(offset, len) - 1) \div AlignSize) * AlignSize + AlignSize

\* The count is thrown away: what was not read is sent as zeros.
Buffered(offset, len, readed) == [buf |-> Filled(offset, len, readed), len |-> len]

\* Mutant: the range is taken from the start of the aligned block.
DirectUnshifted(offset, len, readed) ==
  [buf |-> Filled(Beg(offset), Sz(offset, len), readed), len |-> Least(len, readed)]

\* len is cut down to what was read in all.
Direct(offset, len, readed) ==
  [buf |-> SubSeq(Filled(Beg(offset), Sz(offset, len), readed),
                  offset - Beg(offset) + 1, Sz(offset, len)),
   len |-> Least(len, readed)]

\* readfile, when Read gave that many bytes.
readfile(offset, len, readed) ==
  IF conf.directIO THEN Direct(offset, len, readed) ELSE Buffered(offset, len, readed)

-----------------------------------------------------------------------------
(* handleHead.                                                             *)

Plain(status) == [status |-> status, clen |-> NoLength]

\* Mutant: HEAD does not look at the Range header.
HeadOfFileWhole ==
  IF fresh THEN [status |-> 304, clen |-> file.size] ELSE Plain(200)

\* writeHeader drops the Content-Length of every 200, of a 206 when -chunked.
HeadOfFile ==
  LET status == IF fresh THEN 304 ELSE IF Ranged THEN 206 ELSE 200
  IN IF ParseFails(file.size) THEN Plain(500)
     ELSE IF status = 200 \/ (status = 206 /\ conf.chunked) THEN Plain(status)
     ELSE [status |-> status, clen |-> Length(file.size)]

\* The answers that need no file.
HeadEarly == conf.headCode \/ (conf.otu = "zooin" /\ ~req.session)

handleHead ==
  /\ pc = "head"
  /\ head' = IF HeadEarly THEN Plain(IF conf.headCode THEN Configured ELSE 301)
             ELSE IF file.kind \in {"missing", "notdir"} THEN Plain(404) ELSE HeadOfFile
  /\ pc' = "get"
  /\ UNCHANGED <<given, fi, body, answer, sent, chunk, faults>>

StatFails ==
  /\ pc = "head" /\ ~HeadEarly
  /\ head' = Plain(500) /\ faults' = {"stat"}
  /\ pc' = "get"
  /\ UNCHANGED <<given, fi, body, answer, sent, chunk>>

-----------------------------------------------------------------------------
(* handleGet.                                                              *)

Answer(a) == answer' = a /\ pc' = "done"

Unread == UNCHANGED <<given, head, body, sent, chunk>>

\* The answers that need no file.
Early == conf.getCode \/ (conf.otu # "none" /\ ~req.session)
GetEarly ==
  /\ pc = "get" /\ Early
  /\ Answer(Plain(IF conf.getCode THEN Configured ELSE 301))
  /\ Unread /\ UNCHANGED <<fi, faults>>

OpenFails ==
  /\ pc = "get" /\ ~Early
  /\ \/ file.kind = "missing" /\ Answer(Plain(404)) /\ UNCHANGED faults
     \/ file.kind = "notdir" /\ Answer(Plain(500)) /\ UNCHANGED faults
     \/ Answer(Plain(500)) /\ faults' = faults \cup {"open"}
  /\ Unread /\ UNCHANGED fi

\* The size is taken, the range parsed; a range is checked for 304 here.
Open ==
  /\ pc = "get" /\ ~Early /\ file.kind \in {"file", "dir"}
  /\ fi' = file.size
  /\ CASE ParseFails(file.size) -> Answer(Plain(500))
       [] ~ParseFails(file.size) /\ Ranged /\ fresh ->
            Answer([status |-> 304, clen |-> Length(file.size)])
       [] OTHER -> pc' = "read" /\ UNCHANGED answer
  /\ Unread /\ UNCHANGED faults

WholeRead == Ranged => conf.readAll

\* Mutant: -read-all reads as many bytes as the range has.
ReadLenOfRange == Length(fi)

\* What readfile is called with.
ReadAt == IF WholeRead THEN 0 ELSE Start
ReadLen == IF WholeRead THEN fi ELSE Length(fi)

\* What its Read is asked for, and may give.
AskedAt == IF conf.directIO THEN Beg(ReadAt) ELSE ReadAt
Asked == IF conf.directIO THEN Sz(ReadAt, ReadLen) ELSE ReadLen
Counts == Reads(AskedAt, Asked)
Shortened(readed) ==
  IF readed < Readable(AskedAt, Asked) THEN faults \cup {"short"} ELSE faults

ToRead(readed) == readfile(ReadAt, ReadLen, readed)

\* What readfile returns: an error, where nothing can be read or Seek or Read fails
\* though something could, or what it read.
Nil == [buf |-> <<>>, len |-> 0]
Failed(f) == [ok |-> FALSE, b |-> Nil, faults |-> f]
Outcomes ==
  {[ok |-> TRUE, b |-> ToRead(readed), faults |-> Shortened(readed)] : readed \in Counts}
  \cup {Failed(f) : f \in {faults \cup {"read"}} \cup (IF Counts = {} THEN {faults} ELSE {})}

\* b[Start : Start + Length] of what was read.
Cuttable(r) == Start + Length(fi) <= Len(r.buf)
Cut(r) == [buf |-> SubSeq(r.buf, Start + 1, Len(r.buf)), len |-> Length(fi)]

\* With -read-all the range is cut out of the result before its error is looked
\* at: out of range if nothing was read.
ReadPanics ==
  /\ pc = "read" /\ Ranged /\ conf.readAll
  /\ \E o \in Outcomes : ~Cuttable(o.b) /\ faults' = o.faults
  /\ pc' = "panicked"
  /\ UNCHANGED <<given, head, fi, body, answer, sent, chunk>>

\* The Content-Length of a range is set already.
ReadFailed ==
  /\ pc = "read" /\ ~(Ranged /\ conf.readAll)
  /\ \E o \in Outcomes : ~o.ok /\ faults' = o.faults
  /\ Answer([status |-> 500, clen |-> IF Ranged THEN Length(fi) ELSE NoLength])
  /\ Unread /\ UNCHANGED fi

\* The whole file is checked for 304 only after it was read.
NotModified ==
  /\ pc = "read" /\ ~Ranged /\ fresh
  /\ \E o \in Outcomes : o.ok /\ faults' = o.faults
  /\ Answer([status |-> 304, clen |-> fi])
  /\ Unread /\ UNCHANGED fi

\* What is read is the body, or the range is cut out of it.
ToBody ==
  \E o \in Outcomes :
    /\ o.ok /\ (Ranged /\ conf.readAll => Cuttable(o.b))
    /\ body' = IF Ranged /\ conf.readAll THEN Cut(o.b) ELSE o.b
    /\ faults' = o.faults

\* Mutant: the Content-Length is always the size of the file.
ReadOkSize ==
  /\ pc = "read" /\ (~Ranged => ~fresh) /\ ToBody
  /\ answer' = [status |-> IF Ranged THEN 206 ELSE 200,
                clen |-> IF conf.chunked THEN NoLength ELSE fi]
  /\ pc' = "write"
  /\ UNCHANGED <<given, head, fi, sent, chunk>>

ReadOk ==
  /\ pc = "read" /\ (~Ranged => ~fresh) /\ ToBody
  /\ answer' = [status |-> IF Ranged THEN 206 ELSE 200,
                clen |-> IF conf.chunked THEN NoLength ELSE Length(fi)]
  /\ pc' = "write"
  /\ UNCHANGED <<given, head, fi, sent, chunk>>

-----------------------------------------------------------------------------
(* writeResponse and writeChunkedEncoding.                                 *)

WriteBody ==
  /\ pc = "write" /\ ~conf.chunked
  /\ sent' = SubSeq(body.buf, 1, body.len)
  /\ pc' = "done"
  /\ UNCHANGED <<given, head, fi, body, answer, chunk, faults>>

ChunkLen(len, n) == IF len > n THEN (len + n - 1) \div n ELSE 1   \* math.Ceil
ChunkN(len, n) == Least(len, n)

\* Where chunk number i of n starts and ends; the last one takes the rest.
From(i, len, n) == i * ChunkLen(len, n)
To(i, len, n) == IF i + 1 = ChunkN(len, n) THEN len ELSE (i + 1) * ChunkLen(len, n)

\* body[from:to]: a slice may end behind len, up to the capacity.
Sliceable(from, to) == from <= to /\ to <= Len(body.buf)

WriteChunk ==
  /\ pc = "write" /\ conf.chunked /\ chunk < ChunkN(body.len, conf.ceCount)
  /\ LET from == From(chunk, body.len, conf.ceCount)
         to == To(chunk, body.len, conf.ceCount)
     IN IF Sliceable(from, to)
          THEN /\ sent' = sent \o SubSeq(body.buf, from + 1, to)
               /\ chunk' = chunk + 1
               /\ UNCHANGED pc
          ELSE pc' = "panicked" /\ UNCHANGED <<sent, chunk>>
  /\ UNCHANGED <<given, head, fi, body, answer, faults>>

ChunksEnd ==
  /\ pc = "write" /\ conf.chunked /\ chunk = ChunkN(body.len, conf.ceCount)
  /\ pc' = "done"
  /\ UNCHANGED <<given, head, fi, body, answer, sent, chunk, faults>>

\* Whoever fills the directory; times are to the second.
Rewrite ==
  /\ pc \in {"get", "read"} /\ ~changed
  /\ changed' = TRUE
  /\ \/ /\ pc = "get"
        /\ file' \in FileStates
     \/ /\ pc = "read" /\ file.kind = "file"     \* the open file
        /\ \E n \in 0 .. MaxSize : file' = [file EXCEPT !.size = n]
  /\ fresh' \in {FALSE, fresh}
  /\ UNCHANGED <<conf, req, pc, head, fi, body, answer, sent, chunk, faults>>

Next ==
  \/ handleHead \/ StatFails \/ GetEarly \/ OpenFails \/ Open
  \/ ReadPanics \/ ReadFailed \/ NotModified \/ ReadOk
  \/ WriteBody \/ WriteChunk \/ ChunksEnd \/ Rewrite

Spec == Init /\ [][Next]_vars

-----------------------------------------------------------------------------
(* Properties.                                                             *)

\* A 200 or 206 carries exactly the bytes asked for, whatever the alignment,
\* -read-all and the chunks (l.85-142, l.189-219).  If the file was rewritten
\* after its size was taken, or the one Read of l.104 or l.123 gave less than
\* there was, bytes may be lacking or 0, but none is out of place.
BodyRight ==
  /\ TypeOK
  /\ pc = "done" /\ answer.status \in {200, 206} =>
       /\ \A i \in 1 .. Len(sent) : sent[i] \in {0, Start + i}
       /\ ~changed /\ "short" \notin faults =>
            Len(sent) = Length(file.size) /\ \A i \in 1 .. Len(sent) : sent[i] # 0

\* A Content-Length that was sent is the length of the body, but with a 304.
\* Where reading fails, a 500 goes out with the length of the range it could not
\* read (l.277, l.292); with alignment, a file that shrinks or a short Read gives
\* fewer bytes than were promised.  Without alignment neither does: the body is
\* filled up with zeros.
LengthHonest ==
  pc = "done" /\ answer.clen # NoLength /\ answer.status # 304 =>
    \/ answer.clen = Len(sent)
    \/ answer.status = 500 /\ Ranged /\ (changed \/ file.kind = "dir" \/ "read" \in faults)
    \/ conf.directIO /\ (changed \/ "short" \in faults)

\* A request dies in a panic only when -read-all met a file that was rewritten,
\* is a directory or could not be read (l.287-288): never because a Read was
\* short, nor in the arithmetic of ranges, aligned blocks or, with the default
\* number of chunks, chunks.
PanicExplained ==
  pc = "panicked" =>
    Ranged /\ conf.readAll /\ (changed \/ file.kind = "dir" \/ "read" \in faults)

\* HEAD foretells GET: same status, and the same length where HEAD gives one,
\* unless a flag is for one of the two only, the file was rewritten, the path
\* is a directory or below a file (l.344), the file is empty and read with
\* alignment (l.104-107), or a call failed that the other handler does not make
\* or that worked there (l.73, l.78, l.123, l.341).  A short Read makes no
\* difference, and no failure to open or to read is answered with a 200 or 206.
HeadForetells ==
  pc = "done" =>
    /\ \/ conf.getCode \/ conf.headCode \/ (conf.otu = "castis" /\ ~req.session)
       \/ changed \/ file.kind \in {"dir", "notdir"}
       \/ file.size = 0 /\ conf.directIO
       \/ faults \cap {"stat", "open", "read"} # {}
       \/ answer.status = head.status /\ head.clen \in {answer.clen, NoLength}
    /\ faults \cap {"open", "read"} # {} => answer.status = 500

\* -ce-count (l.419, "chunk count, with chunked-encoding option"): a chunked
\* answer is not broken off before all of its chunks are written.
AllChunksWritten ==
  pc = "panicked" => answer = NoAnswer
=============================================================================
