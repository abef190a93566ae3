-------------------------- MODULE FuseHandleProofs --------------------------
(***************************************************************************)
(* Proofs about reading through an open file: for any number of requests   *)
(* at a time, any of the programs, any size of the file and of the content *)
(* that -no-read invents, and requests of any length.                      *)
(***************************************************************************)
EXTENDS FuseHandle, SequenceTheorems, TLAPS

\* The position a request has sought is its own until another request moves it.
Sought ==
  \A s \in Servers : handle = "good" /\ pc[s] = "read" /\ "moved" \notin why[s] => pos = offset[s]

\* What the program that has the handle can and cannot do.
Ways ==
  /\ handle = "bad" => flavor = "cppbuffered"
  /\ flavor = "noread" => \A s \in Servers : pc[s] # "read"

\* A reader that waits for its answers has one request under way, and nobody
\* moves it.
OneAtATime ==
  ~overlap =>
    /\ \A s, t \in Servers : UnderWay(s) /\ UnderWay(t) => s = t
    /\ \A s \in Servers : UnderWay(s) => "moved" \notin why[s]

\* A request under way has no answer yet.
Unanswered == \A s \in Servers : pc[s] # "answered" => reply[s] = NoReply

FuseInv ==
  /\ TypeOK /\ Sought /\ Ways /\ OneAtATime /\ Unanswered
  /\ WrongHasReason /\ WrongBytesMoved /\ CrashExplained

-----------------------------------------------------------------------------
(* Sizes and bytes.                                                        *)

LEMMA SizesTyped ==
  /\ FileSize \in Nat /\ FileSize >= 1 /\ MaxLen \in Nat /\ MaxLen >= 1 /\ ContentSize \in Nat
  /\ 0 \in 0 .. FileSize - 1 /\ 1 \in 1 .. MaxLen /\ 0 \in 0 .. FileSize
BY SizesAssumption

LEMMA LeastOfTwo ==
  \A a, b \in Int : /\ Least(a, b) \in Int /\ Least(a, b) <= a /\ Least(a, b) <= b
                    /\ Least(a, b) = a \/ Least(a, b) = b
BY DEF Least

LEMMA RequestTyped ==
  ASSUME TypeOK, NEW s \in Servers
  PROVE  /\ pos \in Nat /\ pos <= FileSize
         /\ offset[s] \in Nat /\ offset[s] < FileSize /\ len[s] \in Nat /\ len[s] >= 1
         /\ reply[s] \in [ok : BOOLEAN, data : Seq(0 .. FileSize)]
         /\ reply[s].data \in Seq(0 .. FileSize) /\ reply[s].ok \in BOOLEAN
         /\ why[s] \subseteq {"moved", "disk"}
BY SizesTyped DEF TypeOK

LEMMA EmptyData == /\ NoReply \in [ok : BOOLEAN, data : Seq(0 .. FileSize)]
                   /\ EmptyReply \in [ok : BOOLEAN, data : Seq(0 .. FileSize)]
                   /\ ~NoReply.ok /\ EmptyReply.ok
                   /\ NoReply.data = <<>> /\ EmptyReply.data = <<>>
BY DEF NoReply, EmptyReply

\* What a read finds: so many bytes, from the position on.
LEMMA ReadableBytes ==
  ASSUME TypeOK, NEW n \in Nat, n >= 1
  PROVE  /\ Readable(n) \in Nat /\ Readable(n) <= n /\ pos + Readable(n) <= FileSize
         /\ Readable(n) = n \/ Readable(n) = FileSize - pos
         /\ pos < FileSize => Readable(n) >= 1
<1>1. pos \in Nat /\ pos <= FileSize /\ FileSize \in Nat
  BY SizesTyped DEF TypeOK
<1> QED BY <1>1 DEF Readable, Least

LEMMA ServedBytes ==
  ASSUME TypeOK, NEW n \in Nat, n >= 1
  PROVE  /\ Served(n) \in [ok : BOOLEAN, data : Seq(0 .. FileSize)]
         /\ Served(n) = NoReply \/
              /\ Served(n).ok /\ Len(Served(n).data) \in {n, Readable(n)}
              /\ Len(Served(n).data) = n => flavor = "buffered" \/ n = Readable(n)
              /\ \A i \in 1 .. Len(Served(n).data) :
                   Served(n).data[i] = IF i <= Readable(n) THEN pos + i ELSE 0
         /\ Readable(n) >= 1 => Served(n).ok
<1> DEFINE got == Readable(n)
           size == IF flavor = "buffered" THEN n ELSE got
           d == [i \in 1 .. size |-> IF i <= got THEN pos + i ELSE 0]
<1>1. got \in Nat /\ pos \in Nat /\ pos + got <= FileSize /\ FileSize \in Nat
  <2>1. pos \in Nat /\ FileSize \in Nat
    BY SizesTyped DEF TypeOK
  <2> QED BY <2>1, ReadableBytes
<1>2. Served(n) = IF got = 0 /\ flavor \in {"buffered", "direct", "gofuse"} THEN NoReply
                  ELSE [ok |-> TRUE, data |-> d]
  BY DEF Served
<1> HIDE DEF got
<1>3. size \in Nat /\ size \in {n, got} /\ (size = n => flavor = "buffered" \/ n = got)
  BY <1>1
<1> HIDE DEF size
<1>4. d \in Seq(0 .. FileSize) /\ Len(d) = size
  <2>1. ASSUME NEW i \in 1 .. size PROVE (IF i <= got THEN pos + i ELSE 0) \in 0 .. FileSize
    BY <1>1, <1>3
  <2> QED BY <1>3, <2>1
<1>5. \A i \in 1 .. Len(d) : d[i] = IF i <= got THEN pos + i ELSE 0
  BY <1>4
<1> HIDE DEF d
<1>6. CASE got = 0 /\ flavor \in {"buffered", "direct", "gofuse"}
  BY <1>2, <1>6, EmptyData DEF got
<1>7. CASE ~(got = 0 /\ flavor \in {"buffered", "direct", "gofuse"})
  <2>1. Served(n) = [ok |-> TRUE, data |-> d]
    BY <1>2, <1>7
  <2>2. Served(n).ok /\ Served(n).data = d /\ Served(n) \in [ok : BOOLEAN, data : Seq(0 .. FileSize)]
    BY <1>4, <2>1
  <2> QED BY <1>3, <1>4, <1>5, <2>2 DEF got
<1> QED BY <1>6, <1>7

\* The beginning of an answer, of which the kernel cuts the end.
LEMMA Beginning ==
  ASSUME NEW d \in Seq(0 .. FileSize), NEW m \in Nat
  PROVE  LET g == SubSeq(d, 1, Least(Len(d), m)) IN
           /\ g \in Seq(0 .. FileSize) /\ Len(g) = Least(Len(d), m) /\ Len(g) \in Nat
           /\ Len(g) <= Len(d)
           /\ \A i \in 1 .. Len(g) : g[i] = d[i]
<1> DEFINE k == Least(Len(d), m)
           g == SubSeq(d, 1, k)
<1>1. Len(d) \in Nat
  OBVIOUS
<1>2. k \in Nat /\ k <= Len(d)
  BY <1>1 DEF Least
<1> HIDE DEF k
<1>3. ASSUME NEW i \in 1 .. k PROVE d[i] \in 0 .. FileSize
  <2>1. i \in 1 .. Len(d)
    BY <1>1, <1>2
  <2> QED BY <2>1, ElementOfSeq
<1>4. g \in Seq(0 .. FileSize) /\ Len(g) = k /\ \A i \in 1 .. k : g[i] = d[i]
  <2>1. /\ g \in Seq(0 .. FileSize)
        /\ Len(g) = (IF 1 <= k THEN k - 1 + 1 ELSE 0)
        /\ \A i \in 1 .. k - 1 + 1 : g[i] = d[1 + i - 1]
    BY <1>2, <1>3, SubSeqProperties
  <2>2. k - 1 + 1 = k /\ \A i \in 1 .. k : 1 + i - 1 = i
    BY <1>2
  <2> QED BY <1>2, <2>1, <2>2
<1> QED BY <1>2, <1>4 DEF k

LEMMA GotBytes ==
  ASSUME TypeOK, NEW s \in Servers
  PROVE  /\ Got(s) \in Seq(0 .. FileSize) /\ Len(Got(s)) \in Nat
         /\ Len(Got(s)) = Least(Len(reply[s].data), FileSize - offset[s])
         /\ Len(Got(s)) <= Len(reply[s].data)
         /\ \A i \in 1 .. Len(Got(s)) : Got(s)[i] = reply[s].data[i]
<1>1. reply[s].data \in Seq(0 .. FileSize) /\ FileSize - offset[s] \in Nat
  BY RequestTyped, SizesTyped
<1> QED BY <1>1, Beginning DEF Got

-----------------------------------------------------------------------------
(* What a step does, to the request it serves and to the others.           *)

LEMMA OpenedStays == [Next]_vars => flavor' = flavor /\ overlap' = overlap
BY DEF Next, Serve, Request, Seek, Read, ReadBad, DiskFails, ReadFake, vars, opened

LEMMA OthersKeep ==
  ASSUME TypeOK, NEW s \in Servers, Request(s) \/ Serve(s), NEW t \in Servers, t # s
  PROVE  /\ pc'[t] = pc[t] /\ offset'[t] = offset[t] /\ len'[t] = len[t] /\ reply'[t] = reply[t]
         /\ why[t] \subseteq why'[t]
         /\ pc[t] # "read" => why'[t] = why[t]
         /\ pc[t] = "read" /\ pos' # pos => "moved" \in why'[t]
<1> USE DEF TypeOK
<1>1. CASE Request(s)
  BY <1>1 DEF Request, Goto
<1>2. CASE Seek(s)
  BY <1>2 DEF Seek, Goto, Moves
<1>3. CASE Read(s)
  BY <1>3 DEF Read, Goto, Moves, Answer
<1>4. CASE ReadBad(s) \/ ReadFake(s)
  BY <1>4 DEF ReadBad, ReadFake, Goto, Answer
<1>5. CASE DiskFails(s)
  <2>1. /\ UNCHANGED <<reply, pc>> \/ Answer(s, EmptyReply) \/ Answer(s, NoReply)
        /\ why' = [why EXCEPT ![s] = @ \cup {"disk"}] /\ UNCHANGED <<opened, pos, offset, len>>
    BY <1>5 DEF DiskFails
  <2> QED BY <2>1 DEF Answer, Goto
<1> QED BY <1>1, <1>2, <1>3, <1>4, <1>5 DEF Serve

LEMMA RequestStep ==
  ASSUME TypeOK, NEW s \in Servers, Request(s)
  PROVE  /\ ~UnderWay(s) /\ (overlap \/ \A t \in Servers : ~UnderWay(t))
         /\ pc'[s] = "seek" /\ reply'[s] = NoReply /\ why'[s] = {}
         /\ pos' = pos /\ handle' = handle
         /\ \E o \in 0 .. FileSize - 1, n \in 1 .. MaxLen :
              /\ offset' = [offset EXCEPT ![s] = o] /\ len' = [len EXCEPT ![s] = n]
         /\ pc' = [pc EXCEPT ![s] = "seek"] /\ reply' = [reply EXCEPT ![s] = NoReply]
         /\ why' = [why EXCEPT ![s] = {}]
BY DEF Request, Goto, TypeOK

LEMMA SeekStep ==
  ASSUME TypeOK, NEW s \in Servers, Seek(s)
  PROVE  /\ pc[s] = "seek" /\ flavor # "noread" /\ pc'[s] = "read" /\ handle' = handle
         /\ why'[s] = why[s] /\ (handle = "good" => pos' = offset[s])
         /\ pos' \in {pos, offset[s]}
         /\ UNCHANGED <<offset, len, reply>> /\ pc' = [pc EXCEPT ![s] = "read"]
BY DEF Seek, Goto, Moves, Alive, TypeOK

LEMMA ReadStep ==
  ASSUME TypeOK, NEW s \in Servers, Read(s)
  PROVE  /\ handle = "good" /\ handle' = handle /\ pc[s] = "read" /\ pc'[s] = "answered"
         /\ why'[s] = why[s] /\ pos' = pos + Readable(len[s])
         /\ reply'[s] = Served(len[s]) /\ UNCHANGED <<offset, len>>
         /\ pc' = [pc EXCEPT ![s] = "answered"]
         /\ reply' = [reply EXCEPT ![s] = Served(len[s])]
<1>1. /\ handle = "good" /\ handle' = handle /\ pc[s] = "read"
      /\ reply' = [reply EXCEPT ![s] = Served(len[s])]
      /\ pc' = [pc EXCEPT ![s] = "answered"]
      /\ pos' = pos + Readable(len[s]) /\ UNCHANGED <<offset, len>>
      /\ why' = [t \in Servers |->
               IF t # s /\ pc[t] = "read" /\ pos + Readable(len[s]) # pos
               THEN why[t] \cup {"moved"} ELSE why[t]]
  BY DEF Read, Answer, Goto, Moves
<1> QED BY <1>1 DEF TypeOK

LEMMA ReadBadStep ==
  ASSUME TypeOK, NEW s \in Servers, ReadBad(s)
  PROVE  /\ handle = "bad" /\ pc[s] = "read" /\ pc'[s] = "answered"
         /\ reply'[s] = EmptyReply /\ UNCHANGED <<pos, handle, offset, len, why>>
         /\ pc' = [pc EXCEPT ![s] = "answered"] /\ reply' = [reply EXCEPT ![s] = EmptyReply]
BY DEF ReadBad, Answer, Goto, TypeOK

LEMMA ReadFakeStep ==
  ASSUME TypeOK, NEW s \in Servers, ReadFake(s)
  PROVE  /\ flavor = "noread" /\ pc[s] = "seek" /\ pc'[s] = "answered"
         /\ reply'[s] = FakeBytes(s) /\ UNCHANGED <<pos, handle, offset, len, why>>
         /\ pc' = [pc EXCEPT ![s] = "answered"] /\ reply' = [reply EXCEPT ![s] = FakeBytes(s)]
BY DEF ReadFake, Answer, Goto, TypeOK

LEMMA DiskFailsStep ==
  ASSUME TypeOK, NEW s \in Servers, DiskFails(s)
  PROVE  /\ handle = "good" /\ pc[s] = "read"
         /\ why'[s] = why[s] \cup {"disk"} /\ why' = [why EXCEPT ![s] = @ \cup {"disk"}]
         /\ UNCHANGED <<pos, offset, len>>
         /\ \/ /\ flavor = "cppdirect" /\ handle' = "crashed" /\ UNCHANGED <<reply, pc>>
            \/ /\ flavor = "cppbuffered" /\ handle' = "bad"
               /\ pc'[s] = "answered" /\ reply'[s] = EmptyReply
               /\ pc' = [pc EXCEPT ![s] = "answered"]
               /\ reply' = [reply EXCEPT ![s] = EmptyReply]
            \/ /\ flavor \notin {"cppdirect", "cppbuffered"} /\ handle' = handle
               /\ pc'[s] = "answered" /\ reply'[s] = NoReply
               /\ pc' = [pc EXCEPT ![s] = "answered"]
               /\ reply' = [reply EXCEPT ![s] = NoReply]
BY DEF DiskFails, Answer, Goto, TypeOK

\* What -no-read answers, in numbers.
LEMMA FakeAnswer ==
  ASSUME TypeOK, NEW s \in Servers
  PROVE  /\ FakeBytes(s) \in [ok : BOOLEAN, data : Seq(0 .. FileSize)]
         /\ offset[s] <= ContentSize =>
              FakeBytes(s).ok /\ Len(FakeBytes(s).data) = Least(len[s], ContentSize - offset[s])
<1>1. CASE offset[s] > ContentSize
  BY <1>1, EmptyData, RequestTyped, SizesTyped DEF FakeBytes
<1>2. CASE ~(offset[s] > ContentSize)
  <2> DEFINE k == Least(len[s], ContentSize - offset[s])
             d == [i \in 1 .. k |-> 0]
  <2>1. k \in Nat
    BY <1>2, RequestTyped, SizesTyped DEF Least
  <2>2. FakeBytes(s) = [ok |-> TRUE, data |-> d]
    BY <1>2 DEF FakeBytes
  <2> HIDE DEF k
  <2>3. d \in Seq(0 .. FileSize) /\ Len(d) = k
    BY <2>1, SizesTyped
  <2> HIDE DEF d
  <2> QED BY <2>2, <2>3 DEF k
<1> QED BY <1>1, <1>2

LEMMA TypeStep == TypeOK /\ [Next]_vars => TypeOK'
<1> SUFFICES ASSUME TypeOK, [Next]_vars PROVE TypeOK'
  OBVIOUS
<1>0. flavor' \in Flavors /\ overlap' \in BOOLEAN
  BY OpenedStays DEF TypeOK
<1>1. CASE UNCHANGED vars
  BY <1>1 DEF vars, opened, TypeOK
<1>2. ASSUME NEW s \in Servers, Request(s) \/ Serve(s)
      PROVE  TypeOK'
  <2>1. why' \in [Servers -> SUBSET {"moved", "disk"}]
    <3>1. why \in [Servers -> SUBSET {"moved", "disk"}]
      BY DEF TypeOK
    <3>2. CASE Seek(s)
      BY <3>1, <3>2 DEF Seek, Moves
    <3>3. CASE Read(s)
      BY <3>1, <3>3 DEF Read, Moves
    <3>4. CASE Request(s)
      BY <3>1, <3>4, RequestStep
    <3>5. CASE DiskFails(s)
      BY <3>1, <3>5, DiskFailsStep
    <3>6. CASE ReadBad(s) \/ ReadFake(s)
      BY <3>1, <3>6, ReadBadStep, ReadFakeStep
    <3> QED BY <1>2, <3>2, <3>3, <3>4, <3>5, <3>6 DEF Serve
  <2>2. pos' \in 0 .. FileSize
    <3>1. CASE Read(s)
      <4>1. pos' = pos + Readable(len[s]) /\ len[s] \in Nat /\ len[s] >= 1
        BY <3>1, ReadStep, RequestTyped
      <4> QED BY <4>1, ReadableBytes, RequestTyped, SizesTyped
    <3>2. CASE Seek(s)
      <4>1. pos' \in {pos, offset[s]}
        BY <3>2, SeekStep
      <4> QED BY <4>1, RequestTyped, SizesTyped
    <3>3. CASE ~Read(s) /\ ~Seek(s)
      <4>1. pos' = pos
        BY <1>2, <3>3, RequestStep, DiskFailsStep, ReadBadStep, ReadFakeStep DEF Serve
      <4> QED BY <4>1 DEF TypeOK
    <3> QED BY <3>1, <3>2, <3>3
  <2>3. handle' \in {"good", "bad", "crashed"}
    BY <1>2, RequestStep, SeekStep, ReadStep, DiskFailsStep, ReadBadStep, ReadFakeStep
       DEF Serve, TypeOK
  <2>4. /\ pc' \in [Servers -> {"idle", "seek", "read", "answered"}]
    <3>1. pc \in [Servers -> {"idle", "seek", "read", "answered"}]
      BY DEF TypeOK
    <3>2. pc' = pc \/ \E l \in {"seek", "read", "answered"} : pc' = [pc EXCEPT ![s] = l]
      BY <1>2, RequestStep, SeekStep, ReadStep, DiskFailsStep, ReadBadStep, ReadFakeStep DEF Serve
    <3> QED BY <3>1, <3>2
  <2>5. reply' \in [Servers -> [ok : BOOLEAN, data : Seq(0 .. FileSize)]]
    <3> DEFINE R == [ok : BOOLEAN, data : Seq(0 .. FileSize)]
    <3>1. reply \in [Servers -> R]
      BY DEF TypeOK
    <3>2. Served(len[s]) \in R /\ FakeBytes(s) \in R /\ NoReply \in R /\ EmptyReply \in R
      BY ServedBytes, RequestTyped, FakeAnswer, EmptyData
    <3> HIDE DEF R
    <3>3. reply' = reply \/ \E r \in R : reply' = [reply EXCEPT ![s] = r]
      BY <1>2, <3>2, RequestStep, SeekStep, ReadStep, DiskFailsStep, ReadBadStep, ReadFakeStep
         DEF Serve
    <3>4. reply' \in [Servers -> R]
      BY <3>1, <3>3
    <3> QED BY <3>4 DEF R
  <2>6. offset' \in [Servers -> 0 .. FileSize - 1] /\ len' \in [Servers -> 1 .. MaxLen]
    <3>1. offset \in [Servers -> 0 .. FileSize - 1] /\ len \in [Servers -> 1 .. MaxLen]
      BY DEF TypeOK
    <3>2. CASE Request(s)
      <4>1. PICK o \in 0 .. FileSize - 1, n \in 1 .. MaxLen :
              offset' = [offset EXCEPT ![s] = o] /\ len' = [len EXCEPT ![s] = n]
        BY <3>2, RequestStep
      <4> QED BY <3>1, <4>1
    <3>3. CASE ~Request(s)
      <4>1. offset' = offset /\ len' = len
        BY <1>2, <3>3, SeekStep, ReadStep, DiskFailsStep, ReadBadStep, ReadFakeStep DEF Serve
      <4> QED BY <3>1, <4>1
    <3> QED BY <3>2, <3>3
  <2> QED BY <1>0, <2>1, <2>2, <2>3, <2>4, <2>5, <2>6 DEF TypeOK
<1> QED BY <1>1, <1>2 DEF Next

-----------------------------------------------------------------------------
(* The parts of the invariant.                                             *)

LEMMA FuseStart == Init => FuseInv
<1> SUFFICES ASSUME Init PROVE FuseInv
  OBVIOUS
<1>1. TypeOK
  BY SizesTyped, EmptyData DEF Init, TypeOK
<1>2. Sought /\ Ways /\ OneAtATime /\ Unanswered
  BY DEF Init, Sought, Ways, OneAtATime, Unanswered, UnderWay
<1>3. WrongHasReason /\ WrongBytesMoved /\ CrashExplained
  BY DEF Init, WrongHasReason, WrongBytesMoved, CrashExplained, Alive
<1> QED BY <1>1, <1>2, <1>3 DEF FuseInv

LEMMA SoughtStep == TypeOK /\ Sought /\ [Next]_vars => Sought'
<1> SUFFICES ASSUME TypeOK, Sought, [Next]_vars PROVE Sought'
  OBVIOUS
<1>1. CASE UNCHANGED vars
  BY <1>1 DEF vars, Sought
<1>2. ASSUME NEW s \in Servers, Request(s) \/ Serve(s),
             NEW t \in Servers, handle' = "good", pc'[t] = "read", "moved" \notin why'[t]
      PROVE  pos' = offset'[t]
  <2>1. handle = "good"
    BY <1>2, RequestStep, SeekStep, ReadStep, ReadBadStep, ReadFakeStep, DiskFailsStep DEF Serve
  <2>2. CASE t = s
    <3>1. Seek(s)
      BY <1>2, <2>2, RequestStep, ReadStep, ReadBadStep, ReadFakeStep, DiskFailsStep DEF Serve
    <3> QED BY <2>1, <2>2, <3>1, SeekStep
  <2>3. CASE t # s
    BY <1>2, <2>1, <2>3, OthersKeep DEF Sought
  <2> QED BY <2>2, <2>3
<1> QED BY <1>1, <1>2 DEF Next, Sought

LEMMA WaysStep == TypeOK /\ Ways /\ [Next]_vars => Ways'
<1> SUFFICES ASSUME TypeOK, Ways, [Next]_vars PROVE Ways'
  OBVIOUS
<1>1. CASE UNCHANGED vars
  BY <1>1 DEF vars, opened, Ways
<1>2. ASSUME NEW s \in Servers, Request(s) \/ Serve(s) PROVE Ways'
  <2>1. handle' = "bad" => flavor' = "cppbuffered"
    BY <1>2, OpenedStays, RequestStep, SeekStep, ReadStep, ReadBadStep, ReadFakeStep,
       DiskFailsStep DEF Serve, Ways
  <2>2. ASSUME flavor' = "noread", NEW t \in Servers PROVE pc'[t] # "read"
    <3>1. flavor = "noread"
      BY <2>2, OpenedStays
    <3>2. CASE t = s
      BY <1>2, <3>1, <3>2, RequestStep, SeekStep, ReadStep, ReadBadStep, ReadFakeStep,
         DiskFailsStep DEF Serve, Ways
    <3>3. CASE t # s
      BY <1>2, <3>1, <3>3, OthersKeep DEF Ways
    <3> QED BY <3>2, <3>3
  <2> QED BY <2>1, <2>2 DEF Ways
<1> QED BY <1>1, <1>2 DEF Next

LEMMA OneAtATimeStep == TypeOK /\ OneAtATime /\ [Next]_vars => OneAtATime'
<1> SUFFICES ASSUME TypeOK, OneAtATime, [Next]_vars, ~overlap'
             PROVE  /\ \A s, t \in Servers : UnderWay(s)' /\ UnderWay(t)' => s = t
                    /\ \A s \in Servers : UnderWay(s)' => "moved" \notin why'[s]
  BY DEF OneAtATime
<1>0. /\ ~overlap
      /\ \A s, t \in Servers : UnderWay(s) /\ UnderWay(t) => s = t
      /\ \A s \in Servers : UnderWay(s) => "moved" \notin why[s]
  BY OpenedStays DEF OneAtATime
<1>1. CASE UNCHANGED vars
  BY <1>0, <1>1 DEF vars, UnderWay
<1>2. ASSUME NEW s \in Servers, Request(s) \/ Serve(s)
      PROVE  /\ UnderWay(s)' => "moved" \notin why'[s]
             /\ \A t \in Servers \ {s} : ~UnderWay(t)'
  <2>1. UnderWay(s) \/ \A t \in Servers : ~UnderWay(t)
    BY <1>0, <1>2, RequestStep, SeekStep, ReadStep, ReadBadStep, ReadFakeStep, DiskFailsStep
       DEF Serve, UnderWay
  <2>2. UnderWay(s)' => "moved" \notin why'[s]
    <3>1. CASE Request(s)
      BY <3>1, RequestStep
    <3>2. CASE Serve(s)
      <4>1. UnderWay(s) /\ why'[s] \subseteq why[s] \cup {"disk"}
        BY <3>2, SeekStep, ReadStep, ReadBadStep, ReadFakeStep, DiskFailsStep DEF Serve, UnderWay
      <4> QED BY <1>0, <4>1
    <3> QED BY <1>2, <3>1, <3>2
  <2>3. ASSUME NEW t \in Servers, t # s PROVE ~UnderWay(t)'
    BY <1>0, <1>2, <2>1, <2>3, OthersKeep DEF UnderWay
  <2> QED BY <2>2, <2>3
<1> QED BY <1>1, <1>2 DEF Next

LEMMA UnansweredStep == TypeOK /\ Unanswered /\ [Next]_vars => Unanswered'
<1> SUFFICES ASSUME TypeOK, Unanswered, [Next]_vars, NEW t \in Servers, pc'[t] # "answered"
             PROVE  reply'[t] = NoReply
  BY DEF Unanswered
<1>1. CASE UNCHANGED vars
  BY <1>1 DEF vars, Unanswered
<1>2. ASSUME NEW s \in Servers, Request(s) \/ Serve(s) PROVE reply'[t] = NoReply
  <2>1. CASE t = s
    BY <1>2, <2>1, RequestStep, SeekStep, ReadStep, ReadBadStep, ReadFakeStep, DiskFailsStep
       DEF Serve, Unanswered
  <2>2. CASE t # s
    BY <1>2, <2>2, OthersKeep DEF Unanswered
  <2> QED BY <2>1, <2>2
<1> QED BY <1>1, <1>2 DEF Next

LEMMA CrashStep == TypeOK /\ CrashExplained /\ [Next]_vars => CrashExplained'
<1> SUFFICES ASSUME TypeOK, CrashExplained, [Next]_vars, ~Alive'
             PROVE  flavor' = "cppdirect" /\ \E s \in Servers : pc'[s] = "read" /\ "disk" \in why'[s]
  BY DEF CrashExplained
<1>1. CASE UNCHANGED vars
  BY <1>1 DEF vars, opened, CrashExplained, Alive
<1>2. ASSUME NEW s \in Servers, Request(s) \/ Serve(s)
      PROVE  flavor' = "cppdirect" /\ pc'[s] = "read" /\ "disk" \in why'[s]
  <2>1. Alive
    <3>1. CASE ReadFake(s) /\ ~Alive
      BY <3>1, ReadFakeStep DEF CrashExplained
    <3> QED BY <1>2, <3>1 DEF Request, Serve, Seek, Read, ReadBad, DiskFails, Alive
  <2>2. DiskFails(s) /\ flavor = "cppdirect"
    BY <1>2, <2>1, RequestStep, SeekStep, ReadStep, ReadBadStep, ReadFakeStep, DiskFailsStep
       DEF Serve, Alive
  <2> QED BY <2>2, DiskFailsStep, OpenedStays
<1> QED BY <1>1, <1>2 DEF Next

-----------------------------------------------------------------------------
(* The answers.                                                            *)

\* A read from the place that was asked for is right.
LEMMA ReadIsRight ==
  ASSUME TypeOK, NEW s \in Servers, Read(s), pos = offset[s]
  PROVE  /\ reply'[s].ok
         /\ Len(Got(s)') = Least(len[s], FileSize - offset[s])
         /\ \A i \in 1 .. Len(Got(s)') : Got(s)'[i] = offset[s] + i
<1> DEFINE d == Served(len[s]).data
           m == FileSize - offset[s]
           n == len[s]
           got == Readable(n)
<1>1. n \in Nat /\ n >= 1 /\ m \in Nat /\ m >= 1 /\ pos < FileSize
  BY RequestTyped, SizesTyped
<1>2. got \in Nat /\ got >= 1 /\ got <= n /\ got <= m /\ (got = n \/ got = m)
  <2>1. pos \in Nat /\ FileSize \in Nat
    BY RequestTyped, SizesTyped
  <2> QED BY <1>1, <2>1, ReadableBytes
<1>3. Served(n).ok /\ d \in Seq(0 .. FileSize)
  BY <1>1, <1>2, ServedBytes, EmptyData
<1>4. /\ Len(d) \in {n, got}
      /\ \A i \in 1 .. Len(d) : d[i] = IF i <= got THEN pos + i ELSE 0
  BY <1>1, <1>3, ServedBytes, EmptyData
<1>5. reply'[s] = Served(n) /\ offset' = offset
  BY ReadStep
<1>6. Got(s)' = SubSeq(d, 1, Least(Len(d), m))
  BY <1>5 DEF Got
<1>7. Least(Len(d), m) = Least(n, m) /\ Least(n, m) = got
  <2> HIDE DEF d, m, n, got
  <2> QED BY <1>1, <1>2, <1>4 DEF Least
<1>8. Len(Got(s)') = got /\ \A i \in 1 .. got : Got(s)'[i] = d[i]
  BY <1>1, <1>3, <1>6, <1>7, Beginning
<1>9. ASSUME NEW i \in 1 .. got PROVE d[i] = offset[s] + i
  <2>1. i \in 1 .. Len(d) /\ i <= got
    <3> HIDE DEF d, n, got
    <3> QED BY <1>1, <1>2, <1>4
  <2> QED BY <1>4, <2>1
<1> QED BY <1>3, <1>5, <1>7, <1>8, <1>9

LEMMA SameAnswer ==
  ASSUME NEW t, reply'[t] = reply[t], offset'[t] = offset[t], len'[t] = len[t], flavor' = flavor
  PROVE  Got(t)' = Got(t) /\ (Right(t)' <=> Right(t))
BY DEF Got, Right

\* An answer without bytes has no wrong ones.
LEMMA NoBytes ==
  ASSUME TypeOK', NEW s \in Servers, reply'[s].data = <<>>
  PROVE  Len(Got(s)') = 0
<1> DEFINE d == <<>>
           m == FileSize - offset'[s]
<1>1. d \in Seq(0 .. FileSize) /\ Len(d) = 0 /\ m \in Nat
  BY SizesTyped DEF TypeOK
<1>2. Got(s)' = SubSeq(d, 1, Least(Len(d), m))
  BY DEF Got
<1> DEFINE g == SubSeq(d, 1, Least(Len(d), m))
<1> HIDE DEF d, m
<1>3. Len(g) \in Nat /\ Len(g) <= Len(d)
  BY <1>1, Beginning
<1> HIDE DEF g
<1>4. Len(g) = 0
  BY <1>1, <1>3
<1> QED BY <1>2, <1>4 DEF g

LEMMA WrongHasReasonStep ==
  TypeOK /\ Sought /\ Ways /\ WrongHasReason /\ [Next]_vars => WrongHasReason'
<1> SUFFICES ASSUME TypeOK, Sought, Ways, WrongHasReason, [Next]_vars,
                    NEW t \in Servers, pc'[t] = "answered", ~Right(t)', why'[t] = {}
             PROVE  \/ flavor' = "cppbuffered" /\ handle' = "bad"
                    \/ flavor' = "noread" /\ Least(offset'[t] + len'[t], FileSize) > ContentSize
  BY DEF WrongHasReason
<1>0. flavor' = flavor
  BY OpenedStays
<1>1. CASE UNCHANGED vars
  BY <1>1 DEF vars, opened, WrongHasReason, Right, Got
<1>2. ASSUME NEW s \in Servers, Request(s) \/ Serve(s)
      PROVE  \/ flavor = "cppbuffered" /\ handle' = "bad"
             \/ flavor = "noread" /\ Least(offset'[t] + len'[t], FileSize) > ContentSize
  <2>1. CASE t # s
    <3>1. /\ pc[t] = "answered" /\ ~Right(t) /\ why[t] = {}
          /\ offset'[t] = offset[t] /\ len'[t] = len[t]
      BY <1>0, <1>2, <2>1, OthersKeep, SameAnswer
    <3>2. flavor = "cppbuffered" /\ handle = "bad" => handle' = "bad"
      BY <1>2, RequestStep, SeekStep, ReadStep, ReadBadStep, ReadFakeStep, DiskFailsStep DEF Serve
    <3> QED BY <3>1, <3>2 DEF WrongHasReason
  <2>2. CASE t = s /\ Read(s)
    <3>1. pos = offset[s]
      BY <2>2, ReadStep DEF Sought
    <3>2. /\ reply'[s].ok /\ Len(Got(s)') = Least(len[s], FileSize - offset[s])
          /\ \A i \in 1 .. Len(Got(s)') : Got(s)'[i] = offset[s] + i
      BY <2>2, <3>1, ReadIsRight
    <3>3. offset' = offset /\ len' = len
      BY <2>2, ReadStep
    <3> QED BY <2>2, <3>2, <3>3 DEF Right
  <2>3. CASE t = s /\ ReadBad(s)
    BY <2>3, ReadBadStep DEF Ways
  <2>4. CASE t = s /\ ReadFake(s)
    <3>1. /\ reply'[s] = FakeBytes(s) /\ offset' = offset /\ len' = len /\ flavor = "noread"
      BY <2>4, ReadFakeStep
    <3>2. ASSUME ~(Least(offset[s] + len[s], FileSize) > ContentSize)
          PROVE  Right(s)'
      <4> DEFINE d == FakeBytes(s).data
                 o == offset[s]
                 n == len[s]
      <4>1. o \in Nat /\ o < FileSize /\ n \in Nat /\ n >= 1 /\ ContentSize \in Nat /\ FileSize \in Nat
        BY RequestTyped, SizesTyped
      <4>2. ~(Least(o + n, FileSize) > ContentSize)
        BY <3>2
      <4>3. o <= ContentSize
        <5> HIDE DEF o, n
        <5> QED BY <4>1, <4>2 DEF Least
      <4>4. FakeBytes(s).ok /\ Len(d) = Least(n, ContentSize - o) /\ d \in Seq(0 .. FileSize)
        BY <4>3, FakeAnswer
      <4>5. Got(s)' = SubSeq(d, 1, Least(Len(d), FileSize - o))
        BY <3>1 DEF Got
      <4>6. FileSize - o \in Nat
        BY <4>1
      <4> HIDE DEF d, o, n
      <4>7. Len(Got(s)') = Least(Least(n, ContentSize - o), FileSize - o)
        BY <4>4, <4>5, <4>6, Beginning
      <4>8. Least(Least(n, ContentSize - o), FileSize - o) = Least(n, FileSize - o)
        BY <4>1, <4>2, <4>3 DEF Least
      <4>9. Len(Got(s)') = Least(len[s], FileSize - offset[s])
        BY <4>7, <4>8 DEF o, n
      <4> QED BY <1>0, <3>1, <4>4, <4>9 DEF Right
    <3> QED BY <2>4, <3>1, <3>2
  <2>5. CASE t = s /\ (Request(s) \/ Seek(s) \/ DiskFails(s))
    BY <2>5, RequestStep, SeekStep, DiskFailsStep
  <2> QED BY <1>2, <2>1, <2>2, <2>3, <2>4, <2>5 DEF Serve
<1> QED BY <1>0, <1>1, <1>2 DEF Next

LEMMA WrongBytesMovedStep ==
  TypeOK /\ Sought /\ WrongBytesMoved /\ [Next]_vars => WrongBytesMoved'
<1> SUFFICES ASSUME TypeOK, Sought, WrongBytesMoved, [Next]_vars,
                    NEW t \in Servers, pc'[t] = "answered", flavor' # "noread",
                    NEW i \in 1 .. Len(Got(t)')
             PROVE  /\ Got(t)'[i] # offset'[t] + i => "moved" \in why'[t]
                    /\ Got(t)'[i] = 0 => flavor' = "buffered"
  BY DEF WrongBytesMoved
<1>0. flavor' = flavor /\ TypeOK'
  BY OpenedStays, TypeStep
<1>1. CASE UNCHANGED vars
  BY <1>1 DEF vars, opened, WrongBytesMoved, Got
<1>2. ASSUME NEW s \in Servers, Request(s) \/ Serve(s)
      PROVE  /\ Got(t)'[i] # offset'[t] + i => "moved" \in why'[t]
             /\ Got(t)'[i] = 0 => flavor = "buffered"
  <2>1. CASE t # s
    <3>1. /\ pc[t] = "answered" /\ Got(t)' = Got(t) /\ offset'[t] = offset[t]
          /\ why[t] \subseteq why'[t]
      BY <1>0, <1>2, <2>1, OthersKeep, SameAnswer
    <3> QED BY <1>0, <3>1 DEF WrongBytesMoved
  <2>2. CASE t = s /\ Read(s)
    <3>1. offset' = offset /\ why'[s] = why[s] /\ reply'[s] = Served(len[s])
      BY <2>2, ReadStep
    <3>2. Got(s)'[i] # offset'[s] + i => "moved" \in why'[s]
      <4>1. ASSUME "moved" \notin why[s] PROVE Got(s)'[i] = offset[s] + i
        <5>1. pos = offset[s]
          BY <2>2, <4>1, ReadStep DEF Sought
        <5>2. \A k \in 1 .. Len(Got(s)') : Got(s)'[k] = offset[s] + k
          BY <2>2, <5>1, ReadIsRight
        <5>3. i \in 1 .. Len(Got(s)')
          BY <2>2
        <5> QED BY <5>2, <5>3
      <4> QED BY <3>1, <4>1
    <3>3. ASSUME Got(s)'[i] = 0 PROVE flavor = "buffered"
      <4> DEFINE d == Served(len[s]).data
                 m == FileSize - offset[s]
      <4>1. len[s] \in Nat /\ len[s] >= 1 /\ m \in Nat /\ pos \in Nat
        BY RequestTyped, SizesTyped
      <4>2. /\ Served(len[s]) \in [ok : BOOLEAN, data : Seq(0 .. FileSize)]
            /\ Served(len[s]) = NoReply \/
                 /\ Len(d) \in {len[s], Readable(len[s])}
                 /\ Len(d) = len[s] => flavor = "buffered" \/ len[s] = Readable(len[s])
                 /\ \A k \in 1 .. Len(d) :
                      d[k] = IF k <= Readable(len[s]) THEN pos + k ELSE 0
        BY <4>1, ServedBytes
      <4>3. d \in Seq(0 .. FileSize) /\ Len(d) \in Nat
        BY <4>2
      <4>4. Got(s)' = SubSeq(d, 1, Least(Len(d), m))
        BY <3>1 DEF Got
      <4>5. i \in 1 .. Len(Got(s)') /\ Len(Got(s)') <= Len(d) /\ Len(Got(s)') \in Nat
        BY <2>2, <4>1, <4>3, <4>4, Beginning
      <4>6. i \in 1 .. Len(d) /\ d[i] = 0
        <5>1. i \in 1 .. Len(d)
          <6> HIDE DEF d
          <6> QED BY <4>3, <4>5
        <5>2. d[i] = Got(s)'[i]
          BY <4>1, <4>3, <4>4, <4>5, Beginning
        <5> QED BY <3>3, <5>1, <5>2
      <4>7. Served(len[s]) # NoReply
        <5>1. Served(len[s]) = NoReply => Len(d) = 0
          BY EmptyData
        <5> HIDE DEF d
        <5> QED BY <4>6, <5>1
      <4>8. ~(i <= Readable(len[s]))
        <5>1. i \in Nat /\ i >= 1
          <6> HIDE DEF d
          <6> QED BY <4>3, <4>6
        <5>2. i <= Readable(len[s]) => d[i] = pos + i
          BY <4>2, <4>6, <4>7
        <5> HIDE DEF d
        <5> QED BY <4>1, <4>6, <5>1, <5>2
      <4>9. Len(d) # Readable(len[s])
        <5> HIDE DEF d
        <5> QED BY <4>3, <4>6, <4>8
      <4> QED BY <4>2, <4>7, <4>9
    <3> QED BY <2>2, <3>2, <3>3
  <2>3. CASE t = s /\ ~Read(s)
    <3>1. Request(s) \/ Seek(s) \/ ReadFake(s) => FALSE
      BY <1>0, <2>3, RequestStep, SeekStep, ReadFakeStep
    <3>2. ReadBad(s) \/ DiskFails(s)
      BY <1>2, <2>3, <3>1 DEF Serve
    <3>3. pc[s] = "read" => reply'[s] \in {NoReply, EmptyReply}
      BY <2>3, <3>2, ReadBadStep, DiskFailsStep
    <3>4. reply'[s].data = <<>>
      BY <3>2, <3>3, EmptyData, ReadBadStep, DiskFailsStep
    <3>5. Len(Got(s)') = 0
      BY <1>0, <3>4, NoBytes
    <3> QED BY <2>3, <3>5
  <2> QED BY <2>1, <2>2, <2>3
<1> QED BY <1>0, <1>1, <1>2 DEF Next

LEMMA FuseStep == FuseInv /\ [Next]_vars => FuseInv'
<1> SUFFICES ASSUME FuseInv, [Next]_vars PROVE FuseInv'
  OBVIOUS
<1> USE DEF FuseInv
<1>1. TypeOK' /\ Sought' /\ Ways' /\ OneAtATime' /\ Unanswered'
  BY TypeStep, SoughtStep, WaysStep, OneAtATimeStep, UnansweredStep
<1>2. WrongHasReason' /\ WrongBytesMoved' /\ CrashExplained'
  BY WrongHasReasonStep, WrongBytesMovedStep, CrashStep
<1> QED BY <1>1, <1>2

-----------------------------------------------------------------------------
(* The theorems.                                                           *)

\* The invariant of a handle whose position the requests share (fusefs.go
\* l.225-255).
THEOREM FuseSafe == Spec => []FuseInv
BY FuseStart, FuseStep, PTL DEF Spec

\* A wrong answer has a reason: another request moved the position in between,
\* the disk failed, a stream is bad, or -no-read invented too little.
THEOREM WrongIsExplained == Spec => []WrongExplained
BY FuseSafe, PTL DEF FuseInv, WrongExplained

\* The bytes that a right read gets are the bytes of the file.
LEMMA RightBytes ==
  ASSUME TypeOK, TypeOK', NEW s \in Servers, Read(s), pos = offset[s]
  PROVE  Got(s)' = Positional!Bytes(offset[s], len[s])
<1> DEFINE o == offset[s]
           n == len[s]
           m == IF o + n < FileSize THEN o + n ELSE FileSize
           file == [p \in 1 .. FileSize |-> p]
           b == SubSeq(file, o + 1, m)
           g == Got(s)'
<1>1. /\ o \in Nat /\ o < FileSize /\ n \in Nat /\ n >= 1 /\ FileSize \in Nat
  BY RequestTyped, SizesTyped
<1>2. Positional!Bytes(o, n) = b
  BY DEF Positional!Bytes
<1>3. Len(g) = Least(n, FileSize - o) /\ \A i \in 1 .. Len(g) : g[i] = o + i
  BY ReadIsRight
<1>4. g \in Seq(0 .. FileSize)
  <2> DEFINE d == Served(n).data
             k == FileSize - o
  <2>1. d \in Seq(0 .. FileSize) /\ k \in Nat
    BY <1>1, ServedBytes
  <2>2. g = SubSeq(d, 1, Least(Len(d), k))
    BY ReadStep DEF Got
  <2> HIDE DEF d, k, g
  <2> QED BY <2>1, <2>2, Beginning
<1> HIDE DEF o, n, g
<1>5. m \in Int /\ o + 1 \in Int /\ o + 1 <= m /\ m <= FileSize /\ m - o = Least(n, FileSize - o)
  BY <1>1 DEF Least
<1> HIDE DEF m
<1>6. \A i \in o + 1 .. m : file[i] \in 0 .. FileSize
  BY <1>1, <1>5
<1>7. /\ b \in Seq(0 .. FileSize) /\ Len(b) = m - (o + 1) + 1
      /\ \A i \in 1 .. m - (o + 1) + 1 : b[i] = file[o + 1 + i - 1]
  BY <1>5, <1>6, SubSeqProperties
<1>8. \A i \in 1 .. m - o : file[o + 1 + i - 1] = o + i
  BY <1>1, <1>5
<1> HIDE DEF b, file
<1>9. m - (o + 1) + 1 = m - o
  BY <1>1, <1>5
<1>10. Len(b) = Len(g) /\ \A i \in 1 .. Len(b) : b[i] = g[i]
  BY <1>3, <1>5, <1>7, <1>8, <1>9
<1>11. g = b
  BY <1>4, <1>7, <1>10, SeqEqual
<1> QED BY <1>2, <1>11 DEF g, o, n

\* Serial reads, as the reader sees them.
Stage == [s \in Servers |-> IF UnderWay(s) THEN "asked" ELSE pc[s]]
Bytes == [s \in Servers |-> IF reply[s].ok THEN Got(s) ELSE <<>>]

LEMMA SerialStep ==
  ASSUME FuseInv, NEW s \in Servers, Request(s) \/ Serve(s), Serial
  PROVE  \/ UNCHANGED <<Stage, offset, len, Bytes>>
         \/ /\ Stage[s] # "asked" /\ Stage' = [Stage EXCEPT ![s] = "asked"]
            /\ \E o \in 0 .. FileSize, n \in 1 .. MaxLen :
                 offset' = [offset EXCEPT ![s] = o] /\ len' = [len EXCEPT ![s] = n]
            /\ Bytes' = [Bytes EXCEPT ![s] = <<>>]
         \/ /\ Stage[s] = "asked" /\ Stage' = [Stage EXCEPT ![s] = "answered"]
            /\ UNCHANGED <<offset, len>>
            /\ \E b \in {<<>>, Positional!Bytes(offset[s], len[s])} :
                 Bytes' = [Bytes EXCEPT ![s] = b]
<1>0. /\ TypeOK /\ TypeOK' /\ Sought /\ Ways /\ OneAtATime /\ Unanswered /\ flavor' = flavor
  BY TypeStep, OpenedStays DEF FuseInv, Next
<1>1. ASSUME NEW t \in Servers, t # s
      PROVE  /\ Stage'[t] = Stage[t] /\ Bytes'[t] = Bytes[t]
  <2>1. /\ pc'[t] = pc[t] /\ offset'[t] = offset[t] /\ len'[t] = len[t] /\ reply'[t] = reply[t]
    BY <1>0, <1>1, OthersKeep
  <2>2. Got(t)' = Got(t)
    BY <1>0, <2>1, SameAnswer
  <2> QED BY <1>1, <2>1, <2>2 DEF Stage, Bytes, UnderWay
<1>2. /\ Stage' = [Stage EXCEPT ![s] = Stage'[s]]
      /\ Bytes' = [Bytes EXCEPT ![s] = Bytes'[s]]
  <2>1. Stage' = [t \in Servers |-> Stage'[t]] /\ Bytes' = [t \in Servers |-> Bytes'[t]]
    BY DEF Stage, Bytes
  <2>2. Stage = [t \in Servers |-> Stage[t]] /\ Bytes = [t \in Servers |-> Bytes[t]]
    BY DEF Stage, Bytes
  <2> QED BY <1>1, <2>1, <2>2
<1>3. /\ Stage[s] = (IF UnderWay(s) THEN "asked" ELSE pc[s])
      /\ Stage'[s] = (IF UnderWay(s)' THEN "asked" ELSE pc'[s])
      /\ ~reply'[s].ok => Bytes'[s] = <<>>
      /\ reply'[s].ok => Bytes'[s] = Got(s)'
      /\ ~reply[s].ok => Bytes[s] = <<>>
  BY DEF Stage, Bytes
<1>4. CASE Request(s)
  <2>1. /\ Stage[s] # "asked" /\ Stage'[s] = "asked" /\ Bytes'[s] = <<>>
    BY <1>0, <1>3, <1>4, RequestStep, EmptyData DEF UnderWay, TypeOK
  <2>2. PICK o \in 0 .. FileSize - 1, n \in 1 .. MaxLen :
          offset' = [offset EXCEPT ![s] = o] /\ len' = [len EXCEPT ![s] = n]
    BY <1>0, <1>4, RequestStep
  <2>3. o \in 0 .. FileSize
    BY SizesTyped
  <2> QED BY <1>2, <2>1, <2>2, <2>3
<1>5. CASE Seek(s) \/ (DiskFails(s) /\ handle' = "crashed")
  <2>1. UNCHANGED <<offset, len, reply>> /\ UnderWay(s) /\ UnderWay(s)'
    BY <1>0, <1>5, SeekStep, DiskFailsStep DEF UnderWay
  <2>2. Stage'[s] = Stage[s]
    BY <1>3, <2>1
  <2>3. Bytes' = Bytes
    BY <2>1 DEF Bytes, Got
  <2>4. Stage' = Stage
    BY <1>2, <2>2 DEF Stage
  <2> QED BY <2>1, <2>3, <2>4
<1>6. CASE Read(s)
  <2>1. Stage[s] = "asked" /\ Stage'[s] = "answered" /\ UNCHANGED <<offset, len>>
    BY <1>0, <1>3, <1>6, ReadStep DEF UnderWay
  <2>2. pos = offset[s]
    BY <1>0, <1>6, ReadStep DEF OneAtATime, Serial, Sought, UnderWay
  <2>3. Bytes'[s] = Positional!Bytes(offset[s], len[s])
    BY <1>0, <1>3, <1>6, <2>2, ReadIsRight, RightBytes
  <2> QED BY <1>2, <2>1, <2>3
<1>7. CASE ReadBad(s) \/ (DiskFails(s) /\ handle' # "crashed")
  <2>1. Stage[s] = "asked" /\ Stage'[s] = "answered" /\ UNCHANGED <<offset, len>>
    BY <1>0, <1>3, <1>7, ReadBadStep, DiskFailsStep DEF UnderWay
  <2>2. reply'[s] \in {NoReply, EmptyReply}
    BY <1>0, <1>7, ReadBadStep, DiskFailsStep
  <2>3. Bytes'[s] = <<>>
    <3>1. reply'[s].data = <<>>
      BY <2>2, EmptyData
    <3>2. Len(Got(s)') = 0
      BY <1>0, <3>1, NoBytes
    <3>3. Got(s)' \in Seq(0 .. FileSize)
      <4> DEFINE d == <<>>
                 m == FileSize - offset'[s]
      <4>1. d \in Seq(0 .. FileSize) /\ m \in Nat
        BY <1>0, SizesTyped DEF TypeOK
      <4>2. Got(s)' = SubSeq(d, 1, Least(Len(d), m))
        BY <3>1 DEF Got
      <4> HIDE DEF d, m
      <4> QED BY <4>1, <4>2, Beginning
    <3>4. Got(s)' = <<>>
      BY <3>2, <3>3, EmptySeq
    <3> QED BY <1>3, <3>4
  <2> QED BY <1>2, <2>1, <2>3
<1>8. ~ReadFake(s)
  BY <1>0, ReadFakeStep DEF Serial
<1> QED BY <1>4, <1>5, <1>6, <1>7, <1>8 DEF Serve

\* Reads that do not overlap are positional (fusefs.go, gofusefs.go and both of
\* fuse-cpp): the detailed handle implements PositionalReads.
THEOREM SerialReadsArePositional == Spec => ReadsArePositional
<1> USE DEF Positional!readVars
<1>1. Init => Positional!ReadsInit
  <2> SUFFICES ASSUME Init PROVE Positional!ReadsInit
    OBVIOUS
  <2>1. Stage = [s \in Servers |-> "idle"] /\ Bytes = [s \in Servers |-> <<>>]
    BY EmptyData DEF Init, Stage, Bytes, UnderWay
  <2> QED BY <2>1 DEF Positional!ReadsInit, IfSerial, Init, Stage, Bytes
<1>2. FuseInv /\ [Next]_vars
        => [\E s \in Servers : Positional!Ask(s) \/ Positional!Answer(s)]_(Positional!readVars)
  <2> SUFFICES ASSUME FuseInv, [Next]_vars
               PROVE  [\E s \in Servers : Positional!Ask(s) \/ Positional!Answer(s)]_(Positional!readVars)
    OBVIOUS
  <2>0. Serial' <=> Serial
    BY OpenedStays DEF Serial
  <2>1. CASE UNCHANGED vars
    <3>1. UNCHANGED <<Stage, offset, len, Bytes>>
      BY <2>1 DEF vars, Stage, Bytes, Got, UnderWay
    <3> QED BY <2>0, <3>1 DEF IfSerial, Stage, Bytes
  <2>2. CASE ~Serial
    BY <2>0, <2>2 DEF IfSerial
  <2>3. ASSUME Serial, NEW s \in Servers, Request(s) \/ Serve(s)
        PROVE  [Positional!Ask(s) \/ Positional!Answer(s)]_(Positional!readVars)
    <3>1. /\ IfSerial(Stage, "idle") = Stage /\ IfSerial(offset, 0) = offset
          /\ IfSerial(len, 1) = len /\ IfSerial(Bytes, <<>>) = Bytes
          /\ IfSerial(Stage, "idle")' = Stage' /\ IfSerial(offset, 0)' = offset'
          /\ IfSerial(len, 1)' = len' /\ IfSerial(Bytes, <<>>)' = Bytes'
      BY <2>0, <2>3 DEF IfSerial
    <3>2. CASE UNCHANGED <<Stage, offset, len, Bytes>>
      BY <3>1, <3>2 DEF Stage, Bytes
    <3>3. CASE /\ Stage[s] # "asked" /\ Stage' = [Stage EXCEPT ![s] = "asked"]
               /\ \E o \in 0 .. FileSize, n \in 1 .. MaxLen :
                    offset' = [offset EXCEPT ![s] = o] /\ len' = [len EXCEPT ![s] = n]
               /\ Bytes' = [Bytes EXCEPT ![s] = <<>>]
      <4> DEFINE S == IfSerial(Stage, "idle")
                 B == IfSerial(Bytes, <<>>)
                 O == IfSerial(offset, 0)
                 L == IfSerial(len, 1)
      <4>1. Positional!Ask(s) <=>
              /\ S[s] # "asked"
              /\ \E o \in 0 .. FileSize, n \in 1 .. MaxLen :
                   O' = [O EXCEPT ![s] = o] /\ L' = [L EXCEPT ![s] = n]
              /\ S' = [S EXCEPT ![s] = "asked"] /\ B' = [B EXCEPT ![s] = <<>>]
        BY DEF Positional!Ask, Stage, Bytes
      <4>2. S = Stage /\ S' = Stage' /\ B = Bytes /\ B' = Bytes'
            /\ O = offset /\ O' = offset' /\ L = len /\ L' = len'
        BY <3>1
      <4> HIDE DEF S, B, O, L
      <4>3. Positional!Ask(s)
        BY <3>3, <4>1, <4>2
      <4> QED BY <4>3
    <3>4. CASE /\ Stage[s] = "asked" /\ Stage' = [Stage EXCEPT ![s] = "answered"]
               /\ UNCHANGED <<offset, len>>
               /\ \E b \in {<<>>, Positional!Bytes(offset[s], len[s])} :
                    Bytes' = [Bytes EXCEPT ![s] = b]
      <4>1. Positional!Answer(s)
        BY <3>1, <3>4 DEF Positional!Answer, Stage, Bytes
      <4> QED BY <4>1
    <3> QED BY <2>3, <3>2, <3>3, <3>4, SerialStep
  <2> QED BY <2>1, <2>2, <2>3 DEF Next
<1> QED BY <1>1, <1>2, FuseSafe, PTL DEF Spec, ReadsArePositional, Positional!ReadsSpec
=============================================================================
