----------------------------- MODULE FileReader -----------------------------
(***************************************************************************)
(* src/filereader/filereader.go: many users read files side by side, each  *)
(* of them its own part of the contents in turn, from a disk, over HTTP,   *)
(* or over HTTP on a unix domain socket.  After each read a user hands its *)
(* result to the one goroutine that adds them up, and waits for it.        *)
(*                                                                         *)
(* Left out: the times of the results and the figures printed every second *)
(* (they count reads, as totalReaded does); the alignment of direct io.    *)
(*                                                                         *)
(* External: disk, server, the limit of the running time.                  *)
(***************************************************************************)
EXTENDS Integers, FiniteSets

CONSTANTS
  userN,              \* -user
  ContentNs,          \* values of -content
  loop,               \* -loop: reads of each user
  retryCnt            \* tries after a first one over the socket (5 in the code)

FlagsAssumption == userN \in Nat \ {0} /\ ContentNs \subseteq Nat /\ loop \in Nat
RetryAssumption == retryCnt \in Nat

Users == 1 .. userN
Vias == {"file", "uds", "http", "nourl"}
Contents == UNION {1 .. n : n \in ContentNs \cup {1}}

VARIABLES
  contentN,
  via,                \* "file", "uds", "http"; "nourl": http, of whose -addr no URL can be made
  process,            \* "running", "panicked", "ended"
  pc,                 \* pc[u]: "next", "read", "send"
  j,                  \* j[u]: the reads of u that are done
  detail,             \* detail[u]: the place of its content in its part
  tries,              \* tries[u]: failed tries of this read
  totalReaded,
  \* history
  reads,              \* reads[u][f]: how often u began to read f.mpg
  good, lost          \* how many reads got an answer, and how many did not

vars == <<contentN, via, process, pc, j, detail, tries, totalReaded, reads, good, lost>>

TypeOK ==
  /\ contentN \in ContentNs
  /\ via \in Vias
  /\ process \in {"running", "panicked", "ended"}
  /\ pc \in [Users -> {"next", "read", "send"}]
  /\ j \in [Users -> 0 .. loop] /\ detail \in [Users -> Nat]
  /\ tries \in [Users -> 0 .. retryCnt]
  /\ reads \in [Users -> [Contents -> Nat]]
  /\ {totalReaded, good, lost} \subseteq Nat

Init ==
  /\ contentN \in ContentNs
  /\ via \in Vias /\ process = "running"
  /\ pc = [u \in Users |-> "next"] /\ j = [u \in Users |-> 0]
  /\ detail = [u \in Users |-> 0] /\ tries = [u \in Users |-> 0]
  /\ totalReaded = 0
  /\ reads = [u \in Users |-> [f \in Contents |-> 0]] /\ good = 0 /\ lost = 0

-----------------------------------------------------------------------------
userContentLimit == contentN \div userN
Running == process = "running"
Goto(u, label) == pc' = [pc EXCEPT ![u] = label]

\* Mutant: the place is compared before it is moved on.
RollLate(d) == IF d > userContentLimit THEN 1 ELSE d + 1

\* The next place in the part of a user, which begins again behind its end.
Roll(d) == IF d + 1 > userContentLimit THEN 1 ELSE d + 1

\* The number of the file at a place.
fi(u, d) == (u - 1) * userContentLimit + d

Begin(u) ==
  /\ Running /\ pc[u] = "next" /\ j[u] < loop
  /\ detail' = [detail EXCEPT ![u] = Roll(@)]
  /\ reads' = [reads EXCEPT ![u][fi(u, detail'[u])] = @ + 1]
  /\ tries' = [tries EXCEPT ![u] = 0]
  /\ Goto(u, "read")
  /\ UNCHANGED <<contentN, via, process, j, totalReaded, good, lost>>

\* An answer, of whatever status.
ReadOk(u) ==
  /\ Running /\ pc[u] = "read" /\ via # "nourl"
  /\ good' = good + 1
  /\ Goto(u, "send")
  /\ UNCHANGED <<contentN, via, process, j, detail, tries, totalReaded, reads, lost>>

\* Over the socket the request is tried again.
Retry(u) ==
  /\ Running /\ pc[u] = "read" /\ via = "uds" /\ tries[u] < retryCnt
  /\ tries' = [tries EXCEPT ![u] = @ + 1]
  /\ UNCHANGED <<contentN, via, process, pc, j, detail, totalReaded, reads, good, lost>>

\* Mutant: the failed request has no body to close, and the user goes on.
HttpReadLost(u) ==
  /\ Running /\ pc[u] = "read" /\ via # "file"
  /\ lost' = lost + 1
  /\ Goto(u, "send")
  /\ UNCHANGED <<contentN, via, process, j, detail, tries, totalReaded, reads, good>>

\* The file cannot be read, no request made, or none of its tries answered: the
\* user goes on as after a good one.
ReadLost(u) ==
  /\ Running /\ pc[u] = "read"
  /\ via \in {"file", "nourl"} \/ (via = "uds" /\ tries[u] = retryCnt)
  /\ lost' = lost + 1
  /\ Goto(u, "send")
  /\ UNCHANGED <<contentN, via, process, j, detail, tries, totalReaded, reads, good>>

\* readhttp closes the body of an answer it has not got.
HttpReadPanics(u) ==
  /\ Running /\ pc[u] = "read" /\ via = "http"
  /\ process' = "panicked"
  /\ UNCHANGED <<contentN, via, pc, j, detail, tries, totalReaded, reads, good, lost>>

\* The channel has no buffer: both sides go on at once.
Send(u) ==
  /\ Running /\ pc[u] = "send"
  /\ totalReaded' = totalReaded + 1
  /\ j' = [j EXCEPT ![u] = @ + 1]
  /\ Goto(u, "next")
  /\ UNCHANGED <<contentN, via, process, detail, tries, reads, good, lost>>

\* main ends with -limit-time, and only then.
TimeUp ==
  /\ Running
  /\ process' = "ended"
  /\ UNCHANGED <<contentN, via, pc, j, detail, tries, totalReaded, reads, good, lost>>

Step(u) ==
  \/ Begin(u) \/ ReadOk(u) \/ Retry(u) \/ ReadLost(u) \/ HttpReadPanics(u) \/ Send(u)

Next == TimeUp \/ \E u \in Users : Step(u)

Spec == Init /\ [][Next]_vars

-----------------------------------------------------------------------------
(* Properties.                                                             *)

Part(u) == {fi(u, d) : d \in 1 .. userContentLimit}

\* However users overtake each other, each of them reads its own part and
\* nothing else, all of it as evenly as can be, and no two parts meet; what is
\* left over by the division is read by nobody.  With more users than contents
\* all of them read 1.mpg and nothing else (l.192-206).
ReadsEven ==
  TypeOK /\ IF userContentLimit = 0
  THEN \A u \in Users, f \in Contents \ {1} : reads[u][f] = 0
  ELSE /\ \A u \in Users : \A f \in Contents \ Part(u) : reads[u][f] = 0
       /\ \A u \in Users : \A f, g \in Part(u) : f < g => reads[u][f] - reads[u][g] \in {0, 1}
       /\ \A u, v \in Users : u # v => Part(u) \cap Part(v) = {}

\* The total from which the throughput is computed counts the reads that got
\* nothing as well (l.33, l.217): it is what users have done, one by one, ahead of
\* the good reads by these, behind all by those in hand.  Over HTTP no request
\* that was made is lost, because the first of them ends the program with all its
\* users (l.143-147).
CountExplained ==
  /\ totalReaded + Cardinality({u \in Users : pc[u] = "send"}) = good + lost
  /\ totalReaded = Cardinality({r \in Users \X (1 .. loop) : r[2] <= j[r[1]]})
  /\ via = "http" => lost = 0
  /\ process = "panicked" => via = "http"

\* Both: what users read, and what is made of it.
UsersExplained == ReadsEven /\ CountExplained
=============================================================================
