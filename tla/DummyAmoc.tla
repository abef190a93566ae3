----------------------------- MODULE DummyAmoc -----------------------------
(***************************************************************************)
(* src/dummy-amoc/dummy-amoc.go stands in for the asset manager of a CDN:  *)
(* it answers every request with "Completed", and, started with -db-addr,  *)
(* sets is_hot of the content of an UpdateCopyContent afterwards.  Every   *)
(* connection has a goroutine of its own, and one log.Fatal in any of them *)
(* ends all.                                                               *)
(*                                                                         *)
(* A request is read with one Read of at most 4096 bytes.  Of a request    *)
(* that comes in more than one piece only the first counts: what is        *)
(* missing is empty.                                                       *)
(*                                                                         *)
(* Left out: what the answer says beside its result; the date.             *)
(*                                                                         *)
(* External: the clients, the network, the table (ServiceContent).         *)
(***************************************************************************)
EXTENDS Naturals, FiniteSets

CONSTANTS
  Conns,              \* the connections clients make
  Files,              \* the contents they may speak of
  WithDB              \* -db-addr was given

WithDBAssumption == WithDB \in BOOLEAN
FilesAssumption == Files # {}

VARIABLES
  alive,              \* no log.Fatal and no panic yet
  rows,               \* the table: "absent", "hot" or "cold"
  pc,                 \* pc[c]: "new", "read", "answer", "update", "done"
  req,                \* req[c]: what was asked, as sent and then as read
  \* history
  before,             \* before[c]: the requests that were done when c began
  applied             \* those whose UPDATE was executed

vars == <<alive, rows, pc, req, before, applied>>

\* Type is "copy" (UpdateCopyContent) or not, To is "Local" or not; cut: the
\* request that was read is not the one that was sent.
Requests == [copy : BOOLEAN, local : BOOLEAN, file : Files, cut : BOOLEAN]
NoRequest == [copy |-> FALSE, local |-> FALSE, file |-> CHOOSE f \in Files : TRUE, cut |-> FALSE]

TypeOK ==
  /\ alive \in BOOLEAN
  /\ rows \in [Files -> {"absent", "hot", "cold"}]
  /\ pc \in [Conns -> {"new", "read", "answer", "update", "done"}]
  /\ req \in [Conns -> Requests]
  /\ before \in [Conns -> SUBSET Conns] /\ applied \subseteq Conns

Init ==
  /\ alive = TRUE
  /\ rows \in [Files -> {"absent", "hot", "cold"}]
  /\ pc = [c \in Conns |-> "new"]
  /\ req = [c \in Conns |-> NoRequest]
  /\ before = [c \in Conns |-> {}] /\ applied = {}

-----------------------------------------------------------------------------
Goto(c, label) == pc' = [pc EXCEPT ![c] = label]

\* A client connects and sends; the loop of main starts a goroutine.
Accept(c) ==
  /\ alive /\ pc[c] = "new"
  /\ \E r \in Requests : ~r.cut /\ req' = [req EXCEPT ![c] = r]
  /\ before' = [before EXCEPT ![c] = {d \in Conns : pc[d] = "done"}]
  /\ Goto(c, "read")
  /\ UNCHANGED <<alive, rows, applied>>

\* The whole request, or its first piece: the type comes before the content,
\* the content before the target.
Read(c) ==
  /\ alive /\ pc[c] = "read"
  /\ \/ UNCHANGED req
     \/ req' = [req EXCEPT ![c].copy = FALSE, ![c].cut = TRUE]
     \/ req' = [req EXCEPT ![c].local = FALSE, ![c].cut = TRUE]
  /\ Goto(c, "answer")
  /\ UNCHANGED <<alive, rows, before, applied>>

\* Whether the answer arrives does not matter to the server.
Answer(c) ==
  /\ alive /\ pc[c] = "answer"
  /\ Goto(c, IF WithDB THEN "update" ELSE "done")
  /\ UNCHANGED <<alive, rows, req, before, applied>>

Kind(isHot) == IF isHot THEN "hot" ELSE "cold"

\* Mutant: the goroutine is done, and the UPDATE is left to another one.
UpdateLater(c) ==
  /\ alive
  /\ \/ pc[c] = "update" /\ Goto(c, "done") /\ UNCHANGED <<rows, applied>>
     \/ /\ pc[c] = "done" /\ c \notin applied
        /\ applied' = applied \cup {c}
        /\ rows' = [rows EXCEPT ![req[c].file] = Kind(req[c].local)]
        /\ UNCHANGED pc
  /\ UNCHANGED <<alive, req, before>>

\* updateDB.  An UPDATE of a row that is not there is none.
Update(c) ==
  /\ alive /\ pc[c] = "update"
  /\ LET r == req[c] IN
       IF r.copy
       THEN /\ rows' = [rows EXCEPT ![r.file] = IF @ = "absent" THEN @ ELSE Kind(r.local)]
            /\ applied' = applied \cup {c}
       ELSE UNCHANGED <<rows, applied>>
  /\ Goto(c, "done")
  /\ UNCHANGED <<alive, req, before>>

\* Mutant: a failed UPDATE is logged like anything else.
FatalOrLogged(c) ==
  /\ alive
  /\ \/ pc[c] = "read" /\ alive' = FALSE /\ UNCHANGED pc
     \/ pc[c] = "update" /\ req[c].copy /\ Goto(c, "done") /\ UNCHANGED alive
  /\ UNCHANGED <<rows, req, before, applied>>

\* log.Fatal: nothing to read (the client closed the connection, or it broke),
\* or the UPDATE failed; a panic of parseRequest on a request that fills the
\* buffer and ends in the middle of a word.
Fatal(c) ==
  /\ alive /\ (pc[c] = "read" \/ (pc[c] = "update" /\ req[c].copy))
  /\ alive' = FALSE
  /\ UNCHANGED <<rows, pc, req, before, applied>>

Handle(c) == Read(c) \/ Answer(c) \/ Update(c) \/ Fatal(c)

Next == \E c \in Conns : Accept(c) \/ Handle(c)

Spec == Init /\ [][Next]_vars

\* Goroutines run, and calls of the network and the database end.
Fairness == \A c \in Conns : WF_vars(Handle(c))

FairSpec == Spec /\ Fairness

-----------------------------------------------------------------------------
(* Properties.                                                             *)

\* Requests about one content may overlap, and they overlap beyond their
\* answers (l.119-126).  What is in the table is the wish of a request that no
\* other one followed: none that began when it was done, updated the row, too.
LastOneCounts ==
  TypeOK /\ \A f \in Files :
    LET writers == {c \in applied : req[c].file = f}
    IN writers # {} /\ rows[f] # "absent" =>
         \E c \in writers : /\ rows[f] = Kind(req[c].local)
                            /\ \A d \in writers : c \notin before[d]

\* Whoever asks to copy a content and was answered will find the row set, unless
\* the request was cut or the server has died, of this request or of another one
\* (l.113, l.125).
AnswerKept ==
  \A c \in Conns :
    (WithDB /\ pc[c] = "update" /\ req[c].copy)
      ~> (c \in applied \/ ~alive)
=============================================================================
