----------------------------- MODULE RemoteCopy -----------------------------
(***************************************************************************)
(* How kt-simul puts its tools and source files on the test machines       *)
(* before the simulation starts: main and copyFiles of                     *)
(* src/kt-simul/kt-simul.go, CopyIfNotExists and Copy of                   *)
(* src/kt-simul/remote/remote.go.                                          *)
(*                                                                         *)
(* Files are copied one after the other.  A file that is at its target in  *)
(* any form is not copied, and any error ends the process (log.Fatalf),    *)
(* so does the user; the next start begins with the first file again.      *)
(*                                                                         *)
(* Copy feeds scp from a goroutine whose first act, session.StdinPipe, must *)
(* come before session.Run starts the command.  Nothing orders the two:    *)
(* when Run is first, scp reads an empty input and ends well with nothing  *)
(* written, and the goroutine either panics on the nil pipe or, the race   *)
(* undetected, writes into a closed channel.                               *)
(*                                                                         *)
(* External: ssh sessions, scp -t and test -e, known from the calls and    *)
(* commands in the code.  scp creates the target, then fills it.           *)
(***************************************************************************)
EXTENDS Naturals, Sequences

CONSTANTS
  Sources,            \* local files
  Targets,            \* <<machine, path>> pairs
  Jobs,               \* Jobs[j]: the j-th CopyIfNotExists of copyFiles
  MaxStarts           \* bound: how often kt-simul is started

ASSUME JobsAssumption == Jobs \in Seq([src : Sources, target : Targets])
ASSUME StartsAssumption == MaxStarts \in Nat \ {0}

Absent == [kind |-> "absent"]
Copies == {Absent} \cup [kind : {"partial", "whole"}, src : Sources]

VARIABLES
  pc,                 \* where main is: see Places
  job,                \* the job main is at
  feeder,             \* the goroutine of this job: see Feeders
  late,               \* goroutines that did not have the pipe when scp started
  remote,             \* remote[t]: what is at the target
  starts,             \* how often kt-simul was started
  \* history
  cut,                \* targets whose transfer was cut short, ever
  unfed               \* targets whose scp had no input, ever

copyVars == <<pc, job, feeder, late, remote, starts, cut, unfed>>
copyHistory == <<cut, unfed>>

Places == {"test", "copy", "session", "scp", "run", "stopped"}

\* "ready": it has not asked for the pipe; then what scp has received from it.
Feeders == {"none", "ready", "piped", "header", "content"}

Src(j) == Jobs[j].src
Target(j) == Jobs[j].target

CopyTypeOK ==
  /\ pc \in Places
  /\ job \in 1 .. Len(Jobs) + 1
  /\ feeder \in Feeders
  /\ late \subseteq 1 .. Len(Jobs)
  /\ remote \in [Targets -> Copies]
  /\ starts \in 1 .. MaxStarts
  /\ cut \subseteq Targets
  /\ unfed \subseteq Targets

CopyInit ==
  /\ pc = "test"
  /\ job = 1
  /\ feeder = "none"
  /\ late = {}
  /\ remote = [t \in Targets |-> Absent]
  /\ starts = 1
  /\ cut = {}
  /\ unfed = {}

-----------------------------------------------------------------------------
\* The files are all copied: main starts the loops of the simulation.
StartLoops ==
  /\ pc = "test" /\ job > Len(Jobs)
  /\ pc' = "run"
  /\ UNCHANGED <<job, feeder, late, remote, starts, copyHistory>>

\* mkdir -p, then [ ! -e target ] prints nothing: whole or not, it stays.
TestFinds ==
  /\ pc = "test" /\ job <= Len(Jobs) /\ remote[Target(job)] # Absent
  /\ job' = job + 1
  /\ UNCHANGED <<pc, feeder, late, remote, starts, copyHistory>>

TestMisses ==
  /\ pc = "test" /\ job <= Len(Jobs) /\ remote[Target(job)] = Absent
  /\ pc' = "copy"
  /\ UNCHANGED <<job, feeder, late, remote, starts, copyHistory>>

\* Copy: the file is read, the session opened, the goroutine started.
OpenSession ==
  /\ pc = "copy"
  /\ pc' = "session"
  /\ feeder' = "ready"
  /\ UNCHANGED <<job, late, remote, starts, copyHistory>>

\* The goroutine gets the pipe in time.
TakePipe ==
  /\ pc = "session" /\ feeder = "ready"
  /\ feeder' = "piped"
  /\ UNCHANGED <<pc, job, late, remote, starts, copyHistory>>

\* session.Run starts scp, whose input is the pipe or, without one, empty.
StartScp ==
  /\ pc = "session"
  /\ pc' = "scp"
  /\ IF feeder = "piped"
       THEN UNCHANGED <<late, unfed>>
       ELSE late' = late \cup {job} /\ unfed' = unfed \cup {Target(job)}
  /\ UNCHANGED <<job, feeder, remote, starts, cut>>

Writes(kind) ==
  remote' = [remote EXCEPT ![Target(job)] = [kind |-> kind, src |-> Src(job)]]

\* The C0755 line has arrived.
ScpCreates ==
  /\ pc = "scp" /\ feeder = "piped"
  /\ feeder' = "header" /\ Writes("partial")
  /\ UNCHANGED <<pc, job, late, starts, copyHistory>>

\* All of the content has arrived.
ScpFills ==
  /\ pc = "scp" /\ feeder = "header"
  /\ feeder' = "content" /\ Writes("whole")
  /\ UNCHANGED <<pc, job, late, starts, copyHistory>>

NextJob == pc' = "test" /\ job' = job + 1 /\ feeder' = "none"

\* Mutant: the process does not wait for scp.
ScpEndsEarly ==
  /\ pc = "scp"
  /\ NextJob
  /\ UNCHANGED <<late, remote, starts, copyHistory>>

\* scp ends well: all was written, or there was nothing to read.
ScpEnds ==
  /\ pc = "scp" /\ feeder \in {"ready", "content"}
  /\ NextJob
  /\ UNCHANGED <<late, remote, starts, copyHistory>>

\* The process ends.  An scp at work has written what it had received by then.
Die ==
  /\ pc' = "stopped"
  /\ feeder' = "none"
  /\ late' = {}
  /\ IF pc = "scp" /\ feeder \in {"piped", "header"}
       THEN /\ cut' = cut \cup {Target(job)}
            /\ \/ feeder = "piped" /\ UNCHANGED remote
               \/ Writes("partial")
               \/ Writes("whole")
       ELSE UNCHANGED <<cut, remote>>
  /\ UNCHANGED <<job, starts, unfed>>

Copying == job <= Len(Jobs) /\ pc \in {"test", "copy", "session", "scp"}

\* Mutant: the error is logged, and the next file copied.
CopyFailsGoesOn ==
  /\ Copying
  /\ NextJob
  /\ UNCHANGED <<late, remote, starts, copyHistory>>

\* mkdir, test, ReadFile, Dial, NewSession or scp fails: log.Fatalf.
CopyFails == Copying /\ Die

\* The user, or anything else that ends kt-simul.
Interrupt == pc # "stopped" /\ Die

\* A late goroutine sees that Run has started: the nil pipe panics.
LatePanic == late # {} /\ Die

\* A late goroutine does not see it: its writes fail unnoticed.
LateWrites ==
  /\ \E j \in late : late' = late \ {j}
  /\ UNCHANGED <<pc, job, feeder, remote, starts, copyHistory>>

Restart ==
  /\ pc = "stopped" /\ starts < MaxStarts
  /\ pc' = "test"
  /\ job' = 1
  /\ starts' = starts + 1
  /\ UNCHANGED <<feeder, late, remote, copyHistory>>

Progress ==
  \/ StartLoops \/ TestFinds \/ TestMisses \/ OpenSession \/ StartScp
  \/ ScpCreates \/ ScpFills \/ ScpEnds

CopyNext == Progress \/ CopyFails \/ TakePipe \/ Interrupt \/ LatePanic \/ LateWrites \/ Restart

CopySpec == CopyInit /\ [][CopyNext]_copyVars

-----------------------------------------------------------------------------
(* Properties.                                                             *)

\* The simulation (main l.65-74) starts with every file at its target except
\* one scp was given no input for, and with whole files except those a
\* transfer of an EARLIER run was cut short at: main never starts in the run in
\* which a transfer broke, and the next run never repairs it.
FilesAtRun ==
  pc = "run" => \A j \in 1 .. Len(Jobs) :
    /\ remote[Target(j)] = Absent => Target(j) \in unfed
    /\ remote[Target(j)].kind = "partial" => Target(j) \in cut /\ starts > 1

\* Where several files have one target (two source files of one base name), the
\* first in the list is the one that gets there, over all restarts, unless an
\* scp for this target was given no input.
FirstJobWins ==
  \A j \in 1 .. Len(Jobs) :
    LET t == Target(j) IN
    remote[t] # Absent /\ t \notin unfed /\ (\A i \in 1 .. j - 1 : Target(i) # t)
    => remote[t].src = Src(j)

\* A file no scp is at work on is never changed again, whole or torn: what the
\* VOD clients and the delivery clients run from does not change under them.
BeingFilled(t) == pc = "scp" /\ feeder = "header" /\ Target(job) = t
FilesStay ==
  [][\A t \in Targets :
       remote[t] # Absent /\ ~BeingFilled(t) => remote'[t] = remote[t]]_copyVars
=============================================================================
