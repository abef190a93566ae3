------------------------------ MODULE AgingCp ------------------------------
(***************************************************************************)
(* src/agingcp/agingcp.go fills a directory with hundreds of names for a   *)
(* few source files: links in mode "link"; in mode "copy" hard links, and  *)
(* where the system refuses one, copies.  Before each of them it may read  *)
(* the name through a cache (-import-addr); with -purge-addr it does       *)
(* nothing but remove names from the cache.  An operator runs it again     *)
(* and again over the same directory, after a run that ended and after     *)
(* one that died.                                                          *)
(*                                                                         *)
(* What a name reads as depends on the file behind it, so names and files  *)
(* are kept apart: entry says what a name is, data what a file holds.      *)
(*                                                                         *)
(* Left out: the ranges of the two reads of an import, whose bytes are     *)
(* thrown away; they are one step, since nothing tells them apart.         *)
(*                                                                         *)
(* External: the file system, the cache.                                   *)
(***************************************************************************)
EXTENDS Integers, Sequences, FiniteSets

CONSTANTS
  Order,              \* the names as main takes them: records with src, i, and
                      \* what tells apart those with one src and i
  Rates,              \* values of -import-rate and -purge-rate, in percent
  MaxRuns             \* bound: how often the program is started

Names == {Order[k] : k \in 1 .. Len(Order)}
Sources == {n.src : n \in Names}
OrderAssumption ==
  /\ Order \in Seq(Names) /\ \A n \in Names : n.i \in Nat \ {0}
  /\ \A p, q \in 1 .. Len(Order) : Order[p] = Order[q] => p = q
RatesAssumption == \A r \in Rates : r \in Int /\ r % 5 = 0
RunsAssumption == MaxRuns \in Nat

\* The files there may be: a source, one of a name's own, and the file a
\* relative link to a source finds beside the names.
Source(s) == <<"source", s>>
Own(n) == <<"own", n>>
Beside(s) == <<"beside", s>>
FilesOnDisk == {Source(s) : s \in Sources} \cup {Own(n) : n \in Names}
                 \cup {Beside(s) : s \in Sources}
Jobs == [mode : {"copy", "link", "purge"}, importing : BOOLEAN, rate : Rates,
         relative : BOOLEAN]             \* the flags of a run; relative: -src is
                                         \* relative, -dst another place

VARIABLES
  sameVolume,         \* sources and names are on one file system
  entry,              \* entry[n]: "none", "own" file, "hard", "sym", "astray"
  data,               \* data[f]: "missing", "empty", "part", "whole"
  cached,             \* the names the cache holds something of
  job,
  place,              \* the place in Order of the name that is done now
  pc,
  runs,
  madeIn              \* history: madeIn[n] is the run that made entry[n]

disk == <<entry, data, madeIn>>
vars == <<sameVolume, disk, cached, job, place, pc, runs>>

TypeOK ==
  /\ sameVolume \in BOOLEAN
  /\ entry \in [Names -> {"none", "own", "hard", "sym", "astray"}]
  /\ data \in [FilesOnDisk -> {"missing", "empty", "part", "whole"}]
  /\ cached \subseteq Names
  /\ job \in Jobs
  /\ place \in 0 .. Len(Order)
  /\ pc \in {"ended", "died", "import", "link", "create", "copy", "purge"}
  /\ runs \in 0 .. MaxRuns
  /\ madeIn \in [Names -> 0 .. MaxRuns]

\* A fresh directory; a source may have been forgotten.
Init ==
  /\ sameVolume \in BOOLEAN
  /\ entry = [n \in Names |-> "none"]
  /\ \E there \in SUBSET Sources :
       data = [f \in FilesOnDisk |->
               IF \E s \in there : f = Source(s) THEN "whole" ELSE "missing"]
  /\ cached = {} /\ place = 0 /\ pc = "ended" /\ runs = 0
  /\ job \in {j \in Jobs : ~j.importing /\ ~j.relative /\ j.mode = "copy"}
  /\ madeIn = [n \in Names |-> 0]

-----------------------------------------------------------------------------
Running == pc \notin {"ended", "died"}

\* The file behind a name.
Behind(n) ==
  CASE entry[n] \in {"none", "own"} -> Own(n)
    [] entry[n] \in {"hard", "sym"} -> Source(n.src)
    [] entry[n] = "astray" -> Beside(n.src)

\* Import and purge take the first rate percent of each group, everything else
\* takes all names (a negative rate takes none).
GroupSize(s) == Cardinality({n.i : n \in {m \in Names : m.src = s}})
Takes(j, n) ==
  (j.mode # "purge" /\ ~j.importing) \/ n.i <= (j.rate * GroupSize(n.src)) \div 100

FirstStep(j) == IF j.mode = "purge" THEN "purge"
                ELSE IF j.importing THEN "import" ELSE "link"

\* On to the first name behind place p that run j takes, or to its end.
GoOn(p, j) ==
  \/ \E q \in p + 1 .. Len(Order) :
       /\ Takes(j, Order[q]) /\ \A r \in p + 1 .. q - 1 : ~Takes(j, Order[r])
       /\ place' = q /\ pc' = FirstStep(j)
  \/ /\ \A r \in p + 1 .. Len(Order) : ~Takes(j, Order[r])
     /\ place' = 0 /\ pc' = "ended"

\* The name that is done now.
Now == Order[place]

Start(j) ==
  /\ ~Running /\ runs < MaxRuns
  /\ runs' = runs + 1
  /\ job' = j
  /\ GoOn(0, j)
  /\ UNCHANGED <<sameVolume, disk, cached>>

\* The answers are read whatever their status.
Import ==
  /\ pc = "import"
  /\ cached' \in {cached, cached \cup {Now}}
  /\ pc' = "link"
  /\ UNCHANGED <<sameVolume, disk, job, place, runs>>

\* A name that did not exist is made, and the run goes on behind it.
Make(n, kind) ==
  /\ entry[n] = "none"
  /\ entry' = [entry EXCEPT ![n] = kind]
  /\ madeIn' = [madeIn EXCEPT ![n] = runs]

\* Mutant: a symbolic link replaces what was there.
SymlinkForced ==
  /\ pc = "link" /\ job.mode = "link"
  /\ entry' = [entry EXCEPT ![Now] = IF job.relative THEN "astray" ELSE "sym"]
  /\ GoOn(place, job)
  /\ UNCHANGED <<sameVolume, data, madeIn, cached, job, runs>>

\* A link to a relative path is looked up from the directory of the names.
Symlink ==
  /\ pc = "link" /\ job.mode = "link"
  /\ Make(Now, IF job.relative THEN "astray" ELSE "sym")
  /\ GoOn(place, job)
  /\ UNCHANGED <<sameVolume, data, cached, job, runs>>

\* os.Link wants a new name, a source, and both on one volume.
CanHardLink == entry[Now] = "none" /\ sameVolume /\ data[Source(Now.src)] # "missing"

\* Mutant: the copy is made although the hard link was.
HardLinkAndCopy ==
  /\ pc = "link" /\ job.mode = "copy" /\ CanHardLink
  /\ Make(Now, "hard")
  /\ pc' = "create"
  /\ UNCHANGED <<sameVolume, data, cached, job, place, runs>>

HardLink ==
  /\ pc = "link" /\ job.mode = "copy" /\ CanHardLink
  /\ Make(Now, "hard")
  /\ GoOn(place, job)
  /\ UNCHANGED <<sameVolume, data, cached, job, runs>>

HardLinkFails ==
  /\ pc = "link" /\ job.mode = "copy" /\ ~CanHardLink
  /\ pc' = "create"
  /\ UNCHANGED <<sameVolume, disk, cached, job, place, runs>>

\* os.Open of the source, then os.Create of the name: it follows links, and
\* whatever file is behind the name is empty from here on.
Create ==
  /\ pc = "create" /\ data[Source(Now.src)] # "missing"
  /\ LET n == Now IN
       /\ \/ Make(n, "own")
          \/ entry[n] # "none" /\ UNCHANGED <<entry, madeIn>>
       /\ data' = [data EXCEPT ![Behind(n)] = "empty"]
  /\ pc' = "copy"
  /\ UNCHANGED <<sameVolume, cached, job, place, runs>>

\* io.Copy: some of the bytes, if the source has any left.
CopySome ==
  /\ pc = "copy" /\ data[Source(Now.src)] = "whole"
  /\ data[Behind(Now)] = "empty"
  /\ data' = [data EXCEPT ![Behind(Now)] = "part"]
  /\ UNCHANGED <<sameVolume, entry, madeIn, cached, job, place, pc, runs>>

CopyRest ==
  /\ pc = "copy"
  /\ data' = [data EXCEPT ![Behind(Now)] = data[Source(Now.src)]]
  /\ GoOn(place, job)
  /\ UNCHANGED <<sameVolume, entry, madeIn, cached, job, runs>>

Purge ==
  /\ pc = "purge"
  /\ cached' = cached \ {Now}
  /\ GoOn(place, job)
  /\ UNCHANGED <<sameVolume, disk, job, runs>>

\* Any call that fails is a log.Fatal, a failed request of an import a panic,
\* and the operator may end the program: it stays where it is.
Die ==
  /\ Running
  /\ pc' = "died"
  /\ UNCHANGED <<sameVolume, disk, cached, job, place, runs>>

Next ==
  \/ \E j \in Jobs : Start(j)
  \/ Import \/ Symlink \/ HardLink \/ HardLinkFails \/ Create \/ CopySome \/ CopyRest
  \/ Purge \/ Die

Spec == Init /\ [][Next]_vars

-----------------------------------------------------------------------------
(* Properties.                                                             *)

Done == {n \in Names : Takes(job, n)}
Reads(n) == data[Behind(n)]

\* What a run that ended leaves behind (l.94-125, l.157-248).  Every name it
\* took reads as the whole source, whatever runs died half-way before it, unless
\* the source itself is not whole or the links are relative; a run in mode link
\* made all its links itself, so one that died is never carried on; and a purge
\* leaves none of its share in the cache.
EndedRunsHonest ==
  TypeOK /\ (pc = "ended" /\ runs > 0 =>
    \A n \in Done :
      /\ job.mode # "purge" => \/ Reads(n) = "whole"
                               \/ data[Source(n.src)] # "whole"
                               \/ job.mode = "link" /\ job.relative
      /\ job.mode = "link" => madeIn[n] = runs
      /\ job.mode = "purge" => n \notin cached)

\* A source, and with it everything linked to it, is harmed only by a copy over
\* a link that an EARLIER run made (l.24, l.113-117): one run on a fresh
\* directory never does it.
SourceHarmedByRerun ==
  [][\A s \in Sources :
       data[Source(s)] = "whole" /\ data'[Source(s)] # "whole" =>
         \E n \in Names : /\ n.src = s /\ n = Now /\ job.mode = "copy"
                          /\ entry[n] \in {"hard", "sym"} /\ madeIn[n] < runs]_vars
=============================================================================
