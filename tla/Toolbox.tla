------------------------------- MODULE Toolbox -------------------------------
(***************************************************************************)
(* The programs of the repository that share nothing with each other: one  *)
(* of them is started, and all others stay as they begin.  Each is a       *)
(* module of its own, and its properties are stated and explained there;   *)
(* here they are named for the one specification that has them all.        *)
(*                                                                         *)
(* httpfsrv keeps its names.  Constants and variables of several of the    *)
(* other programs with one name get a name for each here.                  *)
(***************************************************************************)
EXTENDS HttpFsrv

CONSTANTS
  Programs,                                           \* those that may be started
  Order, Rates, MaxRuns,                              \* agingcp
  Handlers, MissRates, Width, HitNames, MissNames, MaxRequests,    \* dummy-adds
  Conns, AmocFiles, WithDB,                           \* dummy-amoc
  userN, ContentNs, loop, retryCnt,                   \* filereader
  Lookups,                                            \* fusefs
  ChunkCounts, MaxLines,                              \* hlsclient
  workerN, MaxStarts,                                 \* multi-proc-server
  Datagrams, SeqSpace, Senders, ChanCap, MaxReceived, \* multicast-sender
  Ts, Wide, Header, Small, MaxStream, MaxOffset, MaxRounds,        \* stream-dump
  BufSize, MaxInput, Offsets, Lengths                 \* subfile

ASSUME ProgramsAssumption ==
  Programs \subseteq {"agingcp", "dummy-adds", "dummy-amoc", "filereader", "fusefs",
    "hlsclient", "httpfsrv", "multi-proc-server", "multicast-sender", "stream-dump", "subfile"}

VARIABLE program      \* the one that runs

VARIABLES sameVolume, entry, data, cached, job, place, cpPc, runs, madeIn
VARIABLES missRate, advIdx, idx, addsPc, served, panics, taken
VARIABLES amocAlive, amocRows, amocPc, amocReq, amocBefore, applied
VARIABLES contentN, via, process, userPc, j, detail, tries, totalReaded, reads, good, userLost
VARIABLES inode, lookupPc, loaded, number, over, lookupBefore
VARIABLES maxChunk, m3u8only, playlist, hlsPc, at, nextContent, cntCount, cut, fetched, broke
VARIABLES starts, main, i, worker
VARIABLES alive, memory, buf, turn, last, ch, hand, received, mismatched, groupOut
VARIABLES kind, size, isRtp, repeat, tool, dumpRtp, sending, pos, wire, receiver,
          dumpOut, first, rounds, lost
VARIABLES offset, length, same, inSize, inPos, subPc, subOut, writed

agingVars == <<sameVolume, entry, data, cached, job, place, cpPc, runs, madeIn>>
addsVars == <<missRate, advIdx, idx, addsPc, served, panics, taken>>
amocVars == <<amocAlive, amocRows, amocPc, amocReq, amocBefore, applied>>
readerVars == <<contentN, via, process, userPc, j, detail, tries, totalReaded, reads, good, userLost>>
fuseVars == <<inode, lookupPc, loaded, number, over, lookupBefore>>
hlsVars == <<maxChunk, m3u8only, playlist, hlsPc, at, nextContent, cntCount, cut, fetched, broke>>
multiVars == <<starts, main, i, worker>>
groupsVars == <<alive, memory, buf, turn, last, ch, hand, received, mismatched, groupOut>>
dumpVars == <<kind, size, isRtp, repeat, tool, dumpRtp, sending, pos, wire, receiver,
          dumpOut, first, rounds, lost>>
subVars == <<offset, length, same, inSize, inPos, subPc, subOut, writed>>
toolVars == <<program, vars, agingVars, addsVars, amocVars, readerVars, fuseVars, hlsVars,
              multiVars, groupsVars, dumpVars, subVars>>

Aging == INSTANCE AgingCp WITH pc <- cpPc
Adds == INSTANCE DummyAdds WITH pc <- addsPc
Amoc == INSTANCE DummyAmoc WITH
  Files <- AmocFiles, alive <- amocAlive, rows <- amocRows, pc <- amocPc, req <- amocReq,
  before <- amocBefore
Reader == INSTANCE FileReader WITH pc <- userPc, lost <- userLost
Fuse == INSTANCE Inodes WITH pc <- lookupPc, before <- lookupBefore
Hls == INSTANCE HlsClient WITH pc <- hlsPc
Multi == INSTANCE MultiProc
Groups == INSTANCE MulticastSender WITH out <- groupOut
Dump == INSTANCE StreamDump WITH MaxSize <- MaxStream, out <- dumpOut
Sub == INSTANCE Subfile WITH
  MaxSize <- MaxInput, size <- inSize, pos <- inPos, pc <- subPc, out <- subOut

\* What the modules assume of their constants.
ASSUME ToolsAssumption ==
  /\ Aging!OrderAssumption /\ Aging!RatesAssumption /\ Aging!RunsAssumption
  /\ Adds!RatesAssumption /\ Adds!SizesAssumption
  /\ Amoc!WithDBAssumption /\ Amoc!FilesAssumption
  /\ Reader!FlagsAssumption /\ Reader!RetryAssumption
  /\ Fuse!LookupsAssumption /\ Hls!CountsAssumption /\ Multi!WorkersAssumption
  /\ Groups!DatagramsAssumption /\ Groups!SendersAssumption
  /\ Dump!SizesAssumption /\ Sub!SizesAssumption /\ Sub!FlagsAssumption

AnyOf(S) == CHOOSE x \in S : TRUE

\* A program that is not started has one of its first states.
Resting(p, state) == IF program = p THEN TRUE ELSE state

ToolInit ==
  /\ program \in Programs
  /\ Resting("httpfsrv",
       conf = AnyOf(Confs) /\ req = AnyOf(HttpRequests) /\ file = AnyOf(FileStates))
  /\ Init
  /\ Resting("agingcp",
       /\ sameVolume = TRUE /\ data = [f \in Aging!FilesOnDisk |-> "missing"]
       /\ job = [mode |-> "copy", importing |-> FALSE, rate |-> AnyOf(Rates),
                 relative |-> FALSE])
  /\ Aging!Init
  /\ Resting("dummy-adds", missRate = AnyOf(MissRates)) /\ Adds!Init
  /\ Resting("dummy-amoc", amocRows = [f \in AmocFiles |-> "absent"]) /\ Amoc!Init
  /\ Resting("filereader", contentN = AnyOf(ContentNs) /\ via = "file") /\ Reader!Init
  /\ Fuse!Init
  /\ Resting("hlsclient", maxChunk = AnyOf(ChunkCounts) /\ m3u8only = TRUE /\ playlist = <<>>)
  /\ Hls!Init
  /\ Multi!Init
  /\ Groups!Init
  /\ Resting("stream-dump",
       /\ kind = "ts" /\ size = MaxStream /\ isRtp = FALSE /\ repeat = FALSE
       /\ tool = "server" /\ dumpRtp = FALSE /\ first = 0)
  /\ Dump!Init
  /\ Resting("subfile",
       offset = AnyOf(Offsets) /\ length = AnyOf(Lengths) /\ same = FALSE /\ inSize = 0)
  /\ Sub!Init

ToolNext ==
  /\ UNCHANGED program
  /\ IF program = "httpfsrv" THEN Next ELSE UNCHANGED vars
  /\ IF program = "agingcp" THEN Aging!Next ELSE UNCHANGED agingVars
  /\ IF program = "dummy-adds" THEN Adds!Next ELSE UNCHANGED addsVars
  /\ IF program = "dummy-amoc" THEN Amoc!Next ELSE UNCHANGED amocVars
  /\ IF program = "filereader" THEN Reader!Next ELSE UNCHANGED readerVars
  /\ IF program = "fusefs" THEN Fuse!Next ELSE UNCHANGED fuseVars
  /\ IF program = "hlsclient" THEN Hls!Next ELSE UNCHANGED hlsVars
  /\ IF program = "multi-proc-server" THEN Multi!Next ELSE UNCHANGED multiVars
  /\ IF program = "multicast-sender" THEN Groups!Next ELSE UNCHANGED groupsVars
  /\ IF program = "stream-dump" THEN Dump!Next ELSE UNCHANGED dumpVars
  /\ IF program = "subfile" THEN Sub!Next ELSE UNCHANGED subVars

ToolSpec == ToolInit /\ [][ToolNext]_toolVars

ToolFairSpec == ToolSpec /\ Amoc!Fairness /\ Groups!Fairness

-----------------------------------------------------------------------------
(* The properties of the programs, see their modules.                      *)

\* agingcp: what a run that ended leaves, whatever runs died before it.
EndedRunsHonest == Aging!EndedRunsHonest
\* agingcp: only a copy over an earlier run's links harms a source.
SourceHarmedByRerun == Aging!SourceHarmedByRerun
\* dummy-adds: names rotate and misses are counted, however handlers interleave.
RequestsCounted == Adds!RequestsCounted
\* dummy-adds: the rate is a percentage, as its flag says.
RateIsPercent == Adds!RateIsPercent
\* dummy-amoc: the table has the wish of a request that no other one followed.
LastOneCounts == Amoc!LastOneCounts
\* dummy-amoc: an answered request is carried out, unless the server dies.
AnswerKept == Amoc!AnswerKept
\* filereader: each user reads its part, and the total counts what it did.
UsersExplained == Reader!UsersExplained
\* fusefs: two lookups have one number only if the earlier ran beside another.
NumbersExplained == Fuse!NumbersExplained
\* hlsclient: the chunks of the playlist, in order, and not one too many.
FirstChunksFetched == Hls!FirstChunksFetched
\* multi-proc-server: no two starts have the port, and who is left behind.
PortKept == Multi!PortKept
\* multicast-sender: every group gets the stream as it was read.
SameStream == Groups!SameStream
\* multicast-sender: no group runs away from another one.
LagBounded == Groups!LagBounded
\* multicast-sender: whatever was read gets to every group, or the process dies.
AllForwarded == Groups!AllForwarded
\* udp-sender to multicast-dump and udp-server: what a dump may be.
DumpExplained == Dump!DumpExplained
\* subfile: what is written is the range, or the beginning of it.
RangeCopied == Sub!RangeCopied
\* subfile: size 0 is the rest of the file, as its flag says.
SizeZeroIsRest == Sub!SizeZeroIsRest
=============================================================================
