# A verification development for cdn-testtool

`src/` is a box of tools for testing a CDN. The largest, **kt-simul**, simulates
the work of a whole installation: it delivers contents, plays them from many
clients, and deletes them again, over SSH and a MySQL table. Around it are
servers and file systems that stand in for origins and caches (**httpfsrv**,
**fusefs**, **gofusefs**, **fuse-cpp**, **dummy-adds**, **dummy-amoc**), tools for
UDP streams (**udp-sender**, **udprelay**, **multicast-sender**, ...) and clients
that read or copy (**filereader**, **agingcp**, **vodclient**, **hlsclient**, ...).

This directory holds TLA+ modules that model the parts with state worth
reasoning about, TLC configurations that check them on small instances, and
TLAPS proofs of the central results for every instance. `PROJECT.json` lists
components, runs, mutants (a plausible bug for every checked property, which
TLC finds), the source lines behind every definition, the hazards of the code
and the theorems.

    tlc -workers 2 -config MCStartup.cfg MCStartup           # a run
    tlapm ClientPoolProofs.tla                               # the proofs

## 1. Inventory

| component (source) | state | operations | what is hard | correct when |
|---|---|---|---|---|
| SSH pool (`kt-simul/remote/remote.go`) | `gClientMap`, `gClientSession`, lock | `Init`, `allocClient`, `releaseClient` (`Run2`, `Delete2`) | many goroutines; dials that fail; connections that break and stay | loads are true and even; no connection is missing |
| copying files (`remote.go`, `kt-simul.go`) | files on remote machines | `copyFiles`, `CopyIfNotExists`, `Copy` | restarts, torn transfers, `StdinPipe` racing `Run` | the simulation starts with its files, or it is known why not |
| choice of contents (`ktsimul/setup.go`) | two lists, two indices, a lock | `isHotForSetup`, `fileForSetup`, `updateFilesForSetup`, `serviceFiles` | two queries are not one state of the table; early returns; empty results | no panic but on an empty result; stale contents are bounded |
| VOD sessions (`ktsimul/setup.go`) | a log on a client machine, a verdict | `RunSetupOne`, `setupOne`, `setupToGlb` | failover; shared log names; clients that outlive their SSH session; a dead connection | the verdict means what it says |
| contents (`ktsimul/deliver.go`, `hbdeliver.go`, `delete.go`) | table `service_content`, contents on nodes | `RunDeliverOne`, `RunHBDeliverOne`, `RunDeleteOne` | three loops, two stores, no transaction, a delayed insertion, crashes | table and nodes agree, or it is known why not |
| deletion by two (`delete.go`, `-del-files`) | the logs deletions are judged by | `DeleteOne` | two processes, log names that repeat | a row goes only when the content went |
| dummy-amoc | column `is_hot`, connections | `handleRequest`, `updateDB` | the answer comes before the update; one failure ends all | the last request wins; answers are made good |
| httpfsrv | flags; a file others rewrite | `handleGet`, `handleHead`, `readfile`, `writeChunkedEncoding` | size taken early; aligned reads; chunk arithmetic; two handlers that must agree | the bytes asked for, honest lengths, no panic |
| fusefs, gofusefs, fuse-cpp | one file position per handle; the inode counter of fusefs | read, lookup | two calls on a shared position, an unlocked increment | a read depends on its offset only; numbers differ |
| udp-sender, udprelay, multicast-sender | loop counter; last number; buffers in channels | send, relay, receive, hand over, write | 16 bits that wrap; loss and reordering; bounded channels | every group gets the stream; gaps are reported |
| multicast-dump, udp-server, rtp-to-ts | a file | receive, write | lengths and headers nobody announces | the dump is the stream |
| filereader | contents per user, retries, result channel | `run`, `readhttp`, `readfile` | one failure ends all users | every user reads its own contents |
| dummy-adds | three counters | answer | counters that handlers share and that wrap; rates in integers | names rotate, misses are counted |
| subfile | positions | copy a range | short reads, boundaries | the range asked for |
| agingcp | a directory that grows over runs | copy, link, import, purge | runs that die half-way, links followed by `os.Create` | a run that ended left what it says |
| multi-proc-server | processes, one socket | start, wait, serve | workers that outlive their main process | one start has the port |
| hlsclient | two variables carried from line to line | fetch a playlist, fetch its chunks | tags, relative URIs, the bound | the first chunks of the playlist |
| multicast-receiver, aws-s3-client, vodclient, cachepuller, chash-tester, sample-generator | none | requests, files | little | – |

How they interact. Inside kt-simul, `main` runs `remote.Init`, then `copyFiles`,
then the loops: one per local node that starts a VOD session every tick, one for
deliveries, one for holdback deliveries, one for deletions. All of them share the
table `service_content`. The sessions share the two lists of contents and the SSH
pool (`Run2`, `Delete2`); deliveries and deletions dial a connection of their own
for each command. `kt-simul -del-files` may delete beside them.
dummy-amoc is asked by the CDN whether a content has become hot and writes the
answer to the same table. udp-sender feeds udprelay, udprelay feeds
multicast-sender, and multicast-dump or udp-server write down what arrives. The
HTTP server and the file systems are used by cache servers under test.
Everything else is a program by itself.

The hazards, each with its line and the properties that watch it, are in
`PROJECT.json`.

## 2. Modules

Each header says what is left out. `MC` modules only give constants.

**ServiceContent** is the abstract table: rows are hot, cold or absent, appear by
`Insert` (never over an existing row), change kind by `SetHot`, and go by `Remove`
only after having been seen cold. `Contents` implements it (`TableImplemented`),
and `SetupFiles` reads a table that behaves like it.

**ClientPool** – `remote.go` l.16-95. `DialOk`, `DialFail`, `DialFailAgain`,
`InitDone` are the two nested loops of `Init`; `Alloc` is `allocClient` and
`Release` is `releaseClient`, one action each because `gClientLock` is held
throughout. `ScanLoop` is the loop that looks for the least loaded connection,
as a recursive function. Goroutines hold `cl[g]` between the two.

**SetupFiles** – `setup.go` l.142-225. One goroutine per session: `Start` draws
hot or cold from the pattern, `Lock` takes the lock and looks at the indices,
`HotQuery` and `ColdQuery` are the two queries with the table changing in
between, `QueryFails` the error returns that give the lock back,
`Pick`/`PickPanics` the choice. `stale` counts how often a content came out of a
list after its row had gone.

**SetupSession** – `setup.go` l.39-140. One action per outcome of every command
(mkdir, play, grep, cat, rm). A path stands for machine, second and content:
sessions of one second may have one. The shell's redirection truncates
(`PlayStarts`), the external VOD client writes as long as it has the file open
(`ClientPlays`), even after its session broke. `played` and `broken` are history.

**PooledSetup** composes the two: it extends SetupSession and has an instance of
ClientPool whose callers are the sessions. Every command of a session borrows a
connection (`Borrow`), runs on it and gives it back (`EndCommand`); a connection
that died fails every command (`ConnectionDies`, `Works`). Its actions are built
of those of the two, so that what is proved of the parts holds of the whole
(lemma `PooledImplementsParts`).

**Contents** – `deliver.go`, `hbdeliver.go`, `delete.go`, `dummy-amoc.go`
l.109-156. Three loops with a program counter each, the pending insertions of
holdback deliveries (`hbPending`), rows and contents on nodes. `Crash` ends
kt-simul while external clients go on (`ZombieStep`). A content is named after
the second its delivery began in, so names are seconds.

**DeleteOne** – `delete.go` again, more closely, for two that delete at a time:
the loop, and `-del-files`, which asks no table. What Contents takes as one step
(client, log, verdict) is here a client that deletes node by node and writes to a
log both may have, `tail` of that log, `DELETE`, and `rm`.

**RemoteCopy** – `copyFiles`, `CopyIfNotExists`, `Copy`. main is a program
counter and the job in hand; `feeder` is the goroutine that writes into scp,
`late` the goroutines that came too late for the pipe. `TakePipe` and `StartScp`
are unordered, as in the code. `Restart` begins with the first file again.

**Startup** is kt-simul from its start to its sessions: it extends ClientPool and
RemoteCopy and puts them in main's order, dialling (`Dial`), copying (`Copy`), and
then goroutines that borrow connections (`Borrow`). Whatever ends the process ends
the pool with it (`NoPool`), in the middle of commands too; the next start dials
anew and meets the files that the earlier ones left. The theorems about the two
are about each alone, for any number of anything.

**HttpFsrv** – `handleHead` as an operator, `handleGet` as the steps `Open`,
`ReadOk`/`ReadFailed`/`ReadPanics`/`NotModified`, `WriteBody` or `WriteChunk`,
with `Rewrite` of the file between any two. A byte is its position in the file,
0 a byte that was never read: data that is out of place shows. Calls to the file
system may fail for reasons of their own (`StatFails`, `OpenFails`), and the one
`Read` of `readfile` may fail or give fewer bytes than there are: `Outcomes` are
what `readfile` may return, `faults` what went wrong so far.

**PositionalReads** says what the kernel expects of an open file, **FuseHandle**
what six programs do: fusefs with and without `-directio` and with `-no-read`,
gofusefs, fusefs_directio.cpp, fusefs_bufferedio.cpp. `Seek` and `Read` are the two
calls. Whether requests overlap is chosen at the start.

**Inodes** – the lookups of fusefs. `GenerateInode` (l.71-74) is a load, a store,
and a result that is what was stored or what is there by then: it has no lock.

**MulticastSender** – `multicast-sender/main.go`. The loop reads into a new buffer
(`Receive`) and hands a reference to it to one channel after the other
(`HandOver`); behind each channel a goroutine takes and writes. Channels hold
references and `memory` the buffers, so that reuse of a buffer would show.

**UdpStream** extends it with udp-sender (`SendBlock`, `StartOver`,
`SenderEnds`), udprelay (`Relay`) and a network that loses, repeats and
reorders. A packet carries its 16-bit number, and as history which packet of
which round it is.

**StreamDump** – sizes instead of numbers: udp-sender with and without `-rtp`, for
the three kinds of file it knows, and multicast-dump or udp-server at the other
end, each with the buffer and the header its own flags say. `RtpToTs` is what
rtp-to-ts writes for the same file.

**DummyAmoc** – a goroutine per connection: `Accept`, `Read` (of a first piece,
maybe), `Answer`, `Update`; `Fatal` is any of the ways in which one of them ends all.

**DummyAdds** – `Begin` is the handler up to its choice, `TakeName` the second
atomic increment. The counters wrap at `Width`.

**FileReader** – per user `Begin`, `ReadOk`/`Retry`/`ReadLost`/`HttpReadPanics`,
`Send` on the channel, for the three ways to read, and for HTTP with an address of
which no request can be made (`nourl`), which loses a read without a panic.

**AgingCp** – `Start` is a run of the program, `Import`, `Symlink`,
`HardLink`/`HardLinkFails`, `Create`, `CopySome`, `CopyRest`, `Purge` its steps for
a name, `Die` its end at any of them. `Order` has the names as the loops of main
take them, `place` is where a run is, `Takes` which names its rate lets it take,
and `GoOn` the way to the next of those. Names (`entry`) and files (`data`) are
apart, since a link reads as what is behind it.

**Subfile** – `Open`, `Round`, `EndOfFile`, `Fails`.

**HlsClient** – the loop over the lines: `PassLine`, `FetchChunk`, `NoScheme`,
`RequestFails`, `EndOfPlaylist`. `Scan` is `s.Scan()`, which may stop at any line and
is not asked why, and `cut` says that it stopped early. The properties compare it with what a line of a
playlist means.

**MultiProc** – main processes of several starts (`StartProcess`, `Wait`,
`MainDies`, ...), their workers (`FindSocket`, `WorkerEnds`), and who has the port.

**Toolbox** extends HttpFsrv and has an instance of each of the last ones, of
StreamDump, Inodes and MulticastSender, which share nothing: `program` is the one that is started, all
others stay as they begin, and the properties have the names they have in the
modules. These modules state what they assume of their constants as definitions;
`ToolsAssumption` says so of the instances, TLC evaluates it, and the proofs about
Toolbox use nothing else.

## 3. Runs

| run | instance | asks |
|---|---|---|
| `startup` | 2 addresses, 3 connections, 5 goroutines; 3 files, two of them with one target; 3 starts | are the loads true (`Conservation`) and even (`SpreadBound`), is a connection missing after `Init` (`NoMissing`), which files the simulation may lack or have torn (`FilesAtRun`, `FirstJobWins`) |
| `setup_files` | 2 contents, 2 goroutines, `LIMIT` 2 | the only reason for a panic (`CrashOnlyOnEmptyList`), stale contents (`StaleAtMostOnce`), does every session get past the lock (`EverySetupServed`) |
| `pooled_setup` | 2 sessions, 2 logs, 2 connections, 1 of which may die | what success and failure mean, alone and with a shared log (`SuccessJudged`, `FailureJudged`); what one dead connection does (`FirstDeadStarves`) |
| `contents` | a center and a local node, deliveries in 2 seconds, 1 crash | why a row may lack its content (`RowBacked`) or a content its row (`OrphanExplained`), that nothing is left on the nodes when a row goes (`DeletedEverywhere`), that the table keeps its promises (`TableImplemented`) |
| `delete_one` | 2 contents, 2 seconds, 1 broken SSH session | when a row may go before its content (`RemovedForReal`), and stay after it (`LeftoverExplained`) |
| `http_fsrv_chunks` | httpfsrv, 5 chunks, up to 6 bytes | **violated** (`AllChunksWritten`): see below |
| `fuse_handle` | 2 requests, 3 bytes, 6 programs | why an answer may be wrong (`WrongExplained`), and that reads that do not overlap implement `PositionalReads` (`ReadsArePositional`) |
| `udp_stream` | a file of 2 packets, started over once, 4 packets, numbers modulo 2 | what a reported mismatch means (`MismatchExplained`) and what is not reported (`LossNoticed`) |
| `toolbox` | see `MCToolbox.cfg` | agingcp: what a run leaves (`EndedRunsHonest`) and what harms a source (`SourceHarmedByRerun`); dummy-adds: `RequestsCounted`; dummy-amoc: whose wish is in the table (`LastOneCounts`); filereader: `UsersExplained`; fusefs: `NumbersExplained`; hlsclient: `FirstChunksFetched`; httpfsrv, for files up to 4 bytes, blocks of 2, all ranges, up to 3 chunks, any call failing and any count of a Read: bytes (`BodyRight`), lengths (`LengthHonest`), panics (`PanicExplained`), agreement of HEAD and GET (`HeadForetells`); multi-proc-server: `PortKept`; the dump of a stream: `DumpExplained`; subfile: `RangeCopied` |
| `adds_miss_rate` | dummy-adds with rates 20 and 40, 12 requests | **violated** (`RateIsPercent`): see below |
| `subfile_rest` | subfile, files up to 5 bytes | **violated** (`SizeZeroIsRest`): see below |
| `toolbox_live` | 2 groups, channels of 1, 5 datagrams; 2 connections | multicast-sender: the same stream to every group (`SameStream`), lag (`LagBounded`), no circle of waiting (`AllForwarded`); dummy-amoc: is an answer made good (`AnswerKept`) |

Why the bounds are enough. Each instance has two of everything that competes
(goroutines, sessions, requests, groups, loops of kt-simul, those who delete) and
a third where two are not enough: three connections of the pool, so that a tie,
an interior least one and a turn of the pool all happen, and five goroutines to
load one connection twice; three jobs, so that two share a target and one does
not; three starts of kt-simul, agingcp and multi-proc-server, so that what the
first run left is met in the second and passed in the third; three requests to
dummy-amoc, so that one can come between two; three handlers of dummy-adds; four
lookups, so that two overlap, one stores late, and one comes after all of them.
The pattern of hot and cold sessions is shortened from ten entries to three (`hot,
cold, hot`), which has both kinds and a repetition; the proofs hold for any
pattern. Files of httpfsrv have two blocks of two bytes, so that ranges begin
and end on, before and behind a boundary; streams have three blocks with every
length of the last. Five datagrams are one more than the lag that `LagBounded`
allows a group. Numbers modulo 2 wrap within four packets, and the counters of
dummy-adds within twelve requests, with rings of names that do not divide them
(10000 and 1000 do not divide 2^32 either); nothing in the modules depends on the
moduli of the code. Where names can be exchanged the run uses symmetry
(`startup`, `pooled_setup`, `delete_one`), never with liveness. `CHECK_DEADLOCK FALSE` stands
in every configuration because every system comes to rest: bounds are reached,
sessions and requests end, processes die.

### Disagreements of code and documentation

`http_fsrv_chunks` checks that an answer in chunks is not broken off
(`AllChunksWritten`). The flag `-ce-count`, "chunk count, with chunked-encoding
option" (`httpfsrv.go` l.419), takes any number. The body is cut in slices of
`ceil(len / count)` bytes: six bytes and a count of five give slices of two, which
are used up after three, and the fourth lies behind the body: the handler
panics after the status and three chunks have gone out. With counts of one,
two and three no such body exists: `toolbox` finds none (`PanicExplained`), and
`PanicsAreExplained` proves it for every size, so the default of three is safe.

`adds_miss_rate` checks that `-cache-miss-rate`, "cache miss rate (percent)"
(`dummy-adds.go` l.25), is a percentage (`RateIsPercent`). Every (100 / rate)-th
request is a miss, and l.59 divides integers: 40 gives every second request, six
misses in twelve requests where five are due, and everything above 50 makes every
request a miss. Rates that divide 100 are met to within a request, and no rate from 1 to 100 is
ever missed by a whole request from below (`MissesCounted`, a part of
`RequestsCounted`, which `toolbox` checks and `RequestsAreCounted` proves).

`subfile_rest` checks that `-size 0`, "file size, 0: [offset]-[eof], default 0"
(`subfile.go` l.14), copies the rest of the file (`SizeZeroIsRest`). It copies
nothing: l.56-58 cut the first buffer to zero bytes, and the loop ends. What a size
above 0 does is `RangeCopied`.

### What the checks show that is easy to get wrong

- A content can be on nodes without a row only for named reasons: its delivery
  failed, or it is a holdback delivery. `RowBacked` needs the case of a holdback
  insertion ten seconds after the *start* of a delivery that may have failed.
- Two sessions of one second with one content have one log: one may be judged by
  what the other's client wrote. Alone with its log a session judges rightly.
- One dead connection, if it is the first one, is enough for every session that
  has no other beside it to fail: it is always the least loaded.
- A deletion is judged by a log that a deletion of the same second empties or
  removes: a row may go although its content did not, and the other way round.
- `Copy` takes its pipe in a goroutine: a file may be missing although scp ended
  well, and the next start does not repair a torn file, because a file in any
  form counts as copied.
- Reads of one handle of any of the file systems are positional only as long as
  they do not overlap.
- Two lookups have one inode number only if the earlier ran beside another one;
  but then the counter may go back far, and numbers given long ago come again.
- udp-sender's loop counts the round in which it starts the file over, so the
  receiver reports one mismatch per round of the file without any loss.
- A dump is the stream exactly if sender and receiver agree about headers, and
  multicast-dump dies only of a file whose last piece is shorter than a header.
- A 200 or 206 of httpfsrv may carry zeros where a Read was short, and none is out
  of place; a failed read is answered with a 500 that has the length of the range,
  or, with `-read-all`, with a panic.
- hlsclient ends well with chunks missing where its scanner stops early.
- A run of agingcp in mode copy over the links of an earlier run empties the sources:
  `os.Link` fails because the name exists, and `os.Create` follows the link.
- A user of filereader that gets nothing over HTTP ends all users; from a disk or
  the Unix socket it counts as if it had read.
- dummy-amoc's table has the wish of a request that no other one followed, but
  which of two that overlap is open even for those that have their answers.
- A port refused to a new start of multi-proc-server is held by workers of a main
  process that *died*; one that ended by itself has left none.

## 4. Fairness

Liveness properties use a `FairSpec` with what the code and its runtime give:

- `SetupFiles`: a goroutine that holds the lock goes on, because the database
  answers a query or fails it (weak fairness of the steps under the lock); and
  strong fairness of `Lock`, because a Go mutex hands itself to a goroutine that
  has waited for a millisecond (starvation mode).
- `MulticastSender`: goroutines that can run do, and a write to a socket ends.
  Nothing is assumed of arrivals.
- `DummyAmoc`: the goroutine of a connection runs, and calls of the network and
  the database end, well or not. Nothing is assumed of clients.

All other runs are of safety, without fairness.

## 5. Proofs

For every value of the constants, from the named assumptions of the modules
alone. A theorem about a property of a run has its name in brackets.

| module | theorems | inductive invariant |
|---|---|---|
| `ClientPoolProofs` | `PoolTypes`, `SessionsConserved` (`Conservation`), `LoadBounded` (`SpreadBound`), `PoolComplete` (`NoMissing`), `LoopPicksFirstLeast`: loads are true and never negative; a load of m needs more than (m-1)·`gMaxSessionCount` goroutines; no connection is missing; the loop finds the first least | `PoolInv` |
| `SetupFilesProofs` | `ListsExclusive`, `CrashExplained` (`CrashOnlyOnEmptyList`), `StaleBounded` (`StaleAtMostOnce`): only the holder of the lock touches the lists; a panic means an empty result; a deleted content comes out once per list | `SetupInv` |
| `SetupSessionProofs` | `SuccessIsReal` (`SuccessJudged`), `FailureIsReal` (`FailureJudged`): what a verdict means | `SessionInv` |
| | of sessions over the pool: `DeadConnectionStarves` (`FirstDeadStarves`): one dead connection, if it is the first, fails every session that is alone on its machine | `StarvedInv` |
| | of deleters, who share logs as sessions do: `RemovalsAreReal` (`RemovedForReal`), `LeftoversAreExplained` (`LeftoverExplained`) | `DeleteInv` |
| `ContentsProofs` | `RowsAreBacked` (`RowBacked`), `OrphansAreExplained` (`OrphanExplained`), `DeletionsAreComplete` (`DeletedEverywhere`), `ContentsImplementTable` (`TableImplemented`): table and nodes agree but for the named reasons; the loops implement the abstract table | `ContentsInv` |
| | of the copying of files: `CopyTypes`, `SimulationHasItsFiles` (`FilesAtRun`), `FirstOfOneTarget` (`FirstJobWins`), `CopiesStay`: which files the simulation has, and that they stay | `CopyInv` |
| `FuseHandleProofs` | `WrongIsExplained` (`WrongExplained`), `SerialReadsArePositional` (`ReadsArePositional`): why an answer may be wrong; reads that do not overlap implement PositionalReads | `FuseInv` |
| `UdpStreamProofs` | `StreamImplementsGroups`, `MismatchesAreExplained` (`MismatchExplained`), `LossesAreNoticed` (`LossNoticed`): multicast-sender behind the stream is multicast-sender; what a reported mismatch means, and what its absence means | `GroupInv`, `StreamInv` |
| `ToolboxProofs` | multicast-sender: `GroupsGetTheStream` (`SameStream`), `GroupsStayTogether` (`LagBounded`) | `GroupInv` of `UdpStreamProofs` |
| | multi-proc-server: `PortIsKept` (`PortKept`) | `PortInv` |
| | subfile: `RangeIsCopied` (`RangeCopied`) | `SubInv` |
| | dummy-amoc: `LastOneIsKept` (`LastOneCounts`) | `DoneFirst`, `Owed` |
| | fusefs: `NumbersAreExplained` (`NumbersExplained`) | `InodesInv` |
| | dummy-adds: `RequestsAreCounted` (`RequestsCounted`) | `AddsInv` |
| | agingcp: `EndedRunsAreHonest` (`EndedRunsHonest`), `SourcesAreHarmedByReruns` (`SourceHarmedByRerun`) | `AgingInv` |
| | filereader: `UsersAreExplained` (`UsersExplained`) | `ReaderInv` |
| | multicast-dump, udp-server, rtp-to-ts: `DumpsAreExplained` (`DumpExplained`) | `DumpInv` of `StreamDumpProofs` |
| | hlsclient: `FirstChunksAreFetched` (`FirstChunksFetched`) | `HlsInv` |
| | httpfsrv: `BytesAreRight` (`BodyRight`), `LengthsAreHonest` (`LengthHonest`), `HeadIsKept` (`HeadForetells`), `PanicsAreExplained` (`PanicExplained`) | `HttpInv`, `Ended` |

The assumptions are those the code gives: sizes are natural numbers, a file or a
message has a size, sequences are sequences of what they should be, names that
stand for "nothing" are not names of anything else. Those a reader may want to look
at: `CallersAssumption` (goroutines are finitely many, so that loads can be
counted), `PoolAssumption` (the same for the sessions that share a pool),
`NodesAssumption` (a deletion asks at least one node), `ClockAssumption` (seconds
are numbers, and `NoFile` is none), `PacketsAssumption` (what the network carries
are datagrams), `OrderAssumption` (agingcp takes no name twice), `FilesAssumption`
(dummy-amoc has a content it may be asked about). Bounds such as
`MaxCrashes` or `MaxReceived` are constants like all others: a theorem holds for
any of them, so it holds of runs of any length.

The arguments.

- **PoolInv** is types, `Conservation`, `SpreadBound` and `DialledSoFar` (which
  connections exist while `Init` is in its loops). Types need `Conservation`:
  giving back does not go below zero because the goroutine that gives back is
  counted. `SpreadBound` follows at an `Alloc` because the loop picks the least
  loaded connection: if it has load m, all have, so m·`gMaxSessionCount` different
  goroutines hold connections of one address, and the borrower is one more. That
  the loop picks the first least one (`ScanLoopIsFirstLeast`) is an induction over
  the connections, made through the least counterexample.
- **SetupInv** adds `IndexReady` (behind the test an index is in range unless its
  list is empty) and `StaleSpent` (a list holds a content once, and a stale
  content that came out is not still to come). Both hold only under the lock,
  hence `Exclusive` is part of the induction.
- **SessionInv** relates the log to what sessions did: lines of success come from
  sessions that were served (`MarksBacked`), a log was truncated when the last GLB
  was asked (`MarksCurrent`), a client that outlives its command leaves a failed
  command behind (`Writers`), and a log of one session keeps what it wrote
  (`LogKept`).
- **StarvedInv** needs the pool's own invariant: a session that is alone on its
  machine (`AloneOnMachine`) finds all loads zero, so the first least connection is
  the first one, and if that is dead nothing else is tried (`Starved`). What
  the parts promise is carried over by `PooledSteps`: a step is one of SetupSession,
  one of ClientPool, or of both.
- **CopyInv** says where main is (`Phases`), what is at the target of its job
  (`AtHand`), that a job behind it is there unless its scp had no input (`Passed`)
  and that a torn file is being filled or was cut, which ended a run (`Torn`).
- **ContentsInv** follows a content from the second it is named after (`Names`):
  what a node acknowledged stays until somebody deletes it (`Delivered`), what it
  acknowledged to a deletion stays away (`Undelivered`), only what was seen cold is
  being deleted (`Colds`), and a holdback delivery is on its way to its content and
  its row, or failed (`HeldBack`). The refinement needs `Colds`: a `Remove` of the
  abstract table is of a row that was cold.
- **FuseInv**: the position is the one a request sought unless another one moved
  it (`Sought`), and a reader that waits for answers is alone (`OneAtATime`). From
  there to `PositionalReads` it is one step each.
- **GroupInv** says where each datagram is: `Placed(s)` counts those written,
  in hand and in the channel, which are behind one another, and `Buffered` that
  each is in a buffer of its own. The lag is then the capacity of a channel and the
  two in hand. **StreamInv** adds that a packet's number is its place in the
  stream modulo the numbers, and a mismatch a pair of neighbours whose places do
  not follow.
- **PortInv**: as long as a main process waits no worker of it is gone
  (`WorkersFollow`), hence an orphan has lost its main process.
- **SubInv**: the output is a copy from the offset on, as long as what was written,
  and `pos` is behind it (`BytesInPlace`). That this is all of the range in the end is said of sizes above 0.
- dummy-amoc: whom another request followed is done (`DoneFirst`), so nobody has
  followed the one that updates a row now; hence the row is always the wish of one
  that no other update followed (`Owed`).
- **InodesInv**: a lookup that met nobody left the counter at its number, whoever
  loads later loads no less (`AloneBelow`), so numbers rise behind it
  (`NumbersOrdered`), however late other stores come.
- **AddsInv**: a counter is the number of names taken of its kind modulo its width
  (`CountersTrue`), and the misses begun so far are one in each period
  (`MissesSoFar`); that this keeps to the percentage (`PeriodIsPercent`) is
  arithmetic: a period is 100 / rate rounded down, so the misses are never behind.
- **AgingInv**: names a run is through with are as it says, but for the file it is
  writing at the moment (`ThroughHonest`, `Rewritten`), and names it made are
  behind it (`MadeByThis`). Without the exception the invariant is not inductive:
  a copy through a link empties a file other names have behind them, until the
  copy ends.
- **ReaderInv**: a user has read the places up to its present one once more than
  those behind it (`RoundAndRound`), and the total is the number of the reads
  done (`Counted`).
- **DeleteInv**: a deletion that knows of no other client on its log is alone with
  it (`LogsApart`), so the log speaks for its client (`LogSpeaks`); a node that
  acknowledged does not get the content back (`NothingReturns`).
- **DumpInv**: between two datagrams the dump is what was sent, and with one under
  way what was sent is the dump and the piece in it (`NothingYet`, `UnderWay`). If
  the flags do not agree there are two ways to see it: every whole block loses
  bytes (`Short`), or the dump begins with a byte that is no byte of the stream
  (`Foreign`, `SentBytes`). Blocks begin at multiples of their size, because
  `-offset` is rounded down and only the last one is short (`Placed`).
- **HlsInv**: what was fetched are the chunks of the lines scanned so far, and an
  EXTINF behind the client was followed by an absolute URI (`AbsoluteSoFar`); so the
  next line is a chunk exactly if the line before it is an EXTINF (`NextIsChunk`),
  which is all the client remembers. Where the scanner was cut off, inside a line or
  before it, the client may remember something else, but scans no further. That what it fetched is a beginning of the
  chunks of the whole playlist is a lemma about the lines behind (`ChunksPrefix`).
- What these two are measured by are recursive functions: the bytes rtp-to-ts keeps
  (`RtpToTs`), a concatenation of rounds (`FlattenSeq`), the chunks of a playlist
  (`ChunksUpTo`). `StreamDumpProofs` has an induction over sets of numbers, drawn
  from the well-ordering of the naturals, and with it that a loop ends (`LoopEnds`),
  that whatever has its first value and its step has its results (`LoopIsOne`), and
  that it may end sooner (`LoopShorter`). From there each function is known by its
  step (`RtpMore`, `FlattenMore`, `ChunksMore`).
- **HttpInv**: the size is the file's until somebody rewrites it (`ReadReady`), the
  body is the range byte by byte (`WriteReady`), and chunks are written one behind
  the other (`ChunksSoFar`). What a Read was short of is 0 in the body, and a call
  that failed has already been answered (`FaultsAnswered`). Its lemmas are about the arithmetic: an aligned block
  covers the range it was widened from, `ceil` slices of up to three chunks begin
  inside the body.

Type correctness is proved with each of these invariants. In `ToolboxProofs` what
is proved of a program's own specification is carried to Toolbox by `EachProgram`:
a step of Toolbox is one of the program or leaves it alone.

Only model-checked is liveness (`EverySetupServed`, `AllForwarded`, `AnswerKept`),
which is out of the prover's reach. Every other property of the runs is proved, but
for the three that do not hold: `AllChunksWritten`, `RateIsPercent` and
`SizeZeroIsRest`.

## 6. Not modelled

- `ktsimul/common.go`, `check.go`, the `-test` mode: parsing and probing, no state.
- `ProcessingStat`: a goroutine nothing writes to. `Close` of the pool has no caller.
- httpfsrv: POST, HTTPS, the Unix socket, where redirects lead, headers other than
  Content-Length.
- gofusefs and fuse-cpp: names and attributes, which they pass on from the served
  directory; opening and closing.
- UDP: the pace of udp-sender, joining groups, reading the list of channels.
- aws-s3-client (one request, repeated three times at most), multicast-receiver
  (prints URLs), vodclient, cachepuller, chash-tester, sample-generator: one step
  after the other, with nothing beside them and no state that two steps share.

## 7. What is left

The components with state are modelled, and all safety properties of the runs are
proved. What could follow:

1. Liveness by hand: the three properties have ranking arguments that a prover with
   rules for ENABLED and fairness could check (the waiters for the lock in
   SetupFiles; what is still to be forwarded in MulticastSender).
2. POST of httpfsrv and the names and attributes of gofusefs, should they come to
   keep state.
