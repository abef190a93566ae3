----------------------------- MODULE HlsClient ------------------------------
(***************************************************************************)
(* The HLS client, src/hlsclient/hlsclient.go: it fetches a playlist,      *)
(* writes it to a file, reads the file line by line, and fetches the line  *)
(* after every "#EXTINF" as the URL of a chunk, -max-chunk-count at most.  *)
(* A request or a file that fails ends the process.  The loop over the     *)
(* lines is over when s.Scan() says so, and nobody asks s.Err() why: a     *)
(* line over 64 KiB or a read that fails ends it like the end of the file. *)
(*                                                                         *)
(* A line is one of four kinds.  In a playlist the chunk of an EXTINF is   *)
(* the next line that is a URI; other tags may stand in between, and the   *)
(* URI may be relative to that of the playlist.  The client takes the very *)
(* next line, and net/http refuses what has no scheme.                     *)
(*                                                                         *)
(* Left out: the answers, which are written to files whatever their status *)
(* is, and the names of the files.                                         *)
(*                                                                         *)
(* External: what a line of a playlist means (the HLS format), and how     *)
(* bufio.Scanner ends: with no line for one that is too long, and, where a *)
(* read fails, with what it has of the line.                               *)
(***************************************************************************)
EXTENDS Integers, Sequences, SequencesExt

CONSTANTS
  ChunkCounts,        \* values of -max-chunk-count
  MaxLines            \* bound: lines of a playlist

CountsAssumption == ChunkCounts \subseteq Int /\ MaxLines \in Nat

Lines == {"extinf", "tag", "absolute", "relative"}
URIs == {"absolute", "relative"}

\* What a line may look like that breaks off; "relative" is any URI that net/http
\* refuses.
Beginnings(line) ==
  CASE line = "extinf" -> {"extinf", "tag"}
    [] line = "absolute" -> {"absolute", "relative"}
    [] OTHER -> {line}

VARIABLES
  maxChunk, m3u8only, \* the flags
  playlist,           \* the lines of the file
  pc,                 \* "playlist", "scan", "done", "fatal"
  at,                 \* lines scanned
  nextContent, cntCount,
  cut,                \* the scanner stopped before the end, or inside a line
  fetched,            \* history: the lines that were fetched, in order
  broke               \* history: a request or a write failed

given == <<maxChunk, m3u8only, playlist>>
vars == <<given, pc, at, nextContent, cntCount, cut, fetched, broke>>

TypeOK ==
  /\ maxChunk \in ChunkCounts /\ m3u8only \in BOOLEAN
  /\ playlist \in BoundedSeq(Lines, MaxLines)
  /\ pc \in {"playlist", "scan", "done", "fatal"}
  /\ at \in 0 .. Len(playlist)
  /\ nextContent \in BOOLEAN /\ cut \in BOOLEAN /\ broke \in BOOLEAN
  /\ fetched \in Seq(1 .. at) /\ cntCount = Len(fetched)

Init ==
  /\ maxChunk \in ChunkCounts /\ m3u8only \in BOOLEAN
  /\ playlist \in BoundedSeq(Lines, MaxLines)
  /\ pc = "playlist" /\ at = 0 /\ nextContent = FALSE /\ cntCount = 0
  /\ cut = FALSE /\ fetched = <<>> /\ broke = FALSE

-----------------------------------------------------------------------------
GetPlaylist ==
  /\ pc = "playlist"
  /\ pc' = IF m3u8only THEN "done" ELSE "scan"
  /\ UNCHANGED <<given, at, nextContent, cntCount, cut, fetched, broke>>

\* s.Scan() has a line: the next one, or the beginning of it and no more.
Scan(line) ==
  /\ pc = "scan" /\ ~cut /\ at < Len(playlist)
  /\ \/ line = playlist[at + 1] /\ UNCHANGED cut
     \/ line \in Beginnings(playlist[at + 1]) /\ cut' = TRUE

\* Mutant: the bound is looked at before the chunk is counted.
EnoughLate(count) == count > maxChunk
\* A negative bound is never met.
Enough(count) == count = maxChunk

\* The end of the loop's body, with count chunks fetched.
EndLine(line, count) ==
  /\ at' = at + 1 /\ cntCount' = count
  /\ nextContent' = (line = "extinf")
  /\ pc' = IF Enough(count) THEN "done" ELSE "scan"

PassLine ==
  /\ ~nextContent
  /\ \E line \in Lines : Scan(line) /\ EndLine(line, cntCount)
  /\ UNCHANGED <<given, fetched, broke>>

FetchChunk ==
  /\ nextContent
  /\ Scan("absolute") /\ EndLine("absolute", cntCount + 1)
  /\ fetched' = Append(fetched, at + 1)
  /\ UNCHANGED <<given, broke>>

\* net/http: unsupported protocol scheme "".
NoScheme ==
  /\ nextContent
  /\ \E line \in Lines \ {"absolute"} : Scan(line)
  /\ pc' = "fatal"
  /\ UNCHANGED <<given, at, nextContent, cntCount, fetched, broke>>

\* The server cannot be reached, the answer breaks off, the file cannot be
\* written (its directory is not there).
RequestFails ==
  /\ \/ pc = "playlist" /\ UNCHANGED cut
     \/ nextContent /\ \E line \in Lines : Scan(line)
  /\ pc' = "fatal" /\ broke' = TRUE
  /\ UNCHANGED <<given, at, nextContent, cntCount, fetched>>

\* s.Scan() has none: at the end of the file, behind what a failed read left, or,
\* at any line, because it is too long or cannot be read.
EndOfPlaylist ==
  /\ pc = "scan"
  /\ cut' = (cut \/ at < Len(playlist))
  /\ pc' = "done"
  /\ UNCHANGED <<given, at, nextContent, cntCount, fetched, broke>>

Next == GetPlaylist \/ PassLine \/ FetchChunk \/ NoScheme \/ RequestFails \/ EndOfPlaylist

Spec == Init /\ [][Next]_vars

-----------------------------------------------------------------------------
(* Properties.                                                             *)

\* The lines that name the chunks of the playlist: the URIs that have an EXTINF
\* with no URI in between.
IsChunk(i) ==
  /\ playlist[i] \in URIs
  /\ \E j \in 1 .. i - 1 :
       playlist[j] = "extinf" /\ \A k \in j + 1 .. i - 1 : playlist[k] \notin URIs
ChunksUpTo(n) ==
  LET upTo[i \in 0 .. n] ==
        IF i = 0 THEN <<>>
        ELSE IF IsChunk(i) THEN Append(upTo[i - 1], i) ELSE upTo[i - 1]
  IN upTo[n]
Chunks == ChunksUpTo(Len(playlist))
Wanted ==
  IF m3u8only THEN <<>>
  ELSE IF maxChunk \in 0 .. Len(Chunks) THEN SubSeq(Chunks, 1, maxChunk) ELSE Chunks

\* Up to the chunk that meets the bound, if there is one, every EXTINF is
\* followed by an absolute URI.
LastLine ==
  CASE maxChunk = 0 -> 0
    [] maxChunk \in 1 .. Len(Chunks) -> Chunks[maxChunk]
    [] OTHER -> Len(playlist)
Plain == \A i \in 1 .. LastLine - 1 : playlist[i] = "extinf" => playlist[i + 1] = "absolute"

\* The client fetches the chunks of the playlist, in order, up to the bound and
\* not one more (l.77-126), and passes over none: it ends with fewer only where
\* the scanner did, which it does not tell from the end of the file (l.80), and
\* may then have asked for a name that is the beginning of the chunk's.  It
\* gives up by itself only over a playlist with something between an EXTINF and
\* its URI, or with a relative URI.  The state carried from line to line
\* (nextContent, cntCount) never takes another line for a chunk.
FirstChunksFetched ==
  /\ TypeOK
  /\ IsPrefix(fetched, Wanted)
  /\ pc = "done" => fetched = ChunksUpTo(at)
  /\ pc = "done" /\ ~cut => fetched = Wanted
  /\ pc = "fatal" /\ ~broke /\ ~cut => ~Plain
=============================================================================
