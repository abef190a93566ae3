------------------------------ MODULE MCToolbox ------------------------------
(* Toolbox for TLC.  Two of whatever competes, and bounds at which each       *)
(* program meets every boundary its module is about.                          *)
EXTENDS Toolbox

\* agingcp: a source with two numbers, one of which has two names, and one with a
\* single name, which a rate of 50 leaves out; in the order of main; three runs.
MCOrder == <<[src |-> "hd", i |-> 1, copy |-> 1], [src |-> "hd", i |-> 1, copy |-> 2],
             [src |-> "sd", i |-> 1, copy |-> 1], [src |-> "hd", i |-> 2, copy |-> 1]>>

\* dummy-adds: counters of three bits with rings of 3 and 5 names, neither of
\* which divides 8; every kind of rate.
MCMissRates == {-20, 0, 5, 30, 40, 50, 100, 150}

\* hlsclient: every bound that matters for playlists of up to five lines.
MCChunkCounts == {-1, 0, 1, 2}

\* httpfsrv: files of up to four bytes in blocks of two; the flags that replace
\* the answer are tried one at a time.
Bools == {TRUE, FALSE}
Conf(dio, all, pieces, n) ==
  [directIO |-> dio, readAll |-> all, chunked |-> pieces, ceCount |-> n,
   disableRange |-> FALSE, getCode |-> FALSE, headCode |-> FALSE, otu |-> "none"]
Default == Conf(FALSE, FALSE, FALSE, 3)

MCConfs ==
  {Conf(dio, all, TRUE, n) : dio, all \in Bools, n \in 1 .. 3}
  \cup {Conf(dio, all, FALSE, 3) : dio, all \in Bools}
  \cup {[Default EXCEPT !.disableRange = TRUE], [Default EXCEPT !.getCode = TRUE],
        [Default EXCEPT !.headCode = TRUE]}
  \cup {[Default EXCEPT !.otu = o] : o \in {"castis", "zooin"}}
FiveChunks == {Conf(dio, FALSE, TRUE, 5) : dio \in Bools}

MCRanges == {<<s, n>> : s \in 0 .. 4, n \in 1 .. 5}
MCRequests ==
  [range : {NoRange} \cup MCRanges, session : {TRUE}, ims : {FALSE}]
  \cup [range : {NoRange, <<1, 2>>}, session : Bools, ims : Bools]

\* multicast-sender: one datagram more than the lag allowed, channels of one.
MCDatagrams == [seq : {0, 1}]

\* stream-dump: lengths in the order of those in the code; files of up to three
\* blocks with every length of the last one.
\* subfile: a buffer of two bytes, inputs of up to five; offsets and sizes before,
\* at and behind every boundary of these.
MCRange == -1 .. 6
=============================================================================
