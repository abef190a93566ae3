------------------------------ MODULE Subfile ------------------------------
(***************************************************************************)
(* src/subfile/subfile.go copies a range of a file into another file: with *)
(* reads of one buffer each, of which any may be short, and with a panic   *)
(* for whatever fails.                                                     *)
(*                                                                         *)
(* Byte number p of the input is the number p, counted from 1.             *)
(*                                                                         *)
(* External: the file system.                                              *)
(***************************************************************************)
EXTENDS Integers, Sequences

CONSTANTS
  BufSize,            \* bytes of the buffer (4096 in the code)
  MaxSize,            \* bound: the size of the input
  Offsets, Lengths    \* values of -offset and -size

SizesAssumption == BufSize \in Nat \ {0} /\ MaxSize \in Nat
FlagsAssumption == Offsets \subseteq Int /\ Lengths \subseteq Int

VARIABLES
  offset, length,     \* the flags
  same,               \* -in and -out name one file
  size,               \* bytes of the input
  pos,                \* the position in the input
  out,                \* bytes of the output
  writed,
  pc                  \* "open", "copy", "done", "panic"

flags == <<offset, length, same>>
vars == <<flags, size, pos, out, writed, pc>>

TypeOK ==
  /\ offset \in Offsets /\ length \in Lengths /\ same \in BOOLEAN
  /\ size \in 0 .. MaxSize /\ pos \in Nat
  /\ out \in Seq(1 .. MaxSize) /\ writed \in Nat
  /\ pc \in {"open", "copy", "done", "panic"}

Init ==
  /\ offset \in Offsets /\ length \in Lengths /\ same \in BOOLEAN
  /\ size \in 0 .. MaxSize /\ pos = 0
  /\ out = <<>> /\ writed = 0 /\ pc = "open"

-----------------------------------------------------------------------------
Least(a, b) == IF a < b THEN a ELSE b

\* os.Open, os.Create, Seek: the output is there, and empty, before the offset
\* is looked at; an offset behind the end is none of Seek's business.
Open ==
  /\ pc = "open"
  /\ size' = IF same THEN 0 ELSE size
  /\ IF offset < 0 THEN pc' = "panic" /\ UNCHANGED pos
                   ELSE pc' = "copy" /\ pos' = offset
  /\ UNCHANGED <<flags, out, writed>>

\* Mutant: what was read is written whole; the flag bounds the rounds only.
WholeBuffer(cnt) == cnt

\* How many of the bytes read are written.
Wanted(cnt) == Least(cnt, length - writed)

\* A round: as many bytes as Read likes, and of these what length leaves.  A
\* negative number of bytes to write panics.
Round ==
  /\ pc = "copy" /\ pos < size
  /\ \E cnt \in 1 .. Least(BufSize, size - pos) :
       LET n == Wanted(cnt) IN
         /\ pos' = pos + cnt
         /\ IF n < 0 THEN pc' = "panic" /\ UNCHANGED <<out, writed>>
            ELSE /\ out' = out \o [i \in 1 .. n |-> pos + i]
                 /\ writed' = writed + n
                 /\ pc' = IF writed' >= length THEN "done" ELSE "copy"
  /\ UNCHANGED <<flags, size>>

\* Read returns 0 bytes at the end and behind it.
EndOfFile ==
  /\ pc = "copy" /\ pos >= size
  /\ pc' = "done"
  /\ UNCHANGED <<flags, size, pos, out, writed>>

\* A file cannot be opened, made, read or written; no output is taken back.
Fails ==
  /\ pc \in {"open", "copy"}
  /\ size' \in (IF same THEN {0, size} ELSE {size})
  /\ pc' = "panic"
  /\ UNCHANGED <<flags, pos, out, writed>>

Next == Open \/ Round \/ EndOfFile \/ Fails

Spec == Init /\ [][Next]_vars

-----------------------------------------------------------------------------
(* Properties.                                                             *)

Bytes(from, to) == [i \in 1 .. (IF to > from THEN to - from ELSE 0) |-> from + i]

\* However the reads are split, what is written is the beginning of the range,
\* and all of it when the program ends: the bytes from offset on, as many as
\* size says and the input has (l.46-67).  Input and output in one file lose it.
RangeCopied ==
  /\ TypeOK
  /\ Len(out) = writed
  /\ out = Bytes(offset, offset + Len(out))
  /\ pc = "done" /\ length > 0 => out = Bytes(offset, Least(size, offset + length))
  /\ pc = "done" /\ same => out = <<>> /\ size = 0
  /\ length < 0 => out = <<>>

\* "file size, 0: [offset]-[eof]" (l.14): with size 0, the default, the rest of the
\* input is copied.  l.56 bounds what is written by length all the same.
SizeZeroIsRest ==
  pc = "done" /\ length = 0 /\ ~same => out = Bytes(offset, size)
=============================================================================
