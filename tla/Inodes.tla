------------------------------- MODULE Inodes -------------------------------
(***************************************************************************)
(* The inode numbers of src/fusefs/fusefs.go.  No Attr sets one, so the    *)
(* FUSE library asks GenerateInode for a number at the end of every lookup *)
(* that succeeds, also of a file that was looked up before.  Requests run  *)
(* in goroutines of their own, and GenerateInode increments a variable     *)
(* they share, without a lock: a load and a store, and for the result a    *)
(* load once more or not, as the compiler likes.                           *)
(*                                                                         *)
(* Left out: names, the other attributes, and the wrap at 2^64.            *)
(*                                                                         *)
(* External: the FUSE library, the directory that is served.               *)
(***************************************************************************)
EXTENDS Naturals, FiniteSets

CONSTANT Lookups      \* lookups of the kernel, each of which happens once

LookupsAssumption == IsFiniteSet(Lookups)

VARIABLES
  inode,
  pc,                 \* pc[x]: "idle", "lookup", "load", "store", "return",
                      \* "done", "failed"
  loaded,             \* loaded[x]: what x found in inode
  number,             \* number[x]: the result, 0 for none
  \* history
  over,               \* over[x]: those in GenerateInode while x was
  before              \* before[x]: those that had a number when x entered it

vars == <<inode, pc, loaded, number, over, before>>

InGenerate == {x \in Lookups : pc[x] \in {"load", "store", "return"}}
Numbered == {x \in Lookups : pc[x] = "done"}

TypeOK ==
  /\ inode \in 0 .. Cardinality(Lookups)
  /\ pc \in [Lookups -> {"idle", "lookup", "load", "store", "return", "done", "failed"}]
  /\ loaded \in [Lookups -> 0 .. Cardinality(Lookups)]
  /\ number \in [Lookups -> 0 .. Cardinality(Lookups)]
  /\ over \in [Lookups -> SUBSET Lookups] /\ before \in [Lookups -> SUBSET Lookups]

Init ==
  /\ inode = 0
  /\ pc = [x \in Lookups |-> "idle"]
  /\ loaded = [x \in Lookups |-> 0] /\ number = [x \in Lookups |-> 0]
  /\ over = [x \in Lookups |-> {}] /\ before = [x \in Lookups |-> {}]

-----------------------------------------------------------------------------
Goto(x, label) == pc' = [pc EXCEPT ![x] = label]

Request(x) ==
  /\ pc[x] = "idle"
  /\ Goto(x, "lookup")
  /\ UNCHANGED <<inode, loaded, number, over, before>>

\* Mutant: a number was taken first, and goes back when the file is not there.
LookupTakesBack(x) ==
  /\ pc[x] = "lookup"
  /\ Goto(x, "failed")
  /\ inode' = IF inode = 0 THEN 0 ELSE inode - 1
  /\ UNCHANGED <<loaded, number, over, before>>

\* Lookup, or Attr behind it, finds no file.
LookupFails(x) ==
  /\ pc[x] = "lookup"
  /\ Goto(x, "failed")
  /\ UNCHANGED <<inode, loaded, number, over, before>>

\* Lookup and Attr find it: the library asks for a number.
LookupFinds(x) ==
  /\ pc[x] = "lookup"
  /\ Goto(x, "load")
  /\ over' = [y \in Lookups |->
                CASE y = x -> InGenerate
                  [] y \in InGenerate -> over[y] \cup {x}
                  [] OTHER -> over[y]]
  /\ before' = [before EXCEPT ![x] = Numbered]
  /\ UNCHANGED <<inode, loaded, number>>

Load(x) ==
  /\ pc[x] = "load"
  /\ loaded' = [loaded EXCEPT ![x] = inode]
  /\ Goto(x, "store")
  /\ UNCHANGED <<inode, number, over, before>>

Store(x) ==
  /\ pc[x] = "store"
  /\ inode' = loaded[x] + 1
  /\ Goto(x, "return")
  /\ UNCHANGED <<loaded, number, over, before>>

Return(x) ==
  /\ pc[x] = "return"
  /\ \E n \in {loaded[x] + 1, inode} : number' = [number EXCEPT ![x] = n]
  /\ Goto(x, "done")
  /\ UNCHANGED <<inode, loaded, over, before>>

Lookup(x) ==
  Request(x) \/ LookupFails(x) \/ LookupFinds(x) \/ Load(x) \/ Store(x) \/ Return(x)

Next == \E x \in Lookups : Lookup(x)

Spec == Init /\ [][Next]_vars

-----------------------------------------------------------------------------
(* Properties.                                                             *)

\* Two lookups have one number only if the earlier of them ran beside another
\* one (l.71-74): after a lookup that was alone all numbers are greater, however
\* late a store comes.  Whoever stores late may set the counter back, and a
\* number that was given long before comes again.  (The first one, 1, is the number
\* the library has for the root directory.)
NumbersExplained ==
  TypeOK /\ \A x, y \in Numbered :
    over[x] = {} /\ x \in before[y] => number[x] < number[y]
=============================================================================
