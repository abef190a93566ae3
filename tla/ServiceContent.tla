--------------------------- MODULE ServiceContent ---------------------------
(***************************************************************************)
(* What the table service_content promises to the programs that share it:  *)
(* kt-simul inserts a row when a content is delivered, reads hot and cold  *)
(* rows to choose contents to play, and removes the row of a content it    *)
(* has found cold; dummy-amoc flips is_hot.  Contents is shown to          *)
(* implement this module, SetupFiles reads a table that behaves like it.   *)
(***************************************************************************)
EXTENDS Naturals

CONSTANT Files        \* the names of contents, the primary key of the table

VARIABLES
  rows,               \* rows[f]: "absent", "hot" (is_hot = 1) or "cold"
  wasCold             \* contents that were cold at some time since insertion

tableVars == <<rows, wasCold>>

Kind(isHot) == IF isHot THEN "hot" ELSE "cold"
Present(f) == rows[f] # "absent"

\* The table outlives the programs: it starts with any rows.
TableInit ==
  /\ rows \in [Files -> {"absent", "hot", "cold"}]
  /\ wasCold = {f \in Files : rows[f] = "cold"}

\* INSERT fails on a primary key that is present.
Insert(f, isHot) ==
  /\ ~Present(f)
  /\ rows' = [rows EXCEPT ![f] = Kind(isHot)]
  /\ wasCold' = IF isHot THEN wasCold \ {f} ELSE wasCold \cup {f}

\* UPDATE service_content SET is_hot = ? WHERE file = ?
SetHot(f, isHot) ==
  /\ Present(f)
  /\ rows' = [rows EXCEPT ![f] = Kind(isHot)]
  /\ wasCold' = IF isHot THEN wasCold ELSE wasCold \cup {f}

\* DELETE: only of a content that somebody found cold.
Remove(f) ==
  /\ Present(f) /\ f \in wasCold
  /\ rows' = [rows EXCEPT ![f] = "absent"]
  /\ wasCold' = wasCold \ {f}

TableNext ==
  \E f \in Files : Remove(f) \/ \E h \in BOOLEAN : Insert(f, h) \/ SetHot(f, h)

TableSpec == TableInit /\ [][TableNext]_tableVars
=============================================================================
