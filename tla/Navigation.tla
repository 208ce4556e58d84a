----------------------------- MODULE Navigation -----------------------------
(***************************************************************************)
(* What the page stack promises the user: the pages on it are the way he   *)
(* took from the first page, one link at a time, and Back takes him to the *)
(* page he came from, which is always there.                               *)
(***************************************************************************)
EXTENDS Naturals, Sequences, SequencesExt

CONSTANTS
  Root,      \* the first page
  Links,     \* pairs of a page and one it leads to
  Returns    \* the pages with a way back

VARIABLES
  path,
  lost       \* somebody went back where there was no way back

vars == <<path, lost>>

Init == path = <<>> /\ lost = FALSE

Start == path = <<>> /\ path' = <<Root>> /\ UNCHANGED lost

Go ==
  /\ path # <<>>
  /\ \E link \in Links : Last(path) = link[1] /\ path' = Append(path, link[2])
  /\ UNCHANGED lost

Return ==
  /\ Len(path) > 1
  /\ Last(path) \in Returns
  /\ path' = Front(path)
  /\ UNCHANGED lost

Next == Start \/ Go \/ Return

Spec == Init /\ [][Next]_vars
=============================================================================
