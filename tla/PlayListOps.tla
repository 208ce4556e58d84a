---------------------------- MODULE PlayListOps -----------------------------
(***************************************************************************)
(* class PlayList of include/playlist.h, a deque<Song>, as operators on a  *)
(* sequence.  Positions are those of the code, from 0.  Two songs are the  *)
(* same element when Song::operator== says so (database.cpp:21-27).        *)
(*                                                                         *)
(* deque::at throws std::out_of_range past the end and nothing in the      *)
(* program catches it: the thread that called hangs in the handler of      *)
(* SIGABRT (dbg.cpp:118-124).  So an operation that can throw says so.     *)
(***************************************************************************)
EXTENDS Integers, Sequences, SequencesExt

At0(list, idx) == list[idx + 1]

\* find: the first position of a song, -1 when it is not there.
Find(list, song) == SelectInSeq(list, LAMBDA s : s = song) - 1

\* remove: erases the first element equal to song, if there is one.
RemoveSong(list, song) == RemoveFirst(list, song)

Swap(list, i, j) ==
  [list EXCEPT ![i + 1] = At0(list, j), ![j + 1] = At0(list, i)]

\* moveForward: the guard "idx - step < 0" compares an unsigned number, so it
\* only turns away a song that is not there; a step past the front becomes an
\* index beyond every list, and at() throws.
MoveForwardThrows(list, song, step) ==
  Find(list, song) >= 0 /\ Find(list, song) < step

MoveForward(list, song, step) ==
  LET idx == Find(list, song) IN
  IF idx < step THEN list ELSE Swap(list, idx, idx - step)

\* Mutant of MoveBackward: one position too far.
MoveBackwardFurther(list, song, step) ==
  LET idx == Find(list, song) IN
  IF idx < 0 \/ idx + step + 1 >= Len(list) THEN list
  ELSE Swap(list, idx, idx + step + 1)

MoveBackward(list, song, step) ==
  LET idx == Find(list, song) IN
  IF idx < 0 \/ idx + step >= Len(list) THEN list ELSE Swap(list, idx, idx + step)

MoveTop(list, song) ==
  IF Find(list, song) < 0 THEN list ELSE <<song>> \o RemoveSong(list, song)

MoveBottom(list, song) ==
  IF Find(list, song) < 0 THEN list ELSE Append(RemoveSong(list, song), song)

\* A song moved forward and then as far backward is back in its place, and so
\* is every other: find meets the song it moved, and not one equal to it.
BackAgain(list, song, step) ==
  Find(list, song) >= step =>
    MoveBackward(MoveForward(list, song, step), song, step) = list
=============================================================================
