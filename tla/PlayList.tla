------------------------------ MODULE PlayList ------------------------------
(***************************************************************************)
(* What class PlayList of include/playlist.h promises the one who calls    *)
(* it: every operation is one step.  Player refines it where it may be     *)
(* believed, its pop taking the step of pop here: it is three calls there, *)
(* and the song it returns is looked up after the first one is gone.       *)
(***************************************************************************)
EXTENDS PlayListOps

CONSTANTS
  Songs,     \* songs, equal when their index and name are
  Steps,     \* the steps of moveForward and moveBackward
  MaxSongs   \* bound: no song is appended to a list as long as this

VARIABLES
  list,      \* the deque
  wanting    \* a pop took the last song: at(0) throws, unless one is appended

vars == <<list, wanting>>

Init == list = <<>> /\ wanting = FALSE

append(song) ==
  /\ Len(list) < MaxSongs
  /\ list' = Append(list, song)
  /\ wanting' = FALSE

remove(song) == list' = RemoveSong(list, song) /\ UNCHANGED wanting

\* Removes the first song and returns the next: there has to be one.
pop ==
  /\ list # <<>>
  /\ list' = RemoveSong(list, At0(list, 0))
  /\ wanting' = (list' = <<>>)

clear == list' = <<>> /\ UNCHANGED wanting

moveForward(song, step) ==
  /\ ~MoveForwardThrows(list, song, step)
  /\ list' = MoveForward(list, song, step)
  /\ UNCHANGED wanting

moveBackward(song, step) ==
  list' = MoveBackward(list, song, step) /\ UNCHANGED wanting

moveTop(song) == list' = MoveTop(list, song) /\ UNCHANGED wanting

moveBottom(song) == list' = MoveBottom(list, song) /\ UNCHANGED wanting

Next ==
  \/ pop \/ clear
  \/ \E song \in Songs :
       \/ append(song) \/ remove(song) \/ moveTop(song) \/ moveBottom(song)
       \/ \E step \in Steps : moveForward(song, step) \/ moveBackward(song, step)

Spec == Init /\ [][Next]_vars
=============================================================================
