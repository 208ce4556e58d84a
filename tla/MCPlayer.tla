------------------------------ MODULE MCPlayer ------------------------------
(* The player, its play list and its three threads on small instances.     *)
EXTENDS Player

CONSTANTS s1, s2, empty

MCUrlOf == [s \in AllSongs |-> IF s \in Paths THEN s ELSE EmptyUrl]

VARIABLE fromTop   \* history: only played from the top, no start refused

mcVars == <<vars, fromTop>>

\* Calls and events are far apart for the play list too: nobody takes a song
\* off it while another thread is inside Playback.
FarApart ==
  /\ OneAtATime
  /\ Len(playlist') < Len(playlist) => AtRest \/ popAt' # popAt

\* player.play url, or the removal of a song by its page.
OffTheTop ==
  (\E p \in Paths : CliPlay(p)) \/ \E s \in Songs : SlotSongDel(s)

SerialInit == Init /\ fromTop = TRUE

SerialNext ==
  /\ Next
  /\ FarApart
  /\ fromTop' = (fromTop /\ ~OffTheTop /\ ~refused')

SerialSpec == SerialInit /\ [][SerialNext]_mcVars

\* See NowPlayingIsFirst (playlist.h:42-53, player.cpp:93-122).
PlayedFromTop == fromTop => NowPlayingIsFirst

PL == INSTANCE PlayList WITH
  Songs <- AllSongs, Steps <- {1}, list <- playlist,
  wanting <- \E t \in Threads : popAt[t] = "at" /\ playlist = <<>>

\* The play list of the program keeps the promise of the class as long as
\* calls and events are far apart: whenever the callback changes the list it
\* takes the first song and no other, and is left wanting a song exactly when
\* it took the last; the pages and commands append and remove
\* (playlist.h:42-53).
PopIsAtomic == PL!Spec /\ [][popAt' # popAt /\ playlist' # playlist => PL!pop]_vars

\* See BackAgain, for every list the program makes (playlist.h:83-110).
ForwardAndBack == \A song \in AllSongs : BackAgain(playlist, song, 1)

\* Bound: two threads at most are inside Playback at once, a third only when
\* one of them hangs there.
TwoInside ==
  \A t \in Threads : Idle(t) /\ ~Idle(t)' =>
    \E u \in Threads \ {t} : Idle(u) \/ u \in hung

\* The threads interleave; the history is not kept.
MCInit == Init /\ fromTop = TRUE
MCSpec == MCInit /\ [][Next /\ TwoInside /\ UNCHANGED fromTop]_mcVars
MCFairSpec == MCSpec /\ Fairness
=============================================================================
