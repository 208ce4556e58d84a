------------------------------- MODULE Player -------------------------------
(***************************************************************************)
(* gui/player/player.cpp: the Player page drives a Playback object and is  *)
(* its client, and the global playlist feeds it.  Three threads run this   *)
(* code with no lock: the GUI thread (buttons of the page, slots of the    *)
(* play list), the CLI thread (player.* and pl.* commands, executed where  *)
(* they are read) and the engine's callback thread.                        *)
(*                                                                         *)
(* player_callback answers every STOP by PlayList::pop and mrPlay(path).   *)
(* pop is three calls on the deque, size, remove and at(0), and another    *)
(* thread can change the list between them.  Each call is one step: what a *)
(* data race inside one call of the deque does is not modelled.            *)
(*                                                                         *)
(* at(0) of an empty list throws and nobody catches that: the handler of   *)
(* SIGABRT (dbg.cpp:118-124) pauses the thread that threw for ever, and    *)
(* the other threads go on.                                                *)
(***************************************************************************)
EXTENDS Playback, PlayListOps

CONSTANTS
  GUI, CLI,   \* the threads of Users
  Songs,      \* songs the pages offer
  CliSong,    \* what pl.add appends: a Song without a url
  UrlOf,      \* Song::url
  EmptyUrl,   \* the url of Song() and of CliSong
  MaxSongs    \* bound: songs in the play list

ASSUME PlayerAssumption ==
  /\ Users = {GUI, CLI}
  /\ EmptyUrl \in Paths
  /\ CliSong \notin Songs
  /\ UrlOf \in [Songs \cup {CliSong} -> Paths]
  /\ MaxSongs \in Nat

AllSongs == Songs \cup {CliSong}

\* The next call of PlayList::pop in the callback of a thread.
PopCalls == {"size", "remove", "at"}

VARIABLES
  playlist,   \* the global PlayList
  popAt,      \* for each thread, the next call of its pop()
  hung        \* the threads whose pop threw: in the handler of SIGABRT

vars == <<pbVars, playlist, popAt, hung>>

-----------------------------------------------------------------------------
(* player_callback, told that the state is STOP.                           *)

\* Mutant of SlotPlayUrl: the song is opened whatever the state is.
SlotPlayUrlUnchecked(t, url) ==
  /\ Goto(t, Frame("param", url))
  /\ popAt' = [popAt EXCEPT ![t] = "size"]
  /\ UNCHANGED <<playlist, hung>>

\* slotPlay(url): the callback ends in mrPlay(path).
SlotPlayUrl(t, url) ==
  /\ Goto(t, Frame("open", url))
  /\ popAt' = [popAt EXCEPT ![t] = "size"]
  /\ UNCHANGED <<playlist, hung>>

Throw(t) ==
  /\ hung' = hung \cup {t}
  /\ UNCHANGED <<stack, playlist, popAt>>

\* Mutant of PopSize: on an empty list the callback starts nothing.
PopSizeSilent(t) ==
  /\ At(t, "cb") /\ popAt[t] = "size"
  /\ \/ playlist = <<>> /\ Return(t) /\ UNCHANGED popAt
     \/ /\ playlist # <<>>
        /\ popAt' = [popAt EXCEPT ![t] = "remove"]
        /\ UNCHANGED stack
  /\ UNCHANGED <<stt, eng, uri, refused, playlist, hung>>

\* Mutant of PopSize: pop waits for a song.
PopSizeBlocks(t) ==
  /\ At(t, "cb") /\ popAt[t] = "size"
  /\ playlist # <<>>
  /\ popAt' = [popAt EXCEPT ![t] = "remove"]
  /\ UNCHANGED <<pbVars, playlist, hung>>

\* if(0 == size()) return Song();
PopSize(t) ==
  /\ At(t, "cb") /\ popAt[t] = "size"
  /\ \/ playlist = <<>> /\ SlotPlayUrl(t, EmptyUrl)
     \/ /\ playlist # <<>>
        /\ popAt' = [popAt EXCEPT ![t] = "remove"]
        /\ UNCHANGED <<stack, playlist, hung>>
  /\ UNCHANGED <<stt, eng, uri, refused>>

\* Mutant of PopRemove: at(1), where there is one.
PopRemoveSecond(t) ==
  /\ At(t, "cb") /\ popAt[t] = "remove"
  /\ \/ playlist = <<>> /\ Throw(t)
     \/ /\ playlist # <<>>
        /\ playlist' = RemoveSong(playlist, At0(playlist, IF Len(playlist) > 1 THEN 1 ELSE 0))
        /\ popAt' = [popAt EXCEPT ![t] = "at"]
        /\ UNCHANGED <<stack, hung>>
  /\ UNCHANGED <<stt, eng, uri, refused>>

\* remove(at(0));
PopRemove(t) ==
  /\ At(t, "cb") /\ popAt[t] = "remove"
  /\ \/ playlist = <<>> /\ Throw(t)
     \/ /\ playlist # <<>>
        /\ playlist' = RemoveSong(playlist, At0(playlist, 0))
        /\ popAt' = [popAt EXCEPT ![t] = "at"]
        /\ UNCHANGED <<stack, hung>>
  /\ UNCHANGED <<stt, eng, uri, refused>>

\* Mutant of PopAt: the song itself is passed for its url.
PopAtSong(t) ==
  /\ At(t, "cb") /\ popAt[t] = "at"
  /\ \/ playlist = <<>> /\ Throw(t)
     \/ playlist # <<>> /\ SlotPlayUrl(t, At0(playlist, 0))
  /\ UNCHANGED <<stt, eng, uri, refused>>

\* return at(0); the song that is now first, not the one removed.
PopAt(t) ==
  /\ At(t, "cb") /\ popAt[t] = "at"
  /\ \/ playlist = <<>> /\ Throw(t)
     \/ playlist # <<>> /\ SlotPlayUrl(t, UrlOf[At0(playlist, 0)])
  /\ UNCHANGED <<stt, eng, uri, refused>>

Pop(t) == t \notin hung /\ (PopSize(t) \/ PopRemove(t) \/ PopAt(t))

-----------------------------------------------------------------------------
(* What the GUI and CLI threads call.                                      *)

playerVars == <<playlist, popAt, hung>>

\* Buttons play, next and prev of the page and the commands player.next and
\* player.prev all come down to mrPlay().
SlotPlay(t) == mrPlay(t) /\ UNCHANGED playerVars
SlotNext(t) == mrPlay(t) /\ UNCHANGED playerVars
SlotPrev(t) == mrPlay(t) /\ UNCHANGED playerVars
SlotPause(t) == mrPause(t) /\ UNCHANGED playerVars
SlotStop(t) == mrStop(t) /\ UNCHANGED playerVars

\* player.play url
CliPlay(p) == mrPlayPath(CLI, p) /\ UNCHANGED playerVars

\* Mutant of Add: push_front.
AddInFront(t, song) ==
  /\ Idle(t)
  /\ Len(playlist) < MaxSongs
  /\ playlist' = <<song>> \o playlist
  /\ UNCHANGED <<pbVars, popAt, hung>>

\* push_back, by a thread that is in no method of Playback.
Add(t, song) ==
  /\ Idle(t)
  /\ Len(playlist) < MaxSongs
  /\ playlist' = Append(playlist, song)
  /\ UNCHANGED <<pbVars, popAt, hung>>

SlotSongAdd(song) == Add(GUI, song)
CliAdd == Add(CLI, CliSong)

SlotSongDel(song) ==
  /\ Idle(GUI)
  /\ playlist' = RemoveSong(playlist, song)
  /\ UNCHANGED <<pbVars, popAt, hung>>

-----------------------------------------------------------------------------
Init ==
  /\ PbInit
  /\ playlist = <<>>
  /\ popAt = [t \in Threads |-> "size"]
  /\ hung = {}

Buttons(t) ==
  SlotPlay(t) \/ SlotNext(t) \/ SlotPrev(t) \/ SlotPause(t) \/ SlotStop(t)

GuiCall ==
  \/ Buttons(GUI)
  \/ \E s \in Songs : SlotSongAdd(s) \/ SlotSongDel(s)

CliCall == Buttons(CLI) \/ CliAdd \/ \E p \in Paths : CliPlay(p)

Engine == (EngineSettles \/ EngineEvent) /\ UNCHANGED playerVars

Run(t) == (PbStep(t) /\ UNCHANGED playerVars) \/ Pop(t)

Next ==
  \/ Engine \/ GuiCall \/ CliCall
  \/ \E t \in Threads : Run(t)
  \/ AtBound /\ UNCHANGED playerVars

Spec == Init /\ [][Next]_vars

\* Threads are scheduled, as long as they do not hang; of the engine nothing is
\* asked.
Fairness == \A t \in Threads : WF_vars(Run(t))

FairSpec == Spec /\ Fairness

-----------------------------------------------------------------------------
(* Properties.                                                             *)

\* Types of the state of Playback and of the state the Player page adds.
TypeOK ==
  /\ PbTypeOK
  /\ playlist \in Seq(AllSongs)
  /\ popAt \in [Threads -> PopCalls]
  /\ hung \in SUBSET Threads

\* The thread is at a point from which it goes on to set BUFFERING or has the
\* engine refuse the start.
Answering(t) ==
  /\ t \notin hung
  /\ stack[t] # <<>>
  /\ \/ Head(stack[t]).pc \in {"notify", "cb", "open", "param", "play"}
     \/ At(t, "set") /\ Arg(t) = "BUFFERING"

\* m_ePBCStt is STOP and nobody is on the way to start a song, although the
\* engine refused nothing.
Dropped == stt = "STOP" /\ ~refused /\ \A t \in Threads : ~Answering(t)

\* A STOP is dropped only by a pop that throws and hangs the thread that was
\* to answer it, and the next STOP is answered again by the others, however
\* the GUI, CLI and engine threads interleave (playback.cpp:128-158,
\* player.cpp:103-112, dbg.cpp:118-124).
StopIsAnswered ==
  [][Dropped' => \/ hung' # hung
                 \/ Dropped /\ ~\E t \in Threads : SetState(t)]_vars

\* A STOP is left again: a song is started, the engine refused it, or the
\* STOP was dropped; a chain of callbacks cannot hang between the two
\* (playback.cpp:128-158, 329-382).
StopIsLeft == stt = "STOP" ~> (stt # "STOP" \/ refused \/ Dropped)

\* With one call or event at a time, and a list that nobody shortens, the
\* song that plays is the first of the play list, the one PlayListView shows
\* on top: pop drops the song that ended and starts the one behind it.
NowPlayingIsFirst ==
  AtRest /\ eng = "playing" /\ uri \notin {NoPath, EmptyUrl} =>
    playlist # <<>> /\ uri = UrlOf[Head(playlist)]

\* With one call or event at a time, the callback takes a song off the list
\* only while the engine is silent: no song is skipped because another one
\* was started behind the notification's back.
SongsLeaveInSilence ==
  [][popAt' # popAt /\ playlist' # playlist => eng = "ready"]_vars

\* test_playlist.cpp:52 "pop() returns a copy of the object": a pop never
\* ends in an exception.
PopReturns == hung = {}
=============================================================================
