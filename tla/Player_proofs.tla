--------------------------- MODULE Player_proofs ----------------------------
(* Proofs about the Player and its play list, for any songs, any bound on   *)
(* the list and on the recursion, and any engine faults.                    *)
EXTENDS MCPlayer, Playback_proofs, PlayListOps_proofs

PlayerInv ==
  /\ PbInv
  /\ playlist \in Seq(AllSongs)
  /\ popAt \in [Threads -> PopCalls]
  /\ hung \in SUBSET Threads

LEMMA PlayerInvTypes == PlayerInv => TypeOK
BY PbInvSplit DEF PlayerInv, TypeOK

LEMMA KnownThreads == GUI \in Threads /\ CLI \in Threads /\ ENG \in Threads
BY PlayerAssumption DEF Threads

\* The url of the first song is a path.
LEMMA FirstUrl ==
  ASSUME PlayerInv, playlist # <<>>
  PROVE  /\ At0(playlist, 0) \in AllSongs
         /\ UrlOf[At0(playlist, 0)] \in Paths
<1>1. Len(playlist) \in Nat \ {0}
  BY EmptySeq DEF PlayerInv
<1>2. playlist[1] \in AllSongs
  BY <1>1, ElementOfSeq DEF PlayerInv
<1>3. At0(playlist, 0) = playlist[1]
  BY DEF At0
<1> QED BY <1>2, <1>3, PlayerAssumption DEF AllSongs

\* A callback that starts a song is one of the callbacks of Playback.
LEMMA SlotPlayUrlStep ==
  ASSUME PlayerInv, NEW t \in Threads, At(t, "cb"), NEW p \in Paths,
         SlotPlayUrl(t, p), UNCHANGED <<stt, eng, uri, refused>>
  PROVE  PlayerInv' /\ ClientOpens(t, p)
<1>1. ClientOpens(t, p)
  BY DEF SlotPlayUrl, ClientOpens
<1>2. PbInv'
  <2>1. PbNext
    BY <1>1 DEF PbNext, ClientStep
  <2> QED BY <2>1, PbNextInv DEF PlayerInv
<1>3. popAt' \in [Threads -> PopCalls]
  BY DEF SlotPlayUrl, PlayerInv, PopCalls
<1> QED BY <1>1, <1>2, <1>3 DEF PlayerInv, SlotPlayUrl

\* pop: a step of the callback is a step of a client of Playback, or none.
LEMMA PopStep ==
  ASSUME PlayerInv, NEW t \in Threads, Pop(t)
  PROVE  PlayerInv' /\ [PbNext]_pbVars
<1>1. ASSUME UNCHANGED pbVars PROVE PbInv'
  BY <1>1, PbNextInv DEF PlayerInv
<1>2. ASSUME NEW p \in Paths, At(t, "cb"), SlotPlayUrl(t, p),
             UNCHANGED <<stt, eng, uri, refused>>
      PROVE  PlayerInv' /\ [PbNext]_pbVars
  BY <1>2, SlotPlayUrlStep DEF PbNext, ClientStep
<1>3. CASE PopSize(t)
  <2>1. CASE playlist = <<>> /\ SlotPlayUrl(t, EmptyUrl)
    BY <1>2, <1>3, <2>1, PlayerAssumption DEF PopSize
  <2>2. CASE /\ popAt' = [popAt EXCEPT ![t] = "remove"]
             /\ UNCHANGED <<stack, playlist, hung>>
    <3>1. UNCHANGED pbVars
      BY <1>3, <2>2 DEF PopSize, pbVars
    <3> QED BY <1>1, <2>2, <3>1 DEF PlayerInv, PopCalls
  <2> QED BY <1>3, <2>1, <2>2 DEF PopSize
<1>4. CASE PopRemove(t)
  <2>1. CASE Throw(t)
    <3>1. UNCHANGED pbVars
      BY <1>4, <2>1 DEF PopRemove, Throw, pbVars
    <3> QED BY <1>1, <2>1, <3>1 DEF PlayerInv, Throw
  <2>2. CASE /\ playlist' = RemoveSong(playlist, At0(playlist, 0))
             /\ popAt' = [popAt EXCEPT ![t] = "at"]
             /\ UNCHANGED <<stack, hung>>
    <3>1. UNCHANGED pbVars
      BY <1>4, <2>2 DEF PopRemove, pbVars
    <3>2. playlist' \in Seq(AllSongs)
      BY <2>2, RemoveTakesTheFirst DEF PlayerInv
    <3> QED BY <1>1, <2>2, <3>1, <3>2 DEF PlayerInv, PopCalls
  <2> QED BY <1>4, <2>1, <2>2 DEF PopRemove
<1>5. CASE PopAt(t)
  <2>1. CASE Throw(t)
    <3>1. UNCHANGED pbVars
      BY <1>5, <2>1 DEF PopAt, Throw, pbVars
    <3> QED BY <1>1, <2>1, <3>1 DEF PlayerInv, Throw
  <2>2. CASE playlist # <<>> /\ SlotPlayUrl(t, UrlOf[At0(playlist, 0)])
    BY <1>2, <1>5, <2>2, FirstUrl DEF PopAt
  <2> QED BY <1>5, <2>1, <2>2 DEF PopAt
<1> QED BY <1>3, <1>4, <1>5 DEF Pop

\* What the pages and commands do to the play list.
LEMMA ListStep ==
  ASSUME PlayerInv,
         \/ \E t \in Threads, s \in AllSongs : Add(t, s)
         \/ \E s \in Songs : SlotSongDel(s)
  PROVE  PlayerInv' /\ UNCHANGED pbVars
<1>1. UNCHANGED pbVars
  BY DEF Add, SlotSongDel
<1>2. PbInv'
  BY <1>1, PbNextInv DEF PlayerInv
<1>3. playlist' \in Seq(AllSongs)
  <2>1. ASSUME NEW t \in Threads, NEW s \in AllSongs, Add(t, s)
        PROVE  playlist' \in Seq(AllSongs)
    BY <2>1 DEF Add, PlayerInv
  <2>2. ASSUME NEW s \in Songs, SlotSongDel(s)
        PROVE  playlist' \in Seq(AllSongs)
    BY <2>2, RemoveTakesTheFirst DEF SlotSongDel, PlayerInv
  <2> QED BY <2>1, <2>2
<1> QED BY <1>1, <1>2, <1>3 DEF Add, SlotSongDel, PlayerInv

\* Steps that leave the play list alone.
LEMMA PlaybackStep ==
  ASSUME PlayerInv, PbNext, UNCHANGED playerVars
  PROVE  PlayerInv'
BY PbNextInv DEF PlayerInv, playerVars

LEMMA PlayerInitInv == Init => PlayerInv
BY PbInitInv, EmptySeq DEF Init, PlayerInv, PopCalls

\* A step of the program keeps the types and is a step of Playback.
LEMMA PlayerNext ==
  ASSUME PlayerInv, [Next]_vars
  PROVE  PlayerInv' /\ [PbNext]_pbVars
<1>1. CASE UNCHANGED vars
  <2>1. UNCHANGED pbVars
    BY <1>1 DEF vars
  <2>2. PbInv'
    BY <2>1, PbNextInv DEF PlayerInv
  <2> QED BY <1>1, <2>1, <2>2 DEF vars, PlayerInv
<1>2. CASE Engine
  <2>1. PbNext
    BY <1>2 DEF Engine, PbNext
  <2> QED BY <1>2, <2>1, PlaybackStep DEF Engine
<1>3. ASSUME NEW t \in Users, Buttons(t)
      PROVE  PlayerInv' /\ [PbNext]_pbVars
  <2>1. UserCall(t) /\ UNCHANGED playerVars
    BY <1>3 DEF Buttons, SlotPlay, SlotNext, SlotPrev, SlotPause, SlotStop,
                UserCall
  <2>2. PbNext
    BY <2>1 DEF PbNext
  <2> QED BY <2>1, <2>2, PlaybackStep
<1>4. CASE GuiCall
  <2>1. ASSUME NEW s \in Songs, SlotSongAdd(s) \/ SlotSongDel(s)
        PROVE  PlayerInv' /\ [PbNext]_pbVars
    BY <2>1, ListStep, KnownThreads DEF SlotSongAdd, AllSongs
  <2> QED BY <1>3, <1>4, <2>1, PlayerAssumption DEF GuiCall
<1>5. CASE CliCall
  <2>1. CASE CliAdd
    BY <2>1, ListStep, KnownThreads DEF CliAdd, AllSongs
  <2>2. ASSUME NEW p \in Paths, CliPlay(p)
        PROVE  PlayerInv' /\ [PbNext]_pbVars
    <3>1. PbNext
      BY <2>2, PlayerAssumption DEF CliPlay, UserCall, PbNext
    <3> QED BY <2>2, <3>1, PlaybackStep DEF CliPlay
  <2> QED BY <1>3, <1>5, <2>1, <2>2, PlayerAssumption DEF CliCall
<1>6. ASSUME NEW t \in Threads, Run(t)
      PROVE  PlayerInv' /\ [PbNext]_pbVars
  <2>1. CASE PbStep(t) /\ UNCHANGED playerVars
    BY <2>1, PlaybackStep DEF PbNext
  <2> QED BY <1>6, <2>1, PopStep DEF Run
<1>7. CASE AtBound /\ UNCHANGED playerVars
  BY <1>7, PlaybackStep DEF PbNext
<1> QED BY <1>1, <1>2, <1>4, <1>5, <1>6, <1>7 DEF Next

(* Types of the player, its play list and of Playback under it.             *)
THEOREM PlayerTypes == Spec => []TypeOK
<1>1. PlayerInv /\ [Next]_vars => PlayerInv'
  BY PlayerNext
<1> QED BY <1>1, PlayerInitInv, PlayerInvTypes, PTL DEF Spec

(* player_callback is a client Playback allows for: every behaviour of the  *)
(* player, seen through the members of Playback, is one of Playback with    *)
(* any client, so what holds of the latter holds here.                      *)
THEOREM PlayerIsAClient == Spec => PbSpec
<1>1. Init => PbInit
  BY DEF Init
<1>2. PlayerInv /\ [Next]_vars => PlayerInv' /\ [PbNext]_pbVars
  BY PlayerNext
<1> QED BY <1>1, <1>2, PlayerInitInv, PTL DEF Spec, PbSpec

\* Only a callback is in the middle of a pop, and there a thread hangs.
PopInCallback ==
  \A t \in Threads :
    /\ popAt[t] # "size" => At(t, "cb")
    /\ t \in hung => popAt[t] # "size"

LEMMA InCallback ==
  ASSUME PlayerInv, PopInCallback, [Next]_vars
  PROVE  PopInCallback'
<1> USE DEF At, Idle
<1>1. ASSUME UNCHANGED <<popAt, hung>>, NEW t \in Threads, NEW s, stack' = [stack EXCEPT ![t] = s],
             ~At(t, "cb")
      PROVE  PopInCallback'
  BY <1>1 DEF PopInCallback, Threads, PlayerInv, PbInv, StacksOK
<1>2. ASSUME UNCHANGED <<stack, popAt, hung>> PROVE PopInCallback'
  BY <1>2 DEF PopInCallback, Threads
<1>3. ASSUME NEW t \in Threads, NEW f, Enter(t, f), UNCHANGED <<popAt, hung>> PROVE PopInCallback'
  BY <1>1, <1>3 DEF Enter
<1>4. ASSUME NEW t \in Threads, PbStep(t), UNCHANGED <<popAt, hung>> PROVE PopInCallback'
  <2>1. ~At(t, "cb") /\ \E s : stack' = [stack EXCEPT ![t] = s]
    BY <1>4 DEF PbStep, PlayCall, OpenCheck, OpenParam, PauseCall, PausePoll, StopCall,
                StopPoll, SetState, NotifyProxy, TickCheck, Goto, Return
  <2> QED BY <1>1, <1>4, <2>1
<1>5. ASSUME NEW t \in Threads, Pop(t) PROVE PopInCallback'
  <2>1. At(t, "cb") /\ t \notin hung /\ popAt \in [Threads -> PopCalls]
    BY <1>5 DEF Pop, PopSize, PopRemove, PopAt, PlayerInv
  <2>2. ASSUME NEW c, popAt' = [popAt EXCEPT ![t] = c], UNCHANGED <<stack, hung>>
        PROVE  PopInCallback'
    BY <2>1, <2>2 DEF PopInCallback, Threads
  <2>3. ASSUME NEW p, SlotPlayUrl(t, p) PROVE PopInCallback'
    BY <2>1, <2>3 DEF SlotPlayUrl, Goto, PopInCallback, Threads, PlayerInv, PbInv, StacksOK
  <2>4. CASE popAt[t] # "size" /\ Throw(t)
    BY <2>1, <2>4 DEF Throw, PopInCallback, Threads
  <2> QED BY <1>5, <2>2, <2>3, <2>4 DEF Pop, PopSize, PopRemove, PopAt
<1>6. ASSUME NEW t \in Users, Buttons(t) PROVE PopInCallback'
  BY <1>3, <1>6 DEF Buttons, SlotPlay, SlotNext, SlotPrev, SlotPause, SlotStop, mrPlay,
                    mrPause, mrStop, playerVars, Threads
<1>7. CASE Engine
  BY <1>2, <1>3, <1>7, KnownThreads
     DEF Engine, EngineSettles, EngineEvent, EvtCurTime, EvtEos, EvtError, playerVars
<1>8. CASE GuiCall
  BY <1>2, <1>6, <1>8, PlayerAssumption DEF GuiCall, SlotSongAdd, SlotSongDel, Add, pbVars
<1>9. CASE CliCall
  <2>1. ASSUME NEW p \in Paths, CliPlay(p) PROVE PopInCallback'
    BY <1>3, <2>1, KnownThreads DEF CliPlay, mrPlayPath, playerVars
  <2>2. CASE CliAdd
    BY <1>2, <2>2 DEF CliAdd, Add, pbVars
  <2> QED BY <1>6, <1>9, <2>1, <2>2, PlayerAssumption DEF CliCall
<1>10. CASE (AtBound /\ UNCHANGED playerVars) \/ UNCHANGED vars
  BY <1>2, <1>10 DEF AtBound, pbVars, playerVars, vars
<1> QED BY <1>4, <1>5, <1>7, <1>8, <1>9, <1>10 DEF Next, Run, playerVars

-----------------------------------------------------------------------------
(* No STOP is lost.                                                        *)

Answered == ~Dropped

\* A thread that is in no callback does not hang.
LEMMA HungIsInCallback ==
  ASSUME PopInCallback, NEW t \in Threads, ~At(t, "cb")
  PROVE  t \notin hung
BY DEF PopInCallback

\* A step of t does not stop another thread from answering.
LEMMA OthersStay ==
  ASSUME StacksOK, NEW t \in Threads, NEW s,
         stack' = [stack EXCEPT ![t] = s], UNCHANGED hung,
         NEW u \in Threads, u # t, Answering(u)
  PROVE  Answering(u)'
<1>1. stack'[u] = stack[u]
  BY DEF StacksOK
<1> QED BY <1>1 DEF Answering, At, Arg

\* A thread with one of these frames answers.
LEMMA GotoAnswers ==
  ASSUME StacksOK, NEW t \in Threads, stack[t] # <<>>, t \notin hung',
         NEW f \in Frames, Goto(t, f),
         \/ f.pc \in {"notify", "cb", "open", "param", "play"}
         \/ f.pc = "set" /\ f.arg = "BUFFERING"
  PROVE  Answering(t)'
<1> DEFINE r == <<f>> \o Tail(stack[t])
<1>1. Tail(stack[t]) \in Seq(Frames) /\ <<f>> \in Seq(Frames)
  BY HeadTailProperties DEF StacksOK
<1>2. Len(r) = 1 + Len(Tail(stack[t])) /\ Len(Tail(stack[t])) \in Nat
  BY <1>1, ConcatProperties, LenProperties
<1>3. r \in Seq(Frames) /\ r[1] = f
  BY <1>1, <1>2, ConcatProperties
<1>4. r # <<>> /\ Head(r) = f
  BY <1>2, <1>3
<1>5. stack'[t] = r
  BY DEF Goto, StacksOK
<1> QED BY <1>4, <1>5 DEF Answering, At, Arg

\* While the state stays STOP, a thread that was not answering cannot be the
\* one that was.
LEMMA SomeoneElse ==
  ASSUME StacksOK, Answered, NEW t \in Threads, ~Answering(t), NEW s,
         stack' = [stack EXCEPT ![t] = s],
         UNCHANGED <<stt, refused, hung>>
  PROVE  Answered'
<1> SUFFICES ASSUME stt = "STOP", ~refused
             PROVE  (\E u \in Threads : Answering(u))'
  BY DEF Answered, Dropped
<1>1. PICK u \in Threads : Answering(u)
  BY DEF Answered, Dropped
<1>2. Answering(u)'
  BY <1>1, OthersStay
<1>3. Threads' = Threads
  BY DEF Threads
<1> QED BY <1>2, <1>3

\* Steps that leave the state, the stacks and the refusals alone.
LEMMA NothingAnswered ==
  ASSUME Answered, UNCHANGED <<stt, stack, refused, hung>>
  PROVE  Answered'
BY DEF Answered, Dropped, Answering, At, Arg, Threads

\* A thread answers after its step.
LEMMA ThisOneAnswers ==
  ASSUME NEW t \in Threads, Answering(t)'
  PROVE  Answered'
BY DEF Answered, Dropped, Threads

LEMMA StepAnswered ==
  ASSUME StacksOK, PopInCallback, Answered, NEW t \in Threads, PbStep(t), UNCHANGED hung
  PROVE  Answered'
<1>0. t \notin hung'
  <2>1. ~At(t, "cb")
    BY DEF PbStep, PlayCall, OpenCheck, OpenParam, PauseCall, PausePoll, StopCall,
           StopPoll, SetState, NotifyProxy, TickCheck, At
  <2> QED BY <2>1, HungIsInCallback
<1> USE <1>0 DEF At
<1>1. CASE PlayCall(t)
  <2>1. CASE Goto(t, Frame("set", "BUFFERING"))
    <3>1. Answering(t)'
      BY <1>1, <2>1, GotoAnswers, PlainFrames DEF PlayCall, PBCStates, Frame
    <3> QED BY <3>1, ThisOneAnswers
  <2>2. CASE refused' = TRUE
    BY <2>2 DEF Answered, Dropped
  <2> QED BY <1>1, <2>1, <2>2 DEF PlayCall
<1>2. CASE OpenCheck(t)
  <2>1. Arg(t) \in Paths
    BY <1>2, Arguments DEF OpenCheck
  <2>2. CASE Goto(t, Frame("param", Arg(t)))
    <3>1. Answering(t)'
      BY <1>2, <2>1, <2>2, GotoAnswers, PlainFrames DEF OpenCheck, Frame
    <3> QED BY <3>1, ThisOneAnswers
  <2>3. CASE stt \notin {"STOP", "IDLE"}
    BY <1>2, <2>3 DEF OpenCheck, Answered, Dropped
  <2> QED BY <1>2, <2>2, <2>3 DEF OpenCheck
<1>3. CASE OpenParam(t)
  <2>1. CASE Goto(t, Plain("play"))
    <3>1. Answering(t)'
      BY <1>3, <2>1, GotoAnswers, PlainFrames
         DEF OpenParam, PlainPCs, Plain, Frame
    <3> QED BY <3>1, ThisOneAnswers
  <2>2. CASE refused' = TRUE
    BY <2>2 DEF Answered, Dropped
  <2> QED BY <1>3, <2>1, <2>2 DEF OpenParam
<1>4. CASE PauseCall(t)
  <2>1. ~Answering(t)
    BY <1>4 DEF PauseCall, Answering
  <2> QED BY <1>4, <2>1, SomeoneElse DEF PauseCall, Goto, Return
<1>5. CASE PausePoll(t)
  <2>1. ~Answering(t)
    BY <1>5 DEF PausePoll, Answering
  <2> QED BY <1>5, <2>1, SomeoneElse DEF PausePoll, Goto
<1>6. CASE StopCall(t)
  <2>1. ~Answering(t)
    BY <1>6 DEF StopCall, Answering
  <2> QED BY <1>6, <2>1, SomeoneElse DEF StopCall, Goto
<1>7. CASE StopPoll(t)
  <2>1. ~Answering(t)
    BY <1>7 DEF StopPoll, Answering
  <2> QED BY <1>7, <2>1, SomeoneElse DEF StopPoll, Goto
<1>8. CASE SetState(t)
  <2>1. Answering(t)'
    BY <1>8, GotoAnswers, PlainFrames DEF SetState, PlainPCs, Plain, Frame
  <2> QED BY <2>1, ThisOneAnswers
<1>9. CASE NotifyProxy(t)
  <2>1. CASE stt = "STOP"
    <3>1. Answering(t)'
      BY <1>9, <2>1, GotoAnswers, PlainFrames
         DEF NotifyProxy, PlainPCs, Plain, Frame
    <3> QED BY <3>1, ThisOneAnswers
  <2>2. CASE stt # "STOP"
    BY <1>9, <2>2 DEF NotifyProxy, Answered, Dropped
  <2> QED BY <2>1, <2>2
<1>10. CASE TickCheck(t)
  <2>1. ~Answering(t)
    BY <1>10 DEF TickCheck, Answering
  <2> QED BY <1>10, <2>1, SomeoneElse DEF TickCheck, Goto, Return
<1> QED
  BY <1>1, <1>2, <1>3, <1>4, <1>5, <1>6, <1>7, <1>8, <1>9, <1>10 DEF PbStep

\* A thread that enters Playback was in no method and answered nothing.
LEMMA EntryAnswered ==
  ASSUME StacksOK, Answered, NEW t \in Threads, NEW f, Enter(t, f),
         UNCHANGED <<stt, refused, hung>>
  PROVE  Answered'
<1>1. ~Answering(t)
  BY DEF Enter, Idle, Answering, At
<1> QED BY <1>1, SomeoneElse DEF Enter

\* The callback goes on, or pop throws.
LEMMA PopAnswered ==
  ASSUME StacksOK, Answered, PlayerInv, NEW t \in Threads, Pop(t)
  PROVE  Answered' \/ hung' # hung
<1>1. ASSUME NEW p \in Paths, At(t, "cb"), SlotPlayUrl(t, p)
      PROVE  Answered'
  <2>1. t \notin hung'
    BY <1>1 DEF SlotPlayUrl, Pop
  <2>2. Answering(t)'
    BY <1>1, <2>1, GotoAnswers, PlainFrames DEF SlotPlayUrl, At, Frame
  <2> QED BY <2>2, ThisOneAnswers
<1>2. CASE PopSize(t)
  BY <1>1, <1>2, NothingAnswered, PlayerAssumption DEF PopSize
<1>3. CASE Throw(t)
  BY <1>3 DEF Pop, Throw
<1>4. CASE PopRemove(t)
  BY <1>3, <1>4, NothingAnswered DEF PopRemove
<1>5. CASE PopAt(t)
  BY <1>1, <1>3, <1>5, NothingAnswered, FirstUrl DEF PopAt
<1> QED BY <1>2, <1>4, <1>5 DEF Pop

\* Who drops a STOP that was answered.
LEMMA NextAnswered ==
  ASSUME PlayerInv, PopInCallback, Answered, [Next]_vars
  PROVE  Answered' \/ hung' # hung
<1> USE DEF playerVars
<1>1. StacksOK
  BY DEF PlayerInv, PbInv
<1>2. CASE UNCHANGED vars
  BY <1>2, NothingAnswered DEF vars, pbVars
<1>3. CASE Engine
  BY <1>1, <1>3, NothingAnswered, EntryAnswered, KnownThreads
     DEF Engine, EngineSettles, EngineEvent, EvtCurTime, EvtEos, EvtError
<1>4. ASSUME NEW t \in Users, Buttons(t) PROVE Answered'
  <2>1. t \in Threads
    BY DEF Threads
  <2> QED BY <1>1, <1>4, <2>1, EntryAnswered
          DEF Buttons, SlotPlay, SlotNext, SlotPrev, SlotPause, SlotStop,
              mrPlay, mrPause, mrStop
<1>5. CASE GuiCall
  BY <1>4, <1>5, NothingAnswered, PlayerAssumption
     DEF GuiCall, SlotSongAdd, SlotSongDel, Add, pbVars
<1>6. CASE CliCall
  <2>1. ASSUME NEW p \in Paths, CliPlay(p) PROVE Answered'
    BY <1>1, <2>1, EntryAnswered, KnownThreads DEF CliPlay, mrPlayPath
  <2>2. CASE CliAdd
    BY <2>2, NothingAnswered DEF CliAdd, Add, pbVars
  <2> QED BY <1>4, <1>6, <2>1, <2>2, PlayerAssumption DEF CliCall
<1>7. ASSUME NEW t \in Threads, Run(t) PROVE Answered' \/ hung' # hung
  BY <1>1, <1>7, StepAnswered, PopAnswered DEF Run
<1>8. CASE AtBound /\ UNCHANGED playerVars
  BY <1>8, NothingAnswered DEF AtBound, pbVars
<1> QED BY <1>2, <1>3, <1>5, <1>6, <1>7, <1>8 DEF Next

\* Whoever sets the state goes on to the notification.
LEMMA SetAnswered ==
  ASSUME PlayerInv, PopInCallback, NEW t \in Threads, SetState(t)
  PROVE  Answered' \/ hung' # hung
<1> SUFFICES ASSUME UNCHANGED hung PROVE Answered'
  OBVIOUS
<1>1. stack[t] # <<>> /\ ~At(t, "cb") /\ Goto(t, Plain("notify"))
  BY DEF SetState, At
<1>2. t \notin hung'
  BY <1>1, HungIsInCallback
<1>3. Answering(t)'
  BY <1>1, <1>2, GotoAnswers, PlainFrames DEF PlayerInv, PbInv, PlainPCs, Plain, Frame
<1> QED BY <1>3, ThisOneAnswers

(* However the GUI, CLI and engine threads interleave, a STOP written to    *)
(* m_ePBCStt is answered (playback.cpp:128-158, player.cpp:103-112): some   *)
(* thread that does not hang is on its way to start a song, or the engine   *)
(* refused to, until the one that was on its way hangs in pop, which throws *)
(* (playlist.h:51-52, dbg.cpp:118-124); and the STOP after that is answered *)
(* again.                                                                   *)
THEOREM NoStopIsLost == Spec => StopIsAnswered
<1>1. Init => PopInCallback
  BY DEF Init, PopInCallback
<1>2. PlayerInv /\ PopInCallback /\ [Next]_vars =>
        [Dropped' => \/ hung' # hung
                     \/ Dropped /\ ~\E t \in Threads : SetState(t)]_vars
  BY NextAnswered, SetAnswered DEF Answered
<1>3. PlayerInv /\ PopInCallback /\ [Next]_vars => PlayerInv' /\ PopInCallback'
  BY PlayerNext, InCallback
<1> QED BY <1>1, <1>2, <1>3, PlayerInitInv, PTL DEF Spec, StopIsAnswered

(* Before any pop has thrown every STOP is answered: a thread is on its way *)
(* to start a song, or the engine refused to (playback.cpp:128-158,         *)
(* player.cpp:103-112).                                                     *)
THEOREM DroppedOnlyByPop == Spec => [](hung = {} => ~Dropped)
<1> DEFINE Inv == PlayerInv /\ PopInCallback /\ (hung = {} => Answered)
<1>1. Init => Inv
  BY PlayerInitInv DEF Init, PbInit, PopInCallback, Answered, Dropped
<1>2. Inv /\ [Next]_vars => Inv'
  <2> SUFFICES ASSUME Inv, [Next]_vars PROVE Inv'
    OBVIOUS
  <2>1. PlayerInv' /\ PopInCallback'
    BY PlayerNext, InCallback
  <2>2. hung \subseteq hung'
    BY DEF Next, Engine, GuiCall, CliCall, CliPlay, Buttons, SlotPlay, SlotNext, SlotPrev,
           SlotPause, SlotStop, SlotSongAdd, SlotSongDel, CliAdd, Add, Run, Pop, PopSize,
           PopRemove, PopAt, SlotPlayUrl, Throw, playerVars, vars
  <2>3. hung' = {} => Answered'
    BY <2>2, NextAnswered
  <2> QED BY <2>1, <2>3
<1>3. Inv => (hung = {} => ~Dropped)
  BY DEF Answered
<1> QED BY <1>1, <1>2, <1>3, PTL DEF Spec

-----------------------------------------------------------------------------
(* Calls and events one at a time: pop is atomic.                          *)

\* One thread at most is inside, only a callback is in a pop, and what pop
\* found in the list is still there when it removes it.
SerialInv ==
  /\ \A t, u \in Threads : ~Idle(t) /\ ~Idle(u) => t = u
  /\ \A t \in Threads : popAt[t] # "size" => At(t, "cb")
  /\ \A t \in Threads : popAt[t] = "remove" => playlist # <<>>

\* pop of thread t has removed a song and wants the next.
Wanting == \E t \in Threads : popAt[t] = "at" /\ playlist = <<>>

LEMMA SameRemove == \A l, s : PL!RemoveSong(l, s) = RemoveSong(l, s)
BY DEF PL!RemoveSong, RemoveSong, PL!RemoveFirst, RemoveFirst, PL!RemoveAt, RemoveAt,
       PL!SelectInSeq, SelectInSeq, PL!Min, Min

\* Steps of Playback: they are nothing to the list, and a thread that takes
\* one was alone and not in a callback, or at rest.
LEMMA StackStep ==
  ASSUME PlayerInv, SerialInv, UNCHANGED playerVars, NEW t \in Threads, NEW s,
         stack' = [stack EXCEPT ![t] = s],
         \/ ~Idle(t) /\ ~At(t, "cb")
         \/ Idle(t) /\ (~Idle(t)' => AtRest)
  PROVE  SerialInv' /\ UNCHANGED PL!vars
<1>1. \A u \in Threads : u # t => stack'[u] = stack[u]
  BY DEF PlayerInv, PbInv, StacksOK
<1>2. popAt[t] = "size"
  BY DEF SerialInv, Idle, At
<1>3. \A u \in Threads : popAt[u] # "size" => At(u, "cb")'
  BY <1>1, <1>2 DEF SerialInv, At
<1>4. ASSUME NEW u \in Threads, NEW v \in Threads, ~Idle(u)', ~Idle(v)'
      PROVE  u = v
  BY <1>1, <1>4 DEF SerialInv, Idle, AtRest
<1>5. UNCHANGED <<playlist, popAt, hung>>
  BY DEF playerVars
<1> QED BY <1>3, <1>4, <1>5 DEF SerialInv, PL!vars

LEMMA PlaybackAtomic ==
  ASSUME PlayerInv, SerialInv, UNCHANGED playerVars, FarApart,
         \/ Engine \/ AtBound
         \/ \E t \in Threads : UserCall(t) \/ PbStep(t)
  PROVE  SerialInv' /\ UNCHANGED PL!vars
<1> USE DEF At, Idle
<1>1. ASSUME UNCHANGED stack PROVE SerialInv' /\ UNCHANGED PL!vars
  BY <1>1 DEF SerialInv, PL!vars, playerVars
<1>2. ASSUME NEW t \in Threads, NEW f, Enter(t, f)
      PROVE  SerialInv' /\ UNCHANGED PL!vars
  <2>1. Idle(t) /\ (~Idle(t)' => AtRest)
    BY <1>2 DEF Enter, FarApart, OneAtATime
  <2>2. stack' = [stack EXCEPT ![t] = <<f>>]
    BY <1>2 DEF Enter
  <2> QED BY <2>1, <2>2, StackStep
<1>3. ASSUME NEW t \in Threads, PbStep(t)
      PROVE  SerialInv' /\ UNCHANGED PL!vars
  <2>1. ~Idle(t) /\ ~At(t, "cb")
    BY <1>3 DEF PbStep, PlayCall, OpenCheck, OpenParam, PauseCall, PausePoll, StopCall,
                StopPoll, SetState, NotifyProxy, TickCheck
  <2>2. \E s : stack' = [stack EXCEPT ![t] = s]
    BY <1>3 DEF PbStep, PlayCall, OpenCheck, OpenParam, PauseCall, PausePoll, StopCall,
                StopPoll, SetState, NotifyProxy, TickCheck, Goto, Return
  <2> QED BY <2>1, <2>2, StackStep
<1>4. CASE Engine
  <2>1. CASE EngineSettles
    BY <1>1, <2>1 DEF EngineSettles
  <2>2. CASE EngineEvent
    BY <1>2, <2>2, KnownThreads DEF EngineEvent, EvtCurTime, EvtEos, EvtError
  <2> QED BY <1>4, <2>1, <2>2 DEF Engine
<1>5. CASE AtBound
  BY <1>1, <1>5 DEF AtBound, pbVars
<1>6. ASSUME NEW t \in Threads, UserCall(t)
      PROVE  SerialInv' /\ UNCHANGED PL!vars
  BY <1>2, <1>6 DEF UserCall, mrPlay, mrPause, mrResume, mrStop, mrPlayPath
<1> QED BY <1>3, <1>4, <1>5, <1>6

\* The calls of pop, when nobody else is inside.
LEMMA PopAtomic ==
  ASSUME PlayerInv, SerialInv, NEW t \in Threads, Pop(t)
  PROVE  SerialInv' /\ (PL!pop \/ UNCHANGED PL!vars)
<1> USE DEF Idle
<1>0. /\ ~Idle(t) /\ At(t, "cb")
      /\ popAt \in [Threads -> PopCalls] /\ playlist \in Seq(AllSongs)
      /\ \A u \in Threads : u # t => Idle(u) /\ popAt[u] = "size"
  BY DEF Pop, PopSize, PopRemove, PopAt, At, SerialInv, PlayerInv
<1>1. ASSUME NEW p, SlotPlayUrl(t, p)
      PROVE  /\ SerialInv'
             /\ ~(popAt[t] = "at" /\ playlist = <<>>) => UNCHANGED PL!vars
  <2>1. /\ \A u \in Threads : u # t => stack'[u] = stack[u]
        /\ \A u \in Threads : popAt'[u] = "size"
        /\ UNCHANGED <<playlist, hung>>
    BY <1>0, <1>1 DEF SlotPlayUrl, Goto, PlayerInv, PbInv, StacksOK
  <2>2. SerialInv'
    BY <1>0, <2>1 DEF SerialInv
  <2>3. ~(popAt[t] = "at" /\ playlist = <<>>) => UNCHANGED PL!vars
    BY <1>0, <2>1 DEF PL!vars
  <2> QED BY <2>2, <2>3
<1>2. CASE PopSize(t)
  <2>1. CASE SlotPlayUrl(t, EmptyUrl)
    BY <1>1, <1>2, <2>1 DEF PopSize
  <2>2. CASE /\ playlist # <<>> /\ popAt' = [popAt EXCEPT ![t] = "remove"]
             /\ UNCHANGED <<stack, playlist, hung>>
    <3>1. \A u \in Threads : popAt'[u] = IF u = t THEN "remove" ELSE popAt[u]
      BY <1>0, <2>2
    <3>2. SerialInv'
      BY <1>0, <2>2, <3>1 DEF SerialInv, At
    <3>3. UNCHANGED PL!vars
      BY <1>0, <2>2, <3>1 DEF PL!vars
    <3> QED BY <3>2, <3>3
  <2> QED BY <1>2, <2>1, <2>2 DEF PopSize
<1>3. CASE PopRemove(t)
  <2>1. /\ playlist # <<>>
        /\ playlist' = RemoveSong(playlist, At0(playlist, 0))
        /\ popAt' = [popAt EXCEPT ![t] = "at"]
        /\ UNCHANGED <<stack, hung>>
    BY <1>3 DEF PopRemove, SerialInv
  <2>2. \A u \in Threads : popAt'[u] = IF u = t THEN "at" ELSE popAt[u]
    BY <1>0, <2>1
  <2>3. SerialInv'
    BY <1>0, <2>1, <2>2 DEF SerialInv, At
  <2>4. Wanting' = (playlist' = <<>>)
    BY <2>1, <2>2 DEF Wanting
  <2>5. PL!pop
    BY <2>1, <2>4, SameRemove DEF PL!pop, PL!At0, At0, Wanting
  <2> QED BY <2>3, <2>5
<1>4. CASE PopAt(t)
  <2>1. CASE playlist = <<>> /\ Throw(t)
    BY <1>4, <2>1 DEF PopAt, Throw, SerialInv, At, PL!vars
  <2>2. CASE playlist # <<>> /\ SlotPlayUrl(t, UrlOf[At0(playlist, 0)])
    BY <1>1, <2>2
  <2> QED BY <1>4, <2>1, <2>2 DEF PopAt
<1> QED BY <1>2, <1>3, <1>4 DEF Pop

\* What the pages and commands do to the list.
LEMMA ListAtomic ==
  ASSUME PlayerInv, SerialInv, FarApart,
         \/ \E t \in Threads, s \in AllSongs : Add(t, s)
         \/ \E s \in Songs : SlotSongDel(s)
  PROVE  SerialInv' /\ (PL!Next \/ UNCHANGED PL!vars)
<1> USE DEF Idle, At
<1>0. playlist \in Seq(AllSongs)
  BY DEF PlayerInv
<1>1. ASSUME NEW t \in Threads, NEW s \in AllSongs, Add(t, s)
      PROVE  SerialInv' /\ PL!Next
  <2>1. /\ Len(playlist) < MaxSongs /\ playlist' = Append(playlist, s)
        /\ UNCHANGED <<stack, popAt, hung>>
    BY <1>1 DEF Add, pbVars
  <2>2. playlist' # <<>>
    BY <1>0, <2>1, AppendProperties
  <2>3. SerialInv'
    BY <2>1, <2>2 DEF SerialInv
  <2>4. PL!append(s)
    BY <2>1, <2>2 DEF PL!append
  <2> QED BY <2>3, <2>4 DEF PL!Next
<1>2. ASSUME NEW s \in Songs, SlotSongDel(s)
      PROVE  SerialInv' /\ PL!Next
  <2>1. playlist' = RemoveSong(playlist, s) /\ UNCHANGED <<stack, popAt, hung>>
    BY <1>2 DEF SlotSongDel, pbVars
  <2>2. playlist' = playlist \/ Len(playlist') = Len(playlist) - 1
    BY <1>0, <2>1, RemoveTakesTheFirst
  <2>3. playlist' = playlist \/ \A t \in Threads : popAt[t] = "size"
    <3>1. CASE Len(playlist') = Len(playlist) - 1
      <4>1. AtRest
        BY <1>0, <2>1, <3>1, LenProperties DEF FarApart
      <4> QED BY <4>1 DEF AtRest, SerialInv
    <3> QED BY <2>2, <3>1
  <2>4. SerialInv'
    BY <2>1, <2>3 DEF SerialInv
  <2>5. PL!remove(s)
    BY <2>1, <2>3, SameRemove DEF PL!remove
  <2> QED BY <2>4, <2>5 DEF PL!Next, AllSongs
<1> QED BY <1>1, <1>2

LEMMA SerialStep ==
  ASSUME PlayerInv, SerialInv, [SerialNext]_mcVars
  PROVE  SerialInv' /\ [PL!Next]_(PL!vars)
<1>1. CASE UNCHANGED mcVars
  BY <1>1 DEF mcVars, vars, pbVars, SerialInv, At, Idle, PL!vars
<1>2. CASE SerialNext
  <2> USE KnownThreads, PlayerAssumption
  <2>0. Next /\ FarApart /\ \A t \in Users : t \in Threads
    BY <1>2 DEF SerialNext, Next, Threads
  <2>1. CASE Engine
    BY <2>0, <2>1, PlaybackAtomic DEF Engine
  <2>2. ASSUME NEW t \in Users, Buttons(t) PROVE SerialInv' /\ [PL!Next]_(PL!vars)
    <3>1. UserCall(t) /\ UNCHANGED playerVars
      BY <2>2 DEF Buttons, SlotPlay, SlotNext, SlotPrev, SlotPause, SlotStop, UserCall
    <3> QED BY <2>0, <3>1, PlaybackAtomic
  <2>3. CASE GuiCall
    <3>1. ASSUME NEW s \in Songs, SlotSongAdd(s) \/ SlotSongDel(s)
          PROVE  SerialInv' /\ [PL!Next]_(PL!vars)
      BY <2>0, <3>1, ListAtomic DEF SlotSongAdd, AllSongs
    <3> QED BY <2>2, <2>3, <3>1 DEF GuiCall
  <2>4. CASE CliCall
    <3>1. CASE CliAdd
      BY <2>0, <3>1, ListAtomic DEF CliAdd, AllSongs
    <3>2. ASSUME NEW p \in Paths, CliPlay(p) PROVE SerialInv' /\ [PL!Next]_(PL!vars)
      <4>1. UserCall(CLI) /\ UNCHANGED playerVars
        BY <3>2 DEF CliPlay, UserCall
      <4> QED BY <2>0, <4>1, PlaybackAtomic
    <3> QED BY <2>2, <2>4, <3>1, <3>2 DEF CliCall
  <2>5. ASSUME NEW t \in Threads, Run(t) PROVE SerialInv' /\ [PL!Next]_(PL!vars)
    <3>1. CASE PbStep(t) /\ UNCHANGED playerVars
      BY <2>0, <3>1, PlaybackAtomic
    <3>2. CASE Pop(t)
      BY <2>0, <3>2, PopAtomic DEF PL!Next
    <3> QED BY <2>5, <3>1, <3>2 DEF Run
  <2>6. CASE AtBound /\ UNCHANGED playerVars
    BY <2>0, <2>6, PlaybackAtomic
  <2> QED BY <2>0, <2>1, <2>3, <2>4, <2>5, <2>6 DEF Next
<1> QED BY <1>1, <1>2

\* A callback that changes the list takes the step of pop.
LEMMA CallbackPops ==
  ASSUME PlayerInv, SerialInv, Next, popAt' # popAt, playlist' # playlist
  PROVE  PL!pop
<1>1. PICK t \in Threads : Pop(t)
  BY DEF Next, Engine, GuiCall, CliCall, CliPlay, Buttons, SlotPlay, SlotNext, SlotPrev,
         SlotPause, SlotStop, SlotSongAdd, SlotSongDel, CliAdd, Add, Run, playerVars
<1> QED BY <1>1, PopAtomic DEF PL!vars

(* With calls and events far apart the three calls of PlayList::pop are the *)
(* one operation the class promises: whenever the callback changes the list *)
(* it takes the first song and no other, and is left wanting a song exactly *)
(* when it took the last and nobody appended one since (playlist.h:42-53).  *)
THEOREM PopTakesOneStep == SerialSpec => PopIsAtomic
<1>1. SerialInit => PlayerInv /\ SerialInv /\ PL!Init
  <2> SUFFICES ASSUME SerialInit PROVE PlayerInv /\ SerialInv /\ PL!Init
    OBVIOUS
  <2>1. /\ \A t \in Threads : Idle(t) /\ popAt[t] = "size"
        /\ playlist = <<>>
    BY DEF SerialInit, Init, PbInit, Idle
  <2> QED BY <2>1, PlayerInitInv DEF SerialInit, SerialInv, PL!Init
<1>2. PlayerInv /\ SerialInv /\ [SerialNext]_mcVars =>
        PlayerInv' /\ SerialInv' /\ [PL!Next]_(PL!vars)
  <2>1. [SerialNext]_mcVars => [Next]_vars
    BY DEF SerialNext, mcVars
  <2> QED BY <2>1, PlayerNext, SerialStep
<1>3. PlayerInv /\ SerialInv /\ [SerialNext]_mcVars =>
        [popAt' # popAt /\ playlist' # playlist => PL!pop]_vars
  BY CallbackPops DEF SerialNext, mcVars, vars
<1> QED BY <1>1, <1>2, <1>3, PTL DEF SerialSpec, PopIsAtomic, PL!Spec

-----------------------------------------------------------------------------
(* Calls and events one at a time: what leaves the list, and what plays.   *)

LEMMA SerialCallInv ==
  ASSUME PlayerInv, CallInv, [SerialNext]_mcVars
  PROVE  CallInv'
<1>1. [PbNext]_pbVars
  BY PlayerNext DEF SerialNext, mcVars
<1>2. OneAtATime
  BY DEF SerialNext, FarApart, OneAtATime, mcVars, vars, pbVars, Idle
<1> QED BY <1>1, <1>2, CallInvNext DEF PlayerInv

LEMMA SerialStart == SerialInit => PlayerInv /\ SerialInv /\ CallInv
<1> SUFFICES ASSUME SerialInit PROVE PlayerInv /\ SerialInv /\ CallInv
  OBVIOUS
<1>1. \A t \in Threads : Idle(t) /\ popAt[t] = "size"
  BY DEF SerialInit, Init, PbInit, Idle
<1> QED BY <1>1, PlayerInitInv, CallInvInit DEF SerialInit, Init, SerialInv

(* With calls and events far apart, and an engine that settles within the   *)
(* polls, the callback takes a song off the list only while the engine is   *)
(* silent (playback.cpp:128-158, playlist.h:42-53): the STOP it answers was *)
(* set after the engine had stopped.                                        *)
THEOREM SongsAreNotCutOff ==
  ASSUME "late" \notin Faults
  PROVE  SerialSpec => SongsLeaveInSilence
<1>1. PlayerInv /\ CallInv /\ [SerialNext]_mcVars =>
        [popAt' # popAt /\ playlist' # playlist => eng = "ready"]_vars
  <2> SUFFICES ASSUME PlayerInv, CallInv, SerialNext,
                      popAt' # popAt, playlist' # playlist
               PROVE  eng = "ready"
    BY DEF mcVars, vars
  <2>1. PICK t \in Threads : At(t, "cb")
    BY DEF SerialNext, Next, Engine, GuiCall, CliCall, CliPlay, Buttons, SlotPlay, SlotNext, SlotPrev,
           SlotPause, SlotStop, SlotSongAdd, SlotSongDel, CliAdd, Add, Run, Pop,
           PopSize, PopRemove, PopAt, playerVars
  <2>2. Agrees(stt, eng) /\ stt = "STOP"
    BY <2>1, KnownHere DEF CallInv, ShallowAt, At
  <2> QED BY <2>2 DEF Agrees
<1>2. PlayerInv /\ CallInv /\ [SerialNext]_mcVars => PlayerInv' /\ CallInv'
  <2>1. [SerialNext]_mcVars => [Next]_vars
    BY DEF SerialNext, mcVars
  <2> QED BY <2>1, PlayerNext, SerialCallInv
<1> QED BY <1>1, <1>2, SerialStart, PTL DEF SerialSpec, SongsLeaveInSilence

\* The url is of the song on top of list l, or of no song.
OnTop(url, l) ==
  url \in {NoPath, EmptyUrl} \/ (l # <<>> /\ url = UrlOf[Head(l)])

\* A thread with stack s and call c of pop is about to start another song.
Choosing(s, c) ==
  /\ s # <<>>
  /\ \/ Head(s).pc \in {"open", "param"}
     \/ Head(s).pc = "cb" /\ c = "at"

\* Only callbacks start songs, after a STOP, and always the one on top.
TopAt(s, l, x) ==
  s # <<>> =>
    /\ Tail(s) = <<>>
    /\ Head(s).pc \in {"open", "param"} => OnTop(Head(s).arg, l)
    /\ Head(s).pc \in {"cb", "open"} => x = "STOP"

TopInv ==
  fromTop =>
    /\ \A t \in Threads : TopAt(stack[t], playlist, stt)
    /\ \/ OnTop(uri, playlist)
       \/ \E t \in Threads : Choosing(stack[t], popAt[t])

LEMMA TopMove ==
  ASSUME StacksOK, NEW t \in Threads, Alone(t), NEW s,
         stack' = [stack EXCEPT ![t] = s], TopAt(s, playlist', stt'),
         OnTop(uri', playlist') \/ Choosing(s, popAt'[t])
  PROVE  TopInv'
<1>1. \A u \in Threads : stack'[u] = IF u = t THEN s ELSE <<>>
  BY DEF StacksOK, Alone, Idle
<1> QED BY <1>1 DEF TopInv, TopAt, Threads

\* The innermost frame is the only one: it is replaced, or removed.
LEMMA TopGoto ==
  ASSUME StacksOK, NEW t \in Threads, Alone(t), ~Idle(t), Tail(stack[t]) = <<>>,
         NEW f \in Frames, Goto(t, f),
         f.pc \in {"open", "param"} => OnTop(f.arg, playlist'),
         f.pc \in {"cb", "open"} => stt' = "STOP",
         f.pc \in {"open", "param"} \/ OnTop(uri', playlist')
  PROVE  TopInv'
<1> DEFINE s == <<f>>
<1>1. s # <<>> /\ Head(s) = f /\ Tail(s) = <<>> /\ s \in Seq(Frames)
  OBVIOUS
<1>2. stack' = [stack EXCEPT ![t] = s]
  BY <1>1, ConcatEmptySeq DEF Goto
<1>3. TopAt(s, playlist', stt')
  BY <1>1 DEF TopAt
<1>4. OnTop(uri', playlist') \/ Choosing(s, popAt'[t])
  BY <1>1 DEF Choosing
<1> HIDE DEF s
<1> QED BY <1>2, <1>3, <1>4, TopMove

LEMMA TopReturn ==
  ASSUME StacksOK, NEW t \in Threads, Alone(t), Tail(stack[t]) = <<>>,
         Return(t) \/ stack' = [stack EXCEPT ![t] = <<>>],
         OnTop(uri', playlist')
  PROVE  TopInv'
<1>1. stack' = [stack EXCEPT ![t] = <<>>]
  BY DEF Return, Unwind
<1>2. TopAt(<<>>, playlist', stt')
  BY DEF TopAt
<1> QED BY <1>1, <1>2, TopMove

LEMMA TopStep ==
  ASSUME PlayerInv, CallInv, TopInv, fromTop, ~refused', UNCHANGED playerVars,
         NEW t \in Threads, PbStep(t)
  PROVE  TopInv'
<1> USE DEF playerVars
<1>1. /\ ~Idle(t) /\ ~At(t, "cb") /\ StacksOK /\ Alone(t)
      /\ Tail(stack[t]) = <<>> /\ TopAt(stack[t], playlist, stt)
  <2>1. ~Idle(t) /\ ~At(t, "cb")
    BY DEF PbStep, PlayCall, OpenCheck, OpenParam, PauseCall, PausePoll, StopCall,
           StopPoll, SetState, NotifyProxy, TickCheck, At, Idle
  <2> QED BY <2>1 DEF PlayerInv, PbInv, CallInv, Alone, TopInv, TopAt, Idle
<1>2. Head(stack[t]).pc \notin {"open", "param"} => OnTop(uri, playlist)
  BY <1>1 DEF TopInv, Choosing, Alone, Idle, At
<1>3. CASE OpenCheck(t)
  <2>1. stt = "STOP" /\ OnTop(Arg(t), playlist) /\ Arg(t) \in Paths
    BY <1>1, <1>3, Arguments DEF OpenCheck, At, TopAt, Arg
  <2>2. Frame("param", Arg(t)) \in Frames
    BY <2>1, PlainFrames
  <2>3. Goto(t, Frame("param", Arg(t)))
    BY <1>3, <2>1 DEF OpenCheck
  <2> QED BY <1>1, <2>1, <2>2, <2>3, TopGoto DEF Frame
<1>4. CASE OpenParam(t)
  <2>1. OnTop(Arg(t), playlist)
    BY <1>1, <1>4 DEF OpenParam, At, TopAt, Arg
  <2>2. uri' = Arg(t) /\ Goto(t, Plain("play"))
    BY <1>4 DEF OpenParam
  <2>3. Plain("play") \in Frames /\ Plain("play").pc = "play"
    BY PlainFrames DEF PlainPCs, Plain, Frame
  <2> QED BY <1>1, <2>1, <2>2, <2>3, TopGoto
<1>5. ASSUME UNCHANGED uri, Head(stack[t]).pc \notin {"open", "param"},
             NEW f \in Frames, Goto(t, f), f.pc \notin {"open", "param"},
             f.pc = "cb" => stt' = "STOP"
      PROVE  TopInv'
  <2>1. OnTop(uri', playlist')
    BY <1>2, <1>5
  <2> QED BY <1>1, <1>5, <2>1, TopGoto
<1>6. ASSUME UNCHANGED uri, Head(stack[t]).pc \notin {"open", "param"},
             Return(t) \/ stack' = [stack EXCEPT ![t] = <<>>]
      PROVE  TopInv'
  <2>1. OnTop(uri', playlist')
    BY <1>2, <1>6
  <2> QED BY <1>1, <1>6, <2>1, TopReturn
<1>7. /\ \A pc \in PlainPCs : Plain(pc) \in Frames /\ Plain(pc).pc = pc
      /\ \A x \in PBCStates : Frame("set", x) \in Frames /\ Frame("set", x).pc = "set"
  BY PlainFrames DEF Plain, Frame
<1>8. CASE PlayCall(t)
  BY <1>5, <1>6, <1>7, <1>8 DEF PlayCall, At, PBCStates
<1>9. CASE PauseCall(t)
  BY <1>5, <1>6, <1>7, <1>9 DEF PauseCall, At, PlainPCs
<1>10. CASE PausePoll(t)
  BY <1>5, <1>7, <1>10 DEF PausePoll, At, PBCStates
<1>11. CASE StopCall(t)
  <2>1. Head(stack[t]).pc = "stop" /\ UNCHANGED uri
    BY <1>11 DEF StopCall, At
  <2>2. CASE Goto(t, Plain("stoppoll"))
    BY <1>5, <1>7, <2>1, <2>2 DEF PlainPCs
  <2>3. CASE stack' = [stack EXCEPT ![t] =
                  IF Tail(@) = <<>> THEN <<>> ELSE Unwind(Tail(@))]
    BY <1>1, <1>6, <2>1, <2>3
  <2> QED BY <1>11, <2>2, <2>3 DEF StopCall
<1>12. CASE StopPoll(t)
  BY <1>5, <1>7, <1>12 DEF StopPoll, At, PBCStates
<1>13. CASE SetState(t)
  BY <1>5, <1>7, <1>13 DEF SetState, At, PlainPCs
<1>14. CASE NotifyProxy(t)
  BY <1>5, <1>6, <1>7, <1>14 DEF NotifyProxy, At, PlainPCs
<1>15. CASE TickCheck(t)
  BY <1>5, <1>6, <1>7, <1>15 DEF TickCheck, At, PBCStates
<1> QED BY <1>3, <1>4, <1>8, <1>9, <1>10, <1>11, <1>12, <1>13, <1>14, <1>15 DEF PbStep

\* A button or an event, while nobody is inside.
LEMMA TopEnter ==
  ASSUME PlayerInv, TopInv, fromTop, AtRest, UNCHANGED <<playlist, uri>>,
         NEW t \in Threads, NEW f, f.pc \notin {"open", "param", "cb"}, Enter(t, f)
  PROVE  TopInv'
<1> DEFINE s == <<f>>
<1>1. s # <<>> /\ Head(s) = f /\ Tail(s) = <<>>
  OBVIOUS
<1>2. stack' = [stack EXCEPT ![t] = s]
  BY DEF Enter
<1>3. TopAt(s, playlist', stt')
  BY <1>1 DEF TopAt
<1>4. OnTop(uri', playlist')
  BY DEF TopInv, Choosing, AtRest, Idle
<1>5. Alone(t) /\ StacksOK
  BY DEF AtRest, Alone, PlayerInv, PbInv
<1> HIDE DEF s
<1> QED BY <1>2, <1>3, <1>4, <1>5, TopMove

\* The callback: pop drops the song that played and starts the one behind.
LEMMA TopPop ==
  ASSUME PlayerInv, CallInv, TopInv, fromTop, NEW t \in Threads, Pop(t)
  PROVE  TopInv'
<1>1. /\ At(t, "cb") /\ ~Idle(t) /\ stt = "STOP" /\ StacksOK /\ Alone(t)
      /\ Tail(stack[t]) = <<>> /\ UNCHANGED <<stt, uri>>
  BY DEF Pop, PopSize, PopRemove, PopAt, At, Idle, PlayerInv, PbInv, CallInv, Alone,
         TopInv, TopAt
<1>2. ASSUME NEW p \in Paths, OnTop(p, playlist), SlotPlayUrl(t, p) PROVE TopInv'
  <2>1. Frame("open", p) \in Frames /\ Frame("open", p).arg = p
    BY PlainFrames DEF Frame
  <2>2. Goto(t, Frame("open", p)) /\ UNCHANGED playlist
    BY <1>2 DEF SlotPlayUrl
  <2> QED BY <1>1, <1>2, <2>1, <2>2, TopGoto DEF Frame
<1>3. CASE PopSize(t)
  <2>1. CASE SlotPlayUrl(t, EmptyUrl)
    BY <1>2, <2>1, PlayerAssumption DEF OnTop
  <2>2. CASE popAt' = [popAt EXCEPT ![t] = "remove"] /\ UNCHANGED <<stack, playlist, hung>>
    <3>1. OnTop(uri, playlist)
      BY <1>1, <1>3 DEF PopSize, TopInv, Choosing, Alone, Idle, At
    <3> QED BY <1>1, <2>2, <3>1 DEF TopInv, Threads
  <2> QED BY <1>3, <2>1, <2>2 DEF PopSize
<1>4. CASE PopRemove(t)
  <2>1. CASE Throw(t)
    BY <1>1, <1>4, <2>1 DEF Throw, TopInv, Threads
  <2>2. CASE popAt' = [popAt EXCEPT ![t] = "at"] /\ UNCHANGED stack
    <3>1. \A u \in Threads : stack'[u] = IF u = t THEN stack[t] ELSE <<>>
      BY <1>1, <2>2 DEF Alone, Idle
    <3>2. Choosing(stack'[t], popAt'[t])
      BY <1>1, <2>2 DEF Choosing, At, PlayerInv
    <3>3. \A u \in Threads : TopAt(stack'[u], playlist', stt')
      BY <1>1, <3>1 DEF TopAt, At
    <3> QED BY <3>2, <3>3 DEF TopInv, Threads
  <2> QED BY <1>4, <2>1, <2>2 DEF PopRemove
<1>5. CASE PopAt(t)
  <2>1. CASE Throw(t)
    BY <1>1, <1>5, <2>1 DEF Throw, TopInv, Threads
  <2>2. CASE playlist # <<>> /\ SlotPlayUrl(t, UrlOf[At0(playlist, 0)])
    <3>1. At0(playlist, 0) = Head(playlist)
      BY <2>2 DEF At0, PlayerInv
    <3> QED BY <1>2, <2>2, <3>1, FirstUrl DEF OnTop
  <2> QED BY <1>5, <2>1, <2>2 DEF PopAt
<1> QED BY <1>3, <1>4, <1>5 DEF Pop

LEMMA TopNext ==
  ASSUME PlayerInv, CallInv, TopInv, [SerialNext]_mcVars
  PROVE  TopInv'
<1>1. CASE UNCHANGED mcVars
  BY <1>1 DEF mcVars, vars, pbVars, TopInv, Threads
<1>2. CASE SerialNext
  <2> SUFFICES ASSUME fromTop' PROVE TopInv'
    BY DEF TopInv
  <2>0. /\ fromTop /\ Next /\ ~refused' /\ ~OffTheTop
        /\ \A t \in Threads : Idle(t) /\ ~Idle(t)' => AtRest
    BY <1>2 DEF SerialNext, FarApart, OneAtATime, Next
  <2>1. ASSUME NEW t \in Threads, NEW f, f.pc \notin {"open", "param", "cb"}, Enter(t, f),
               UNCHANGED <<playlist, uri>>
        PROVE  TopInv'
    <3>1. AtRest
      BY <2>0, <2>1 DEF Enter, Idle, PlayerInv, PbInv, StacksOK
    <3> QED BY <2>0, <2>1, <3>1, TopEnter
  <2>2. CASE Engine
    <3>1. CASE EngineSettles
      <4>1. UNCHANGED <<stack, stt, uri, playlist, popAt, hung>>
        BY <2>2, <3>1 DEF Engine, EngineSettles, playerVars
      <4> QED BY <2>0, <4>1 DEF TopInv, Threads
    <3>2. CASE EngineEvent
      BY <2>1, <2>2, <3>2, KnownThreads
         DEF Engine, EngineEvent, EvtCurTime, EvtEos, EvtError, playerVars, Plain, Frame
    <3> QED BY <2>2, <3>1, <3>2 DEF Engine
  <2>3. ASSUME NEW t \in Threads, Buttons(t) PROVE TopInv'
    BY <2>1, <2>3 DEF Buttons, SlotPlay, SlotNext, SlotPrev, SlotPause, SlotStop, mrPlay,
                      mrPause, mrStop, playerVars, Plain, Frame
  <2>4. ASSUME NEW t \in Threads, NEW song \in AllSongs, Add(t, song) PROVE TopInv'
    <3>1. playlist' = Append(playlist, song) /\ UNCHANGED <<pbVars, popAt, hung>>
      BY <2>4 DEF Add
    <3>2. playlist # <<>> => playlist' # <<>> /\ Head(playlist') = Head(playlist)
      BY <3>1, AppendProperties, EmptySeq DEF PlayerInv
    <3>3. ASSUME NEW url, OnTop(url, playlist) PROVE OnTop(url, playlist')
      BY <3>2, <3>3 DEF OnTop
    <3>4. \A u \in Threads : TopAt(stack[u], playlist', stt)
      BY <2>0, <3>3 DEF TopInv, TopAt
    <3>5. \/ OnTop(uri, playlist')
          \/ \E u \in Threads : Choosing(stack[u], popAt[u])
      BY <2>0, <3>3 DEF TopInv
    <3> QED BY <3>1, <3>4, <3>5 DEF TopInv, pbVars, Threads
  <2>5. CASE GuiCall
    BY <2>0, <2>3, <2>4, <2>5, KnownThreads DEF GuiCall, SlotSongAdd, OffTheTop, AllSongs
  <2>6. CASE CliCall
    BY <2>0, <2>3, <2>4, <2>6, KnownThreads DEF CliCall, CliAdd, OffTheTop, AllSongs
  <2>7. ASSUME NEW t \in Threads, Run(t) PROVE TopInv'
    BY <2>0, <2>7, TopStep, TopPop DEF Run
  <2>8. CASE AtBound /\ UNCHANGED playerVars
    BY <2>0, <2>8 DEF AtBound, pbVars, playerVars, TopInv, Threads
  <2> QED BY <2>0, <2>2, <2>5, <2>6, <2>7, <2>8 DEF Next
<1> QED BY <1>1, <1>2

(* As long as calls and events are far apart, nobody removes a song or      *)
(* plays one by its url, and no start is refused, the song the engine was   *)
(* given is the first of the play list (playlist.h:42-53,                   *)
(* player.cpp:93-122): however many songs are appended meanwhile, and       *)
(* whatever else the engine does.                                           *)
THEOREM WhatPlaysIsOnTop == SerialSpec => []PlayedFromTop
<1>1. SerialInit => TopInv
  BY DEF SerialInit, Init, PbInit, TopInv, TopAt, OnTop
<1>2. PlayerInv /\ CallInv /\ TopInv /\ [SerialNext]_mcVars =>
        PlayerInv' /\ CallInv' /\ TopInv'
  <2>1. [SerialNext]_mcVars => [Next]_vars
    BY DEF SerialNext, mcVars
  <2> QED BY <2>1, PlayerNext, SerialCallInv, TopNext
<1>3. TopInv => PlayedFromTop
  BY DEF TopInv, PlayedFromTop, NowPlayingIsFirst, AtRest, Idle, Choosing, OnTop
<1> QED BY <1>1, <1>2, <1>3, SerialStart, PTL DEF SerialSpec

(* The same of every list the program makes: a move forward is undone by    *)
(* the move backward, with equal songs in the list (playlist.h:83-110).     *)
THEOREM ListsMoveForwardAndBack == SerialSpec => []ForwardAndBack
<1>1. PlayerInv => ForwardAndBack
  BY MovedForwardAndBack DEF PlayerInv, ForwardAndBack
<1>2. PlayerInv /\ [SerialNext]_mcVars => PlayerInv'
  <2>1. [SerialNext]_mcVars => [Next]_vars
    BY DEF SerialNext, mcVars
  <2> QED BY <2>1, PlayerNext
<1> QED BY <1>1, <1>2, SerialStart, PTL DEF SerialSpec
-----------------------------------------------------------------------------
(* Calls and events one at a time: the recursion, and how long a call is.  *)

\* A step of the player while calls and events are far apart.
LEMMA FarApartStep ==
  ASSUME PlayerInv, CallInv, [SerialNext]_mcVars
  PROVE  /\ PlayerInv' /\ CallInv'
         /\ [PbNext]_pbVars /\ OneAtATime
<1>1. [Next]_vars
  BY DEF SerialNext, mcVars
<1>2. OneAtATime
  BY DEF SerialNext, FarApart, OneAtATime, mcVars, vars, pbVars, Idle
<1> QED BY <1>1, <1>2, PlayerNext, SerialCallInv

(* The callback of the player keeps the recursion mrPlay -> mrStop ->       *)
(* callback -> pop -> mrPlay at two levels (playback.cpp:338-345,           *)
(* player.cpp:93-122), whatever is in the play list.                        *)
THEOREM PlayerRecursionIsShallow == SerialSpec => []ReentryBounded
<1>1. CallInv => ReentryBounded
  BY DEF CallInv, ShallowAt, ReentryBounded
<1> QED BY <1>1, FarApartStep, SerialStart, PTL DEF SerialSpec

(* Between the calls of the player, m_ePBCStt says that a song plays        *)
(* exactly when the engine plays (playback.cpp:163-220), whatever pop found *)
(* in the play list.                                                        *)
THEOREM PlayerStateIsTheEngines ==
  ASSUME "late" \notin Faults
  PROVE  SerialSpec => []StateAgreesWithEngine
<1>1. CallInv => StateAgreesWithEngine
  BY DEF CallInv, Agrees, StateAgreesWithEngine
<1> QED BY <1>1, FarApartStep, SerialStart, PTL DEF SerialSpec

\* What pop has left to do from its call c.
PopLeft(c) == CASE c = "size" -> 3 [] c = "remove" -> 2 [] c = "at" -> 1

\* What the method that thread t is in has left to do, pop included.
CallLeft(t) == StepsLeft(stack[t], stt, 3, PopLeft(popAt[t]))

LEMMA PopLeftIs ==
  /\ PopLeft("size") = 3 /\ PopLeft("remove") = 2 /\ PopLeft("at") = 1
  /\ \A c \in PopCalls : PopLeft(c) \in 1..3
BY DEF PopLeft, PopCalls

\* The callback goes on.
LEMMA PopFewer ==
  ASSUME PlayerInv, CallInv, NEW t \in Threads, Pop(t)
  PROVE  CallLeft(t)' < CallLeft(t) \/ UNCHANGED <<stack[t], stt, popAt[t]>>
<1>1. /\ At(t, "cb") /\ UNCHANGED stt /\ stack[t] # <<>> /\ PbInv
      /\ popAt \in [Threads -> PopCalls] /\ PopLeft(popAt[t]) \in 1..3
  BY PopLeftIs DEF Pop, PopSize, PopRemove, PopAt, At, PlayerInv
<1>2. ASSUME NEW p \in Paths, SlotPlayUrl(t, p) PROVE CallLeft(t)' < CallLeft(t)
  <2>1. Goto(t, Frame("open", p)) /\ popAt'[t] = "size"
    BY <1>1, <1>2 DEF SlotPlayUrl
  <2>2. 3 \in Nat \ {0} /\ PopLeft(popAt'[t]) \in 1..3
    BY <2>1, PopLeftIs
  <2> QED BY <1>1, <2>1, <2>2, CallbackFewer DEF CallLeft
<1>3. ASSUME UNCHANGED stack, NEW c \in PopCalls, popAt' = [popAt EXCEPT ![t] = c],
             PopLeft(c) < PopLeft(popAt[t])
      PROVE  CallLeft(t)' < CallLeft(t)
  <2>1. popAt'[t] = c /\ stack'[t] = stack[t] /\ Head(stack[t]).pc = "cb"
    BY <1>1, <1>3 DEF At
  <2>2. \A k : PointsLeft(Head(stack[t]), stt, 3, k) = 5 + k
    BY <2>1, PointsAre
  <2>3. CallLeft(t) = 5 + PopLeft(popAt[t]) + (IF Tail(stack[t]) = <<>> THEN 0 ELSE 4)
    BY <1>1, <2>2 DEF CallLeft, StepsLeft
  <2>4. CallLeft(t)' = 5 + PopLeft(c) + (IF Tail(stack[t]) = <<>> THEN 0 ELSE 4)
    BY <1>1, <2>1, <2>2 DEF CallLeft, StepsLeft
  <2>5. PopLeft(c) \in 1..3
    BY PopLeftIs
  <2>6. \A a, b \in 1..3, d \in {0, 4} : a < b => 5 + a + d < 5 + b + d
    OBVIOUS
  <2> QED BY <1>1, <1>3, <2>3, <2>4, <2>5, <2>6
<1>4. CASE PopSize(t)
  <2>1. CASE SlotPlayUrl(t, EmptyUrl)
    BY <1>2, <2>1, PlayerAssumption
  <2>2. CASE popAt' = [popAt EXCEPT ![t] = "remove"] /\ UNCHANGED stack
    BY <1>3, <1>4, <2>2, PopLeftIs DEF PopSize, PopCalls
  <2> QED BY <1>4, <2>1, <2>2 DEF PopSize
<1>5. CASE PopRemove(t)
  <2>1. CASE Throw(t)
    BY <1>1, <2>1 DEF Throw
  <2>2. CASE popAt' = [popAt EXCEPT ![t] = "at"] /\ UNCHANGED stack
    BY <1>3, <1>5, <2>2, PopLeftIs DEF PopRemove, PopCalls
  <2> QED BY <1>5, <2>1, <2>2 DEF PopRemove
<1>6. CASE PopAt(t)
  <2>1. CASE Throw(t)
    BY <1>1, <2>1 DEF Throw
  <2>2. CASE playlist # <<>> /\ SlotPlayUrl(t, UrlOf[At0(playlist, 0)])
    BY <1>2, <2>2, FirstUrl
  <2> QED BY <1>6, <2>1, <2>2 DEF PopAt
<1> QED BY <1>4, <1>5, <1>6 DEF Pop

\* Each step of the player, seen from a thread that is inside.
LEMMA PlayerGoesOn ==
  ASSUME PlayerInv, CallInv, SerialNext, NEW t \in Threads, ~Idle(t)
  PROVE  CallLeft(t)' < CallLeft(t) \/ UNCHANGED <<stack[t], stt, popAt[t]>>
<1> DEFINE Goal == CallLeft(t)' < CallLeft(t) \/ UNCHANGED <<stack[t], stt, popAt[t]>>
<1> SUFFICES Goal
  OBVIOUS
<1>1. PbInv /\ Next /\ OneAtATime /\ popAt[t] \in PopCalls
  BY DEF PlayerInv, SerialNext, FarApart
<1>2. ~(EngineEvent \/ \E u \in Users : UserCall(u))
  BY <1>1, EntriesAreAlone DEF AtRest, PbInv
<1>3. ASSUME UNCHANGED <<stack, stt, popAt>> PROVE Goal
  BY <1>3
<1>4. ASSUME NEW u \in Threads, PbStep(u), UNCHANGED popAt PROVE Goal
  <2>1. u = t /\ 3 \in Nat \ {0} /\ PopLeft(popAt[t]) \in 1..3
    BY <1>1, <1>4, StepsOfOne, PopLeftIs
  <2>2. CallLeft(t)' < CallLeft(t)
    BY <1>1, <1>4, <2>1, StepFewer DEF CallLeft
  <2> QED BY <2>2
<1>5. ASSUME NEW u \in Threads, Pop(u) PROVE Goal
  <2>1. At(u, "cb")
    BY <1>5 DEF Pop, PopSize, PopRemove, PopAt
  <2> QED BY <1>1, <1>5, <2>1, StepsOfOne, PopFewer
<1>6. ASSUME NEW u \in Users, Buttons(u) PROVE FALSE
  BY <1>2, <1>6 DEF Buttons, SlotPlay, SlotNext, SlotPrev, SlotPause, SlotStop, UserCall
<1>7. CASE Engine
  BY <1>2, <1>3, <1>7 DEF Engine, EngineSettles, playerVars
<1>8. CASE GuiCall
  BY <1>3, <1>6, <1>8, PlayerAssumption DEF GuiCall, SlotSongAdd, SlotSongDel, Add, pbVars
<1>9. CASE CliCall
  BY <1>2, <1>3, <1>6, <1>9, PlayerAssumption
     DEF CliCall, CliAdd, Add, CliPlay, UserCall, pbVars
<1>10. CASE AtBound /\ UNCHANGED playerVars
  BY <1>3, <1>10 DEF AtBound, pbVars, playerVars
<1> HIDE DEF Goal
<1> QED BY <1>1, <1>4, <1>5, <1>7, <1>8, <1>9, <1>10 DEF Next, Run, playerVars

(* With calls and events far apart every call of the player comes to its    *)
(* end: 17 steps of its thread at most, through mrStop, the callback, pop   *)
(* and the mrPlay(path) made there (player.cpp:93-122, playlist.h:42-53,    *)
(* playback.cpp:305-520); each step brings the end nearer, unless pop threw *)
(* and the thread hangs.                                                    *)
THEOREM PlayerCallsEnd ==
  /\ SerialSpec => [](\A t \in Threads : CallLeft(t) \in 0..17)
  /\ SerialSpec => [][\A t \in Threads : ~Idle(t) =>
        CallLeft(t)' < CallLeft(t) \/ UNCHANGED <<stack[t], stt, popAt[t]>>]_mcVars
<1>1. PlayerInv /\ CallInv => \A t \in Threads : CallLeft(t) \in 0..17
  <2>1. 3 \in Nat \ {0} /\ 14 + 3 = 17
    OBVIOUS
  <2>2. PlayerInv => PbInv /\ \A t \in Threads : PopLeft(popAt[t]) \in 1..3
    BY PopLeftIs DEF PlayerInv
  <2> QED BY <2>1, <2>2, StepsAreFew DEF CallLeft, PbInv
<1>2. PlayerInv /\ CallInv /\ [SerialNext]_mcVars =>
        [\A t \in Threads : ~Idle(t) =>
           CallLeft(t)' < CallLeft(t) \/ UNCHANGED <<stack[t], stt, popAt[t]>>]_mcVars
  BY PlayerGoesOn
<1>3. PlayerInv /\ CallInv /\ [SerialNext]_mcVars => PlayerInv' /\ CallInv'
  BY FarApartStep
<1> QED BY <1>1, <1>2, <1>3, SerialStart, PTL DEF SerialSpec

(* As long as calls and events are far apart, nobody removes a song or      *)
(* plays one by its url, and no start is refused, the song that pop takes   *)
(* off the list is the one the engine was given last (playlist.h:42-53,     *)
(* player.cpp:93-122), whatever was appended behind it.  Not when that was  *)
(* none, or one without a url: the first pop of all, and the one after the  *)
(* list was found empty, take a song off that was never played.             *)
THEOREM PopTakesTheSongThatPlayed ==
  SerialSpec => [][fromTop' /\ popAt' # popAt /\ playlist' # playlist
                     /\ uri \notin {NoPath, EmptyUrl} =>
                       playlist # <<>> /\ uri = UrlOf[Head(playlist)]]_mcVars
<1>1. ASSUME PlayerInv, CallInv, TopInv, SerialNext,
             fromTop', popAt' # popAt, playlist' # playlist
      PROVE  OnTop(uri, playlist)
  <2>1. fromTop /\ Next
    BY <1>1 DEF SerialNext, Next
  <2>2. PICK t \in Threads : PopRemove(t)
    BY <1>1, <2>1
       DEF Next, Engine, GuiCall, CliCall, CliPlay, Buttons, SlotPlay, SlotNext, SlotPrev,
           SlotPause, SlotStop, SlotSongAdd, SlotSongDel, CliAdd, Add, Run, Pop, PopSize,
           PopAt, SlotPlayUrl, Throw, playerVars
  <2>3. At(t, "cb") /\ popAt[t] = "remove"
    BY <2>2 DEF PopRemove
  <2>4. \A u \in Threads : u # t => stack[u] = <<>>
    BY <1>1, <2>3 DEF CallInv, Idle, At
  <2>5. \A u \in Threads : ~Choosing(stack[u], popAt[u])
    BY <2>3, <2>4 DEF Choosing, At
  <2> QED BY <1>1, <2>1, <2>5 DEF TopInv
<1>2. SerialInit => TopInv
  BY DEF SerialInit, Init, PbInit, TopInv, TopAt, OnTop
<1>3. PlayerInv /\ CallInv /\ TopInv /\ [SerialNext]_mcVars =>
        PlayerInv' /\ CallInv' /\ TopInv'
  BY FarApartStep, TopNext
<1>4. PlayerInv /\ CallInv /\ TopInv /\ [SerialNext]_mcVars =>
        [fromTop' /\ popAt' # popAt /\ playlist' # playlist
           /\ uri \notin {NoPath, EmptyUrl} =>
             playlist # <<>> /\ uri = UrlOf[Head(playlist)]]_mcVars
  BY <1>1 DEF OnTop
<1> QED BY <1>2, <1>3, <1>4, SerialStart, PTL DEF SerialSpec

-----------------------------------------------------------------------------
(* What the pages of module SongSelect see of the player.                  *)

\* There a thread that is not in the middle of a pop is at "none".
SeenAt == [t \in Threads |-> IF popAt[t] = "size" THEN "none" ELSE popAt[t]]

\* SongSelect over the list of the player, its own pages closed.
View == INSTANCE SongSelect WITH
  popAt <- SeenAt, page <- "other",
  DbSongs <- <<>>, RowCount <- 0, ItemNum <- 1,
  songs <- <<>>, marks <- <<>>, resumeAt <- "none", resumeIdx <- 0, items <- <<>>,
  listShown <- FALSE, currentFocus <- 0, lit <- {}, walk <- -1, key <- "none"

\* A slot of the pages of songs, which SongSelect models with its caller: the
\* GUI thread, in no pop, adds or removes a song.
PageChanges ==
  /\ GUI \notin hung /\ SeenAt[GUI] = "none"
  /\ \E s \in Songs :
       \/ Len(playlist) < MaxSongs /\ playlist' = Append(playlist, s)
       \/ playlist' = RemoveSong(playlist, s)
  /\ UNCHANGED <<SeenAt, hung>>

\* What happens to the list is something SongSelect expects.
Expected ==
  \/ View!CliAdd \/ PageChanges
  \/ \E t \in Threads : View!PopSize(t) \/ View!PopRemove(t) \/ View!PopAt(t)

ViewVars == <<playlist, SeenAt, hung>>

LEMMA SeenRemove == \A l, s : View!RemoveSong(l, s) = RemoveSong(l, s)
BY DEF View!RemoveSong, RemoveSong, View!RemoveFirst, RemoveFirst, View!RemoveAt, RemoveAt,
       View!SelectInSeq, SelectInSeq, View!Min, Min

\* A step of pop is a step of SongSelect's pop, or one it does not see.
LEMMA PopExpected ==
  ASSUME PlayerInv, NEW t \in Threads, Pop(t)
  PROVE  [Expected]_ViewVars
<1> USE DEF View!Throw, View!viewVars, View!NULL, View!GuiIdle, View!At0
<1>1. /\ popAt \in [Threads -> PopCalls]
      /\ \A u \in Threads : SeenAt[u] = IF popAt[u] = "size" THEN "none" ELSE popAt[u]
  BY DEF PlayerInv, SeenAt
<1>2. ASSUME NEW c \in PopCalls, popAt' = [popAt EXCEPT ![t] = c]
      PROVE  SeenAt' = [SeenAt EXCEPT ![t] = IF c = "size" THEN "none" ELSE c]
  BY <1>1, <1>2 DEF SeenAt, Threads
<1>3. UNCHANGED popAt => UNCHANGED SeenAt
  BY DEF SeenAt, Threads
<1>4. "size" \in PopCalls /\ "remove" \in PopCalls /\ "at" \in PopCalls
  BY DEF PopCalls
<1>5. CASE PopSize(t)
  <2>1. popAt[t] = "size" /\ SeenAt[t] = "none" /\ t \notin hung
    BY <1>1, <1>5 DEF PopSize, Pop
  <2>2. CASE SlotPlayUrl(t, EmptyUrl)
    <3>1. SeenAt' = [SeenAt EXCEPT ![t] = "none"] /\ UNCHANGED <<playlist, hung>>
      BY <1>2, <1>4, <2>2 DEF SlotPlayUrl
    <3>2. SeenAt' = SeenAt
      BY <2>1, <3>1 DEF SeenAt
    <3> QED BY <3>1, <3>2 DEF ViewVars
  <2>3. CASE /\ playlist # <<>> /\ popAt' = [popAt EXCEPT ![t] = "remove"]
             /\ UNCHANGED <<stack, playlist, hung>>
    <3>1. SeenAt' = [SeenAt EXCEPT ![t] = "remove"]
      BY <1>2, <1>4, <2>3
    <3>2. View!PopSize(t)
      BY <2>1, <2>3, <3>1 DEF View!PopSize
    <3> QED BY <3>2 DEF Expected
  <2> QED BY <1>5, <2>2, <2>3 DEF PopSize
<1>6. CASE PopRemove(t)
  <2>1. popAt[t] = "remove" /\ SeenAt[t] = "remove" /\ t \notin hung
    BY <1>1, <1>6 DEF PopRemove, Pop
  <2>2. CASE playlist = <<>> /\ Throw(t)
    BY <1>3, <2>1, <2>2 DEF Throw, View!PopRemove, Expected
  <2>3. CASE /\ playlist # <<>>
             /\ playlist' = RemoveSong(playlist, At0(playlist, 0))
             /\ popAt' = [popAt EXCEPT ![t] = "at"]
             /\ UNCHANGED <<stack, hung>>
    <3>1. SeenAt' = [SeenAt EXCEPT ![t] = "at"]
      BY <1>2, <1>4, <2>3
    <3>2. View!PopRemove(t)
      BY <2>1, <2>3, <3>1, SeenRemove DEF View!PopRemove, At0
    <3> QED BY <3>2 DEF Expected
  <2> QED BY <1>6, <2>2, <2>3 DEF PopRemove
<1>7. CASE PopAt(t)
  <2>1. popAt[t] = "at" /\ SeenAt[t] = "at" /\ t \notin hung
    BY <1>1, <1>7 DEF PopAt, Pop
  <2>2. CASE playlist = <<>> /\ Throw(t)
    BY <1>3, <2>1, <2>2 DEF Throw, View!PopAt, Expected
  <2>3. CASE playlist # <<>> /\ SlotPlayUrl(t, UrlOf[At0(playlist, 0)])
    <3>1. SeenAt' = [SeenAt EXCEPT ![t] = "none"] /\ UNCHANGED <<playlist, hung>>
      BY <1>2, <1>4, <2>3 DEF SlotPlayUrl
    <3>2. View!PopAt(t)
      BY <2>1, <2>3, <3>1 DEF View!PopAt
    <3> QED BY <3>2 DEF Expected
  <2> QED BY <1>7, <2>2, <2>3 DEF PopAt
<1> QED BY <1>5, <1>6, <1>7 DEF Pop

\* Every other step.
LEMMA StepExpected ==
  ASSUME PlayerInv, PopInCallback, [Next]_vars
  PROVE  [Expected]_ViewVars
<1>1. UNCHANGED popAt => UNCHANGED SeenAt
  BY DEF SeenAt, Threads
<1>2. ASSUME UNCHANGED playerVars PROVE [Expected]_ViewVars
  BY <1>1, <1>2 DEF playerVars, ViewVars
<1>3. ASSUME NEW t \in Threads, Idle(t) PROVE SeenAt[t] = "none" /\ t \notin hung
  BY <1>3 DEF PopInCallback, SeenAt, At, Idle
<1>4. ASSUME NEW t \in Users, Buttons(t) PROVE UNCHANGED playerVars
  BY <1>4 DEF Buttons, SlotPlay, SlotNext, SlotPrev, SlotPause, SlotStop
<1>5. CASE GuiCall
  <2>1. ASSUME NEW s \in Songs, SlotSongAdd(s) \/ SlotSongDel(s) PROVE PageChanges
    BY <1>1, <1>3, <2>1, KnownThreads DEF SlotSongAdd, SlotSongDel, Add, PageChanges
  <2> QED BY <1>2, <1>4, <1>5, <2>1, PlayerAssumption DEF GuiCall, Expected
<1>6. CASE CliCall
  <2>1. CASE CliAdd
    <3>1. View!CliAdd
      BY <1>1, <1>3, <2>1, KnownThreads DEF CliAdd, Add, View!CliAdd, View!viewVars
    <3> QED BY <3>1 DEF Expected
  <2> QED BY <1>2, <1>4, <1>6, <2>1, PlayerAssumption DEF CliCall, CliPlay
<1>7. ASSUME NEW t \in Threads, Run(t) PROVE [Expected]_ViewVars
  BY <1>2, <1>7, PopExpected DEF Run
<1>8. CASE UNCHANGED vars
  BY <1>2, <1>8 DEF vars, playerVars
<1> QED BY <1>2, <1>5, <1>6, <1>7, <1>8 DEF Next, Engine

(* Whatever the threads of the player do to the play list, in any           *)
(* interleaving, SongSelect allows for it: each change is one call of its   *)
(* pop, its pl.add, or a slot of its pages (player.cpp:93-122,              *)
(* playlist.h:42-53), and a pop of the engine's or the CLI's thread, which  *)
(* it lets run at any time, throws and hangs where this one does.           *)
THEOREM PagesExpectEveryPop == Spec => [][Expected]_ViewVars
<1>1. Init => PopInCallback
  BY DEF Init, PopInCallback
<1>2. PlayerInv /\ PopInCallback /\ [Next]_vars =>
        PlayerInv' /\ PopInCallback' /\ [Expected]_ViewVars
  BY PlayerNext, InCallback, StepExpected
<1> QED BY <1>1, <1>2, PlayerInitInv, PTL DEF Spec
=============================================================================
