------------------------------ MODULE Playback ------------------------------
(***************************************************************************)
(* class Playback of playback/playback.cpp: the state machine that drives  *)
(* the MTK playback engine.  Its methods run on whatever thread calls them *)
(* (the GUI thread, the CLI thread) and its event handler runs on the      *)
(* engine's callback thread.  There is no lock: a thread can be preempted  *)
(* between any two accesses to m_ePBCStt or calls of the engine, and each  *)
(* such point is a program counter below.                                  *)
(*                                                                         *)
(* A method ends with vPfnNotifyCbProxy, which calls back the client.  The *)
(* client may call mrPlay(path) again before the method returns, so every  *)
(* thread has a stack of frames, innermost first.  A frame below the top   *)
(* is always mrPlay(path) waiting for the mrStop it called.                *)
(*                                                                         *)
(* Left out: m_tTmInf and m_fgIsEosCb, which nothing reads; the text of    *)
(* the log, the audio and video settings; m_pcFilePath, the copy of the    *)
(* path that mrPlay(path) frees and makes anew.  player.stt prints it on   *)
(* the CLI thread, maybe after it was freed: the heap has no state here.   *)
(***************************************************************************)
EXTENDS Naturals, Sequences

CONSTANTS
  Users,      \* threads that call the methods
  ENG,        \* the callback thread of the engine
  Paths,      \* what a caller can pass to mrPlay(path)
  NoPath,     \* no path: a method without one, an engine given no URI
  Faults,     \* what the engine may do wrong: see EngineFaults
  MaxDepth    \* bound: frames a stack may hold

EngineFaults == {"refuse",   \* a call of the engine returns an error
                 "late",     \* it does not settle within 101 GetState polls
                 "error"}    \* it reports PLAYBACK_ERROR

ASSUME PlaybackAssumption ==
  /\ ENG \notin Users
  /\ NoPath \notin Paths
  /\ Faults \subseteq EngineFaults
  /\ MaxDepth \in Nat \ {0}

Threads == Users \cup {ENG}

PBCStates == {"IDLE", "STOP", "PLAY", "PAUSE", "BUFFERING", "PB_ERR"}

\* External: the states of IMtkPb_Ctrl that the calls and polls tell apart.
EngineStates == {"ready", "playing", "pausing", "paused", "stopping"}

VARIABLES
  stt,        \* m_ePBCStt
  stack,      \* the frames of each thread, innermost first
  eng,        \* external: the state of the engine
  uri,        \* external: the URI of the last accepted SetEngineParam
  refused     \* history: a start was refused since m_ePBCStt was last set;
              \* the code returns the error and every caller ignores it

pbVars == <<stt, stack, eng, uri, refused>>

-----------------------------------------------------------------------------
(* Frames.  "set" is the assignment of arg to m_ePBCStt that is about to   *)
(* happen, "notify" the read of m_ePBCStt in vPfnNotifyCbProxy, "cb" the   *)
(* client's callback told that the state is STOP.                          *)

PathPCs == {"open", "stopping", "param"}
PlainPCs == {"play", "pause", "pausepoll", "stop", "stoppoll",
             "tick", "notify", "cb"}

Frames == [pc : PathPCs, arg : Paths]
            \cup [pc : PlainPCs, arg : {NoPath}]
            \cup [pc : {"set"}, arg : PBCStates]

Frame(pc, arg) == [pc |-> pc, arg |-> arg]
Plain(pc) == Frame(pc, NoPath)

Idle(t) == stack[t] = <<>>
At(t, pc) == stack[t] # <<>> /\ Head(stack[t]).pc = pc
Arg(t) == Head(stack[t]).arg
AtRest == \A t \in Threads : Idle(t)

\* The innermost frame of t becomes f.
Goto(t, f) == stack' = [stack EXCEPT ![t] = <<f>> \o Tail(@)]

\* A thread outside every method calls one.
Enter(t, f) == Idle(t) /\ stack' = [stack EXCEPT ![t] = <<f>>]

\* Mutant of Unwind: the interrupted mrPlay(path) goes on without its path.
UnwindLosesPath(s) ==
  IF Tail(s) = <<>> THEN <<>>
  ELSE <<Frame("param", NoPath)>> \o Tail(Tail(s))

\* The frames left when the innermost method returns: the mrPlay(path) that
\* called it, if any, goes on to SetEngineParam.
Unwind(s) ==
  IF Tail(s) = <<>> THEN <<>>
  ELSE <<Frame("param", s[2].arg)>> \o Tail(Tail(s))

Return(t) == stack' = [stack EXCEPT ![t] = Unwind(@)]

-----------------------------------------------------------------------------
(* External: the engine.                                                   *)

MayRefuse == "refuse" \in Faults

CtrlPlay == eng' = "playing"
CtrlStop == eng' = IF eng = "ready" THEN "ready" ELSE "stopping"
CtrlPause == eng' = IF eng = "playing" THEN "pausing" ELSE eng

\* The decoder still runs: time updates, end of stream and errors can come.
Streaming == eng \in {"playing", "pausing", "stopping"}

\* The loop on IMtkPb_Ctrl_GetState ends: the wanted state is there, or the
\* polls run out, which takes longer than a change of state that is under way
\* unless the engine is late.
PollEnds(wanted) ==
  \/ eng = wanted
  \/ eng \notin {"pausing", "stopping"}
  \/ "late" \in Faults

EngineSettles ==
  /\ eng \in {"pausing", "stopping"}
  /\ eng' = IF eng = "pausing" THEN "paused" ELSE "ready"
  /\ UNCHANGED <<stt, stack, uri, refused>>

-----------------------------------------------------------------------------
(* Methods.                                                                *)

\* mrPlay() is rejected, and changes nothing, in any other state.
mrPlay(t) ==
  /\ stt \in {"STOP", "IDLE"}
  /\ Enter(t, Plain("play"))
  /\ UNCHANGED <<stt, eng, uri, refused>>

mrPlayPath(t, p) ==
  /\ Enter(t, Frame("open", p))
  /\ UNCHANGED <<stt, eng, uri, refused>>

mrPause(t) ==
  /\ Enter(t, Plain("pause"))
  /\ UNCHANGED <<stt, eng, uri, refused>>

mrResume(t) ==
  /\ Enter(t, Plain("play"))
  /\ UNCHANGED <<stt, eng, uri, refused>>

mrStop(t) ==
  /\ Enter(t, Plain("stop"))
  /\ UNCHANGED <<stt, eng, uri, refused>>

\* IMtkPb_Ctrl_Play, of mrPlay(), mrResume() and mrPlay(path).
PlayCall(t) ==
  /\ At(t, "play")
  /\ \/ CtrlPlay /\ Goto(t, Frame("set", "BUFFERING")) /\ UNCHANGED refused
     \/ /\ MayRefuse
        /\ Return(t)
        /\ refused' = TRUE
        /\ UNCHANGED eng
  /\ UNCHANGED <<stt, uri>>

\* Mutant of OpenCheck: STOP is not among the states that need no mrStop.
OpenCheckStopsAgain(t) ==
  /\ At(t, "open")
  /\ \/ stt = "IDLE" /\ Goto(t, Frame("param", Arg(t)))
     \/ /\ stt # "IDLE"
        /\ Len(stack[t]) < MaxDepth
        /\ stack' = [stack EXCEPT ![t] =
             <<Plain("stop"), Frame("stopping", Arg(t))>> \o Tail(@)]
  /\ UNCHANGED <<stt, eng, uri, refused>>

\* The test of m_ePBCStt in mrPlay(path), and its call of mrStop.
OpenCheck(t) ==
  /\ At(t, "open")
  /\ \/ /\ stt \in {"STOP", "IDLE"}
        /\ Goto(t, Frame("param", Arg(t)))
     \/ /\ stt \notin {"STOP", "IDLE"}
        /\ Len(stack[t]) < MaxDepth
        /\ stack' = [stack EXCEPT ![t] =
             <<Plain("stop"), Frame("stopping", Arg(t))>> \o Tail(@)]
  /\ UNCHANGED <<stt, eng, uri, refused>>

\* IMtkPb_Ctrl_SetEngineParam of mrPlay(path).
OpenParam(t) ==
  /\ At(t, "param")
  /\ \/ /\ uri' = Arg(t)
        /\ Goto(t, Plain("play"))
        /\ UNCHANGED refused
     \/ /\ MayRefuse
        /\ Return(t)
        /\ refused' = TRUE
        /\ UNCHANGED uri
  /\ UNCHANGED <<stt, eng>>

\* IMtkPb_Ctrl_Pause; an error returns at once.
PauseCall(t) ==
  /\ At(t, "pause")
  /\ \/ CtrlPause /\ Goto(t, Plain("pausepoll"))
     \/ MayRefuse /\ Return(t) /\ UNCHANGED eng
  /\ UNCHANGED <<stt, uri, refused>>

\* Mutant of PausePoll: the state is set before the engine is paused.
PausePollNoWait(t) ==
  /\ At(t, "pausepoll")
  /\ Goto(t, Frame("set", "PAUSE"))
  /\ UNCHANGED <<stt, eng, uri, refused>>

PausePoll(t) ==
  /\ At(t, "pausepoll")
  /\ PollEnds("paused")
  /\ Goto(t, Frame("set", "PAUSE"))
  /\ UNCHANGED <<stt, eng, uri, refused>>

\* Mutant of StopCall: an error does not reach the mrPlay(path) that called.
StopCallForgetsCaller(t) ==
  /\ At(t, "stop")
  /\ \/ CtrlStop /\ Goto(t, Plain("stoppoll"))
     \/ /\ MayRefuse
        /\ stack' = [stack EXCEPT ![t] = Tail(@)]
        /\ UNCHANGED eng
  /\ UNCHANGED <<stt, uri, refused>>

\* IMtkPb_Ctrl_Stop; on an error mrStop returns, and so does the
\* mrPlay(path) that called it, before it reaches SetEngineParam.
StopCall(t) ==
  /\ At(t, "stop")
  /\ \/ CtrlStop /\ Goto(t, Plain("stoppoll"))
     \/ /\ MayRefuse
        /\ stack' = [stack EXCEPT ![t] =
             IF Tail(@) = <<>> THEN <<>> ELSE Unwind(Tail(@))]
        /\ UNCHANGED eng
  /\ UNCHANGED <<stt, uri, refused>>

\* Mutant of StopPoll: the state is set before the engine is ready.
StopPollNoWait(t) ==
  /\ At(t, "stoppoll")
  /\ Goto(t, Frame("set", "STOP"))
  /\ UNCHANGED <<stt, eng, uri, refused>>

StopPoll(t) ==
  /\ At(t, "stoppoll")
  /\ PollEnds("ready")
  /\ Goto(t, Frame("set", "STOP"))
  /\ UNCHANGED <<stt, eng, uri, refused>>

\* The assignment of m_ePBCStt that every method and event ends with.
SetState(t) ==
  /\ At(t, "set")
  /\ stt' = Arg(t)
  /\ refused' = FALSE
  /\ Goto(t, Plain("notify"))
  /\ UNCHANGED <<eng, uri>>

\* vPfnNotifyCbProxy reads m_ePBCStt through the pointer it is given, after
\* another thread may have set it; only STOP makes the client act.
NotifyProxy(t) ==
  /\ At(t, "notify")
  /\ IF stt = "STOP" THEN Goto(t, Plain("cb")) ELSE Return(t)
  /\ UNCHANGED <<stt, eng, uri, refused>>

-----------------------------------------------------------------------------
(* mrPbCtrlEventCb, on the engine's thread.                                *)

\* IMTK_PB_CTRL_EVENT_CUR_TIME_UPDATE
EvtCurTime ==
  /\ Streaming
  /\ Enter(ENG, Plain("tick"))
  /\ UNCHANGED <<stt, eng, uri, refused>>

\* Mutant of TickCheck: a time update only ends the buffering.
TickEndsBuffering(t) ==
  /\ At(t, "tick")
  /\ IF stt = "BUFFERING" THEN Goto(t, Frame("set", "PLAY")) ELSE Return(t)
  /\ UNCHANGED <<stt, eng, uri, refused>>

TickCheck(t) ==
  /\ At(t, "tick")
  /\ IF stt # "PLAY" THEN Goto(t, Frame("set", "PLAY")) ELSE Return(t)
  /\ UNCHANGED <<stt, eng, uri, refused>>

\* IMTK_PB_CTRL_EVENT_EOS
EvtEos ==
  /\ Streaming
  /\ eng' = "ready"
  /\ Enter(ENG, Frame("set", "STOP"))
  /\ UNCHANGED <<stt, uri, refused>>

\* IMTK_PB_CTRL_EVENT_PLAYBACK_ERROR
EvtError ==
  /\ "error" \in Faults
  /\ Streaming
  /\ eng' = "ready"
  /\ Enter(ENG, Frame("set", "PB_ERR"))
  /\ UNCHANGED <<stt, uri, refused>>

-----------------------------------------------------------------------------
(* Composition with any client.                                            *)

PbInit ==
  /\ stt = "IDLE"
  /\ stack = [t \in Threads |-> <<>>]
  /\ eng = "ready"
  /\ uri = NoPath
  /\ refused = FALSE

\* What a thread inside Playback does next.
PbStep(t) ==
  \/ PlayCall(t) \/ OpenCheck(t) \/ OpenParam(t)
  \/ PauseCall(t) \/ PausePoll(t) \/ StopCall(t) \/ StopPoll(t)
  \/ SetState(t) \/ NotifyProxy(t) \/ TickCheck(t)

EngineEvent == EvtCurTime \/ EvtEos \/ EvtError

\* A callback that does nothing, and one that ends in mrPlay(path).
ClientReturns(t) ==
  /\ At(t, "cb")
  /\ Return(t)
  /\ UNCHANGED <<stt, eng, uri, refused>>

ClientOpens(t, p) ==
  /\ At(t, "cb")
  /\ Goto(t, Frame("open", p))
  /\ UNCHANGED <<stt, eng, uri, refused>>

ClientStep(t) == ClientReturns(t) \/ \E p \in Paths : ClientOpens(t, p)

UserCall(t) ==
  \/ mrPlay(t) \/ mrPause(t) \/ mrResume(t) \/ mrStop(t)
  \/ \E p \in Paths : mrPlayPath(t, p)

\* A thread that would nest deeper than MaxDepth is followed no further.
TooDeep == \E t \in Threads : At(t, "open") /\ Len(stack[t]) = MaxDepth

AtBound == TooDeep /\ UNCHANGED pbVars

PbNext ==
  \/ EngineSettles \/ EngineEvent \/ AtBound
  \/ \E t \in Users : UserCall(t)
  \/ \E t \in Threads :
       PbStep(t) \/ ClientStep(t)

PbSpec == PbInit /\ [][PbNext]_pbVars

\* Threads are scheduled and callbacks return; the engine finishes the change
\* of state it was asked for and reports the time while it plays.
PbFairness ==
  /\ \A t \in Threads : WF_pbVars(PbStep(t)) /\ WF_pbVars(ClientStep(t))
  /\ WF_pbVars(EngineSettles)
  /\ WF_pbVars(EvtCurTime)

PbFairSpec == PbSpec /\ PbFairness
-----------------------------------------------------------------------------
(* Properties.                                                             *)

\* Nobody enters Playback while another thread is inside it: what the
\* program would see if calls and events were far apart.
OneAtATime == \A t \in Threads : Idle(t) /\ ~Idle(t)' => AtRest

\* Types of the members of Playback and of the frames on the threads' stacks.
PbTypeOK ==
  /\ stt \in PBCStates
  /\ stack \in [Threads -> Seq(Frames)]
  /\ eng \in EngineStates
  /\ uri \in Paths \cup {NoPath}
  /\ refused \in BOOLEAN

\* Whatever the client calls back, a thread nests methods in one way only:
\* every suspended frame is an mrPlay(path) waiting in the mrStop it called
\* (playback.cpp:340), and the innermost frame never waits.
Nested(s) ==
  /\ Len(s) <= MaxDepth
  /\ \A i \in 1..Len(s) : s[i].pc = "stopping" <=> i > 1

NestedCalls == \A t \in Threads : Nested(stack[t])

\* With one call or event at a time, mrPlay(path) re-entered from the
\* notification of its own mrStop finds STOP and does not stop again: the
\* recursion mrPlay -> mrStop -> callback -> mrPlay is at most two deep.
ReentryBounded == \A t \in Threads : Len(stack[t]) <= 2

\* With one call or event at a time, and an engine that settles within the
\* polls, m_ePBCStt says "playing" between calls when and only when the
\* engine plays, whichever calls it refused.
StateAgreesWithEngine ==
  AtRest => (stt \in {"PLAY", "BUFFERING"} <=> eng = "playing")

\* If the engine is left playing, the state is PLAY again and again, whatever
\* races with the calls left in it: the time updates repair it
\* (playback.cpp:178-182).
PlayingIsReported == <>[](eng = "playing" /\ ~TooDeep) => []<>(stt = "PLAY")

\* webkok_pb_test.cpp:145-146 calls mrPause and then waits, without a limit,
\* for eGetPBCStt to be E_PBC_PAUSE: once a paused engine is left alone the
\* state must be PAUSE.
PauseIsSeen == AtRest /\ eng = "paused" => stt = "PAUSE"
=============================================================================
