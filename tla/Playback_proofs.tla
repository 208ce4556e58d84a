-------------------------- MODULE Playback_proofs ---------------------------
(* Proofs about Playback with any client, any number of threads, any engine *)
(* faults and any bound on the recursion.                                   *)
EXTENDS MCPlayback, SequenceTheorems, TLAPS

\* A stack of frames as the methods leave it.
Stack(s) == s \in Seq(Frames) /\ Nested(s)

LEMMA FrameIsAFrame ==
  /\ \A pc \in PathPCs, p \in Paths : Frame(pc, p) \in Frames
  /\ \A pc \in PlainPCs : Plain(pc) \in Frames
  /\ \A x \in PBCStates : Frame("set", x) \in Frames
BY DEF Frame, Plain, Frames

\* Replacing the innermost frame by another one that does not wait.
LEMMA GotoStack ==
  ASSUME NEW s, Stack(s), s # <<>>,
         NEW f \in Frames, f.pc # "stopping"
  PROVE  Stack(<<f>> \o Tail(s))
<1> DEFINE r == <<f>> \o Tail(s)
<1>1. /\ Tail(s) \in Seq(Frames)
      /\ Len(Tail(s)) = Len(s) - 1
      /\ \A i \in 1..Len(Tail(s)) : Tail(s)[i] = s[i + 1]
  BY HeadTailProperties DEF Stack
<1>2. /\ <<f>> \in Seq(Frames)
      /\ Len(<<f>>) = 1
      /\ <<f>>[1] = f
  OBVIOUS
<1>3. /\ r \in Seq(Frames)
      /\ Len(r) = 1 + Len(Tail(s))
      /\ \A i \in 1..(1 + Len(Tail(s))) :
           r[i] = IF i <= 1 THEN <<f>>[i] ELSE Tail(s)[i - 1]
  BY <1>1, <1>2, ConcatProperties
<1>4. Len(s) \in Nat /\ Len(s) <= MaxDepth
  BY LenProperties DEF Stack, Nested
<1>5. \A i \in 1..Len(r) : r[i] = IF i = 1 THEN f ELSE s[i]
  BY <1>1, <1>2, <1>3, <1>4
<1>6. \A i \in 1..Len(r) : r[i].pc = "stopping" <=> i > 1
  BY <1>1, <1>3, <1>4, <1>5 DEF Stack, Nested
<1> QED
  BY <1>1, <1>3, <1>4, <1>6 DEF Stack, Nested

\* The stacks of a thread that is in no method, and of one that entered one.
LEMMA EnterStack ==
  /\ Stack(<<>>)
  /\ \A f \in Frames : f.pc # "stopping" => Stack(<<f>>)
<1>1. Stack(<<>>)
  BY EmptySeq, PlaybackAssumption DEF Stack, Nested
<1>2. ASSUME NEW f \in Frames, f.pc # "stopping"
      PROVE  Stack(<<f>>)
  <2>1. <<f>> \in Seq(Frames) /\ Len(<<f>>) = 1 /\ <<f>>[1] = f
    OBVIOUS
  <2>2. \A i \in 1..1 : i = 1
    OBVIOUS
  <2>3. 1 <= MaxDepth
    BY PlaybackAssumption
  <2> QED BY <1>2, <2>1, <2>2, <2>3 DEF Stack, Nested
<1> QED BY <1>1, <1>2

\* mrPlay(path) calls mrStop.
LEMMA PushStack ==
  ASSUME NEW s, Stack(s), s # <<>>, Len(s) < MaxDepth,
         NEW f \in Frames, f.pc # "stopping",
         NEW g \in Frames, g.pc = "stopping"
  PROVE  Stack(<<f, g>> \o Tail(s))
<1> DEFINE r == <<f, g>> \o Tail(s)
<1>1. /\ Tail(s) \in Seq(Frames)
      /\ Len(Tail(s)) = Len(s) - 1
      /\ \A i \in 1..Len(Tail(s)) : Tail(s)[i] = s[i + 1]
  BY HeadTailProperties DEF Stack
<1>2. /\ <<f, g>> \in Seq(Frames)
      /\ Len(<<f, g>>) = 2
      /\ <<f, g>>[1] = f /\ <<f, g>>[2] = g
  OBVIOUS
<1>3. /\ r \in Seq(Frames)
      /\ Len(r) = 2 + Len(Tail(s))
      /\ \A i \in 1..(2 + Len(Tail(s))) :
           r[i] = IF i <= 2 THEN <<f, g>>[i] ELSE Tail(s)[i - 2]
  BY <1>1, <1>2, ConcatProperties
<1>4. Len(s) \in Nat /\ MaxDepth \in Nat
  BY LenProperties, PlaybackAssumption DEF Stack
<1>5. Len(r) = Len(s) + 1
  BY <1>1, <1>3, <1>4
<1>6. ASSUME NEW i \in 1..Len(r)
      PROVE  r[i].pc = "stopping" <=> i > 1
  <2>1. CASE i = 1
    BY <1>2, <1>3, <1>4, <1>5, <2>1
  <2>2. CASE i = 2
    BY <1>2, <1>3, <1>4, <1>5, <2>2
  <2>3. CASE i > 2
    <3>1. i - 1 \in 1..Len(s) /\ i - 1 > 1 /\ r[i] = s[i - 1]
      BY <1>1, <1>3, <1>4, <1>5, <2>3
    <3> QED BY <2>3, <3>1 DEF Stack, Nested
  <2> QED BY <2>1, <2>2, <2>3, <1>4, <1>5
<1> QED BY <1>3, <1>4, <1>5, <1>6 DEF Stack, Nested

\* A frame that waits holds the path of its mrPlay(path).
LEMMA WaitingFrame ==
  ASSUME NEW f \in Frames, f.pc = "stopping"
  PROVE  f.arg \in Paths
BY DEF Frames, PathPCs, PlainPCs

\* What Unwind needs to know of a stack: every frame but the first waits.
Suspended(s) ==
  /\ s \in Seq(Frames)
  /\ Len(s) <= MaxDepth
  /\ \A i \in 1..Len(s) : i > 1 => s[i].pc = "stopping"

\* The innermost method returns.
LEMMA UnwindSuspended ==
  ASSUME NEW s, Suspended(s), s # <<>>
  PROVE  Stack(Unwind(s))
<1>1. /\ Tail(s) \in Seq(Frames)
      /\ Len(s) \in Nat /\ Len(s) <= MaxDepth
      /\ Len(Tail(s)) = Len(s) - 1
      /\ \A i \in 1..Len(Tail(s)) : Tail(s)[i] = s[i + 1]
  BY HeadTailProperties, LenProperties DEF Suspended
<1>2. CASE Tail(s) = <<>>
  BY <1>2, EnterStack DEF Unwind
<1>3. CASE Tail(s) # <<>>
  <2> DEFINE f == Frame("param", s[2].arg)
             u == Tail(Tail(s))
             r == <<f>> \o u
  <2>1. Len(s) >= 2
    <3>1. Len(Tail(s)) \in Nat \ {0}
      BY <1>1, <1>3, EmptySeq
    <3> QED BY <1>1, <3>1
  <2>2. f \in Frames /\ f.pc = "param"
    <3>1. s[2] \in Frames /\ s[2].pc = "stopping"
      BY <1>1, <2>1, ElementOfSeq DEF Suspended
    <3>2. s[2].arg \in Paths
      BY <3>1, WaitingFrame
    <3> QED BY <3>2, FrameIsAFrame DEF Frame, PathPCs
  <2>3. /\ u \in Seq(Frames)
        /\ Len(u) = Len(s) - 2
        /\ \A i \in 1..Len(u) : u[i] = s[i + 2]
    BY <1>1, <1>3, <2>1, HeadTailProperties
  <2>4. <<f>> \in Seq(Frames) /\ Len(<<f>>) = 1 /\ <<f>>[1] = f
    BY <2>2
  <2>5. /\ r \in Seq(Frames)
        /\ Len(r) = 1 + Len(u)
        /\ \A i \in 1..(1 + Len(u)) :
             r[i] = IF i <= 1 THEN <<f>>[i] ELSE u[i - 1]
    BY <2>3, <2>4, ConcatProperties
  <2>6. Len(r) = Len(s) - 1
    BY <1>1, <2>3, <2>5
  <2>7. ASSUME NEW i \in 1..Len(r)
        PROVE  r[i].pc = "stopping" <=> i > 1
    <3>1. CASE i = 1
      BY <1>1, <2>1, <2>2, <2>3, <2>4, <2>5, <3>1
    <3>2. CASE i > 1
      <4>0. Len(u) \in Nat /\ Len(r) = 1 + Len(u)
        BY <2>3, <2>5, LenProperties
      <4>1. i - 1 \in 1..Len(u) /\ (i - 1) + 2 = i + 1
        BY <3>2, <4>0
      <4>2. r[i] = u[i - 1]
        <5>1. i \in 1..(1 + Len(u)) /\ ~(i <= 1)
          BY <2>5, <3>2
        <5> QED BY <2>5, <5>1
      <4>3. u[i - 1] = s[i + 1]
        BY <2>3, <4>1
      <4>4. i + 1 \in 1..Len(s) /\ i + 1 > 1
        BY <1>1, <2>6, <3>2
      <4>5. s[i + 1].pc = "stopping"
        BY <4>4 DEF Suspended
      <4> QED BY <3>2, <4>2, <4>3, <4>5
    <3> QED BY <1>1, <2>6, <3>1, <3>2
  <2>8. MaxDepth \in Nat
    BY PlaybackAssumption
  <2>9. Stack(r)
    BY <1>1, <2>5, <2>6, <2>7, <2>8 DEF Stack, Nested, Suspended
  <2> QED BY <1>3, <2>9 DEF Unwind
<1> QED BY <1>2, <1>3

LEMMA UnwindStack ==
  ASSUME NEW s, Stack(s), s # <<>>
  PROVE  Stack(Unwind(s))
BY UnwindSuspended DEF Stack, Nested, Suspended

\* mrPlay(path) returns because its mrStop failed.
LEMMA UnwindCaller ==
  ASSUME NEW s, Stack(s), s # <<>>, Tail(s) # <<>>
  PROVE  Stack(Unwind(Tail(s)))
<1>1. /\ Tail(s) \in Seq(Frames)
      /\ Len(s) \in Nat /\ MaxDepth \in Nat
      /\ Len(Tail(s)) = Len(s) - 1
      /\ \A i \in 1..Len(Tail(s)) : Tail(s)[i] = s[i + 1]
  BY HeadTailProperties, LenProperties, PlaybackAssumption DEF Stack
<1>2. ASSUME NEW i \in 1..Len(Tail(s))
      PROVE  Tail(s)[i].pc = "stopping"
  <2>1. i + 1 \in 1..Len(s) /\ i + 1 > 1 /\ Tail(s)[i] = s[i + 1]
    BY <1>1
  <2> QED BY <2>1 DEF Stack, Nested
<1>3. Suspended(Tail(s))
  BY <1>1, <1>2 DEF Suspended, Stack, Nested
<1> QED BY <1>3, UnwindSuspended

-----------------------------------------------------------------------------
(* Steps of one thread.                                                    *)

StacksOK ==
  /\ stack \in [Threads -> Seq(Frames)]
  /\ \A t \in Threads : Stack(stack[t])

LEMMA UpdateStacks ==
  ASSUME StacksOK, NEW t \in Threads, NEW s, Stack(s),
         stack' = [stack EXCEPT ![t] = s]
  PROVE  StacksOK'
<1>1. stack' \in [Threads -> Seq(Frames)]
  BY DEF StacksOK, Stack
<1>2. \A u \in Threads : stack'[u] = IF u = t THEN s ELSE stack[u]
  BY DEF StacksOK
<1>3. \A u \in Threads : Stack(stack'[u])
  BY <1>2 DEF StacksOK
<1> QED BY <1>1, <1>3 DEF StacksOK

LEMMA GotoStacks ==
  ASSUME StacksOK, NEW t \in Threads, stack[t] # <<>>,
         NEW f \in Frames, f.pc # "stopping", Goto(t, f)
  PROVE  StacksOK'
<1>1. Stack(<<f>> \o Tail(stack[t]))
  BY GotoStack DEF StacksOK
<1> QED BY <1>1, UpdateStacks DEF Goto

LEMMA EnterStacks ==
  ASSUME StacksOK, NEW t \in Threads,
         NEW f \in Frames, f.pc # "stopping", Enter(t, f)
  PROVE  StacksOK'
<1>1. Stack(<<f>>)
  BY EnterStack
<1> QED BY <1>1, UpdateStacks DEF Enter

LEMMA ReturnStacks ==
  ASSUME StacksOK, NEW t \in Threads, stack[t] # <<>>, Return(t)
  PROVE  StacksOK'
<1>1. Stack(Unwind(stack[t]))
  BY UnwindStack DEF StacksOK
<1> QED BY <1>1, UpdateStacks DEF Return

\* What the program counter says of the argument of the innermost frame.
LEMMA Arguments ==
  ASSUME StacksOK, NEW t \in Threads, stack[t] # <<>>
  PROVE  /\ Head(stack[t]).pc \in {"open", "param"} => Arg(t) \in Paths
         /\ Head(stack[t]).pc = "set" => Arg(t) \in PBCStates
<1>1. Head(stack[t]) \in Frames
  BY HeadTailProperties DEF StacksOK
<1> QED BY <1>1 DEF Arg, Frames, PathPCs, PlainPCs

\* The frames that the actions put on a stack.
LEMMA PlainFrames ==
  /\ \A pc \in PlainPCs : Plain(pc) \in Frames /\ Plain(pc).pc # "stopping"
  /\ \A x \in PBCStates :
       Frame("set", x) \in Frames /\ Frame("set", x).pc # "stopping"
  /\ \A p \in Paths :
       /\ Frame("open", p) \in Frames /\ Frame("open", p).pc # "stopping"
       /\ Frame("param", p) \in Frames /\ Frame("param", p).pc # "stopping"
       /\ Frame("stopping", p) \in Frames /\ Frame("stopping", p).pc = "stopping"
BY FrameIsAFrame DEF Frame, Plain, PathPCs, PlainPCs

ScalarsOK ==
  /\ stt \in PBCStates
  /\ eng \in EngineStates
  /\ uri \in Paths \cup {NoPath}
  /\ refused \in BOOLEAN

\* The inductive invariant, the way the steps use it.
PbInv == ScalarsOK /\ StacksOK

LEMMA PbInvSplit == PbInv <=> PbTypeOK /\ NestedCalls
BY DEF PbInv, ScalarsOK, StacksOK, PbTypeOK, NestedCalls, Stack

\* Every step of a thread inside Playback, with nothing assumed of the client.
LEMMA PbStepInv ==
  ASSUME PbInv, NEW t \in Threads, PbStep(t)
  PROVE  PbInv'
<1> USE DEF PbInv, At
<1>1. CASE PlayCall(t)
  <2>1. CASE CtrlPlay /\ Goto(t, Frame("set", "BUFFERING")) /\ UNCHANGED refused
    <3>1. StacksOK'
      BY <1>1, <2>1, GotoStacks, PlainFrames DEF PlayCall, PBCStates
    <3>2. ScalarsOK'
      BY <1>1, <2>1 DEF PlayCall, CtrlPlay, ScalarsOK, EngineStates
    <3> QED BY <3>1, <3>2
  <2>2. CASE Return(t) /\ refused' = TRUE /\ UNCHANGED eng
    <3>1. StacksOK'
      BY <1>1, <2>2, ReturnStacks DEF PlayCall
    <3>2. ScalarsOK'
      BY <1>1, <2>2 DEF PlayCall, ScalarsOK
    <3> QED BY <3>1, <3>2
  <2> QED BY <1>1, <2>1, <2>2 DEF PlayCall
<1>2. CASE OpenCheck(t)
  <2>1. Arg(t) \in Paths
    BY <1>2, Arguments DEF OpenCheck
  <2>2. CASE Goto(t, Frame("param", Arg(t)))
    BY <1>2, <2>1, <2>2, GotoStacks, PlainFrames DEF OpenCheck, ScalarsOK
  <2>3. CASE /\ Len(stack[t]) < MaxDepth
             /\ stack' = [stack EXCEPT ![t] =
                  <<Plain("stop"), Frame("stopping", Arg(t))>> \o Tail(@)]
    <3>1. Stack(<<Plain("stop"), Frame("stopping", Arg(t))>> \o Tail(stack[t]))
      <4>1. Plain("stop") \in Frames /\ Plain("stop").pc # "stopping"
        BY PlainFrames DEF PlainPCs
      <4>2. stack[t] # <<>> /\ Stack(stack[t])
        BY <1>2 DEF OpenCheck, StacksOK
      <4> QED BY <2>1, <2>3, <4>1, <4>2, PushStack, PlainFrames
    <3>2. StacksOK'
      BY <2>3, <3>1, UpdateStacks
    <3> QED BY <1>2, <3>2 DEF OpenCheck, ScalarsOK
  <2> QED BY <1>2, <2>2, <2>3 DEF OpenCheck
<1>3. CASE OpenParam(t)
  <2>1. Arg(t) \in Paths
    BY <1>3, Arguments DEF OpenParam
  <2>2. CASE uri' = Arg(t) /\ Goto(t, Plain("play")) /\ UNCHANGED refused
    <3>1. StacksOK'
      BY <1>3, <2>2, GotoStacks, PlainFrames DEF OpenParam, PlainPCs
    <3> QED BY <1>3, <2>1, <2>2, <3>1 DEF OpenParam, ScalarsOK
  <2>3. CASE Return(t) /\ refused' = TRUE /\ UNCHANGED uri
    <3>1. StacksOK'
      BY <1>3, <2>3, ReturnStacks DEF OpenParam
    <3> QED BY <1>3, <2>3, <3>1 DEF OpenParam, ScalarsOK
  <2> QED BY <1>3, <2>2, <2>3 DEF OpenParam
<1>4. CASE PauseCall(t)
  <2>1. CASE CtrlPause /\ Goto(t, Plain("pausepoll"))
    <3>1. StacksOK'
      BY <1>4, <2>1, GotoStacks, PlainFrames DEF PauseCall, PlainPCs
    <3> QED BY <1>4, <2>1, <3>1 DEF PauseCall, CtrlPause, ScalarsOK, EngineStates
  <2>2. CASE Return(t) /\ UNCHANGED eng
    <3>1. StacksOK'
      BY <1>4, <2>2, ReturnStacks DEF PauseCall
    <3> QED BY <1>4, <2>2, <3>1 DEF PauseCall, ScalarsOK
  <2> QED BY <1>4, <2>1, <2>2 DEF PauseCall
<1>5. CASE PausePoll(t)
  <2>1. StacksOK'
    BY <1>5, GotoStacks, PlainFrames DEF PausePoll, PBCStates
  <2> QED BY <1>5, <2>1 DEF PausePoll, ScalarsOK
<1>6. CASE StopCall(t)
  <2>1. CASE CtrlStop /\ Goto(t, Plain("stoppoll"))
    <3>1. StacksOK'
      BY <1>6, <2>1, GotoStacks, PlainFrames DEF StopCall, PlainPCs
    <3> QED BY <1>6, <2>1, <3>1 DEF StopCall, CtrlStop, ScalarsOK, EngineStates
  <2>2. CASE /\ stack' = [stack EXCEPT ![t] =
                  IF Tail(@) = <<>> THEN <<>> ELSE Unwind(Tail(@))]
             /\ UNCHANGED eng
    <3>1. Stack(IF Tail(stack[t]) = <<>> THEN <<>> ELSE Unwind(Tail(stack[t])))
      BY <1>6, EnterStack, UnwindCaller DEF StopCall, StacksOK
    <3>2. StacksOK'
      BY <2>2, <3>1, UpdateStacks
    <3> QED BY <1>6, <2>2, <3>2 DEF StopCall, ScalarsOK
  <2> QED BY <1>6, <2>1, <2>2 DEF StopCall
<1>7. CASE StopPoll(t)
  <2>1. StacksOK'
    BY <1>7, GotoStacks, PlainFrames DEF StopPoll, PBCStates
  <2> QED BY <1>7, <2>1 DEF StopPoll, ScalarsOK
<1>8. CASE SetState(t)
  <2>1. StacksOK'
    BY <1>8, GotoStacks, PlainFrames DEF SetState, PlainPCs
  <2>2. Arg(t) \in PBCStates
    BY <1>8, Arguments DEF SetState
  <2> QED BY <1>8, <2>1, <2>2 DEF SetState, ScalarsOK
<1>9. CASE NotifyProxy(t)
  <2>1. CASE Goto(t, Plain("cb"))
    BY <1>9, <2>1, GotoStacks, PlainFrames DEF NotifyProxy, PlainPCs, ScalarsOK
  <2>2. CASE Return(t)
    BY <1>9, <2>2, ReturnStacks DEF NotifyProxy, ScalarsOK
  <2> QED BY <1>9, <2>1, <2>2 DEF NotifyProxy
<1>10. CASE TickCheck(t)
  <2>1. CASE Goto(t, Frame("set", "PLAY"))
    BY <1>10, <2>1, GotoStacks, PlainFrames DEF TickCheck, PBCStates, ScalarsOK
  <2>2. CASE Return(t)
    BY <1>10, <2>2, ReturnStacks DEF TickCheck, ScalarsOK
  <2> QED BY <1>10, <2>1, <2>2 DEF TickCheck
<1> QED
  BY <1>1, <1>2, <1>3, <1>4, <1>5, <1>6, <1>7, <1>8, <1>9, <1>10 DEF PbStep

\* Entering Playback from outside, by a call or an engine event.
LEMMA EntryInv ==
  ASSUME PbInv,
         EngineEvent \/ \E t \in Users : UserCall(t)
  PROVE  PbInv'
<1>1. ASSUME EngineEvent PROVE PbInv'
  <2>1. ENG \in Threads
    BY DEF Threads
  <2>2. CASE EvtCurTime
    BY <2>1, <2>2, EnterStacks, PlainFrames
       DEF PbInv, EvtCurTime, PlainPCs, ScalarsOK
  <2>3. CASE EvtEos
    <3>1. StacksOK'
      BY <2>1, <2>3, EnterStacks, PlainFrames DEF PbInv, EvtEos, PBCStates
    <3> QED BY <2>3, <3>1 DEF PbInv, EvtEos, ScalarsOK, EngineStates
  <2>4. CASE EvtError
    <3>1. StacksOK'
      BY <2>1, <2>4, EnterStacks, PlainFrames DEF PbInv, EvtError, PBCStates
    <3> QED BY <2>4, <3>1 DEF PbInv, EvtError, ScalarsOK, EngineStates
  <2> QED BY <1>1, <2>2, <2>3, <2>4 DEF EngineEvent
<1>2. ASSUME NEW t \in Users, UserCall(t) PROVE PbInv'
  <2>1. t \in Threads
    BY DEF Threads
  <2>2. \A pc \in {"play", "pause", "stop"} :
          Plain(pc) \in Frames /\ Plain(pc).pc # "stopping"
    BY PlainFrames DEF PlainPCs
  <2>3. CASE mrPlay(t)
    BY <2>1, <2>2, <2>3, EnterStacks DEF mrPlay, PbInv, ScalarsOK
  <2>4. CASE mrPause(t)
    BY <2>1, <2>2, <2>4, EnterStacks DEF mrPause, PbInv, ScalarsOK
  <2>5. CASE mrResume(t)
    BY <2>1, <2>2, <2>5, EnterStacks DEF mrResume, PbInv, ScalarsOK
  <2>6. CASE mrStop(t)
    BY <2>1, <2>2, <2>6, EnterStacks DEF mrStop, PbInv, ScalarsOK
  <2>7. ASSUME NEW p \in Paths, mrPlayPath(t, p) PROVE PbInv'
    BY <2>1, <2>7, EnterStacks, PlainFrames DEF mrPlayPath, PbInv, ScalarsOK
  <2> QED BY <1>2, <2>3, <2>4, <2>5, <2>6, <2>7 DEF UserCall
<1> QED BY <1>1, <1>2

LEMMA PbInitInv == PbInit => PbInv
BY EnterStack, EmptySeq
   DEF PbInit, PbInv, ScalarsOK, StacksOK, PBCStates, EngineStates

LEMMA PbNextInv == PbInv /\ [PbNext]_pbVars => PbInv'
<1> SUFFICES ASSUME PbInv, [PbNext]_pbVars PROVE PbInv'
  OBVIOUS
<1>1. CASE EngineSettles
  BY <1>1 DEF EngineSettles, PbInv, ScalarsOK, StacksOK, EngineStates
<1>2. CASE AtBound \/ UNCHANGED pbVars
  BY <1>2 DEF AtBound, pbVars, PbInv, ScalarsOK, StacksOK
<1>3. ASSUME NEW t \in Threads, ClientStep(t) PROVE PbInv'
  <2>1. CASE ClientReturns(t)
    BY <2>1, ReturnStacks DEF ClientReturns, At, PbInv, ScalarsOK
  <2>2. ASSUME NEW p \in Paths, ClientOpens(t, p) PROVE PbInv'
    BY <2>2, GotoStacks, PlainFrames DEF ClientOpens, At, PbInv, ScalarsOK
  <2> QED BY <1>3, <2>1, <2>2 DEF ClientStep
<1> QED BY <1>1, <1>2, <1>3, PbStepInv, EntryInv DEF PbNext

LEMMA PbInvHolds == PbSpec => []PbInv
<1>1. PbInit => PbInv
  BY PbInitInv
<1>2. PbInv /\ [PbNext]_pbVars => PbInv'
  BY PbNextInv
<1> QED BY <1>1, <1>2, PTL DEF PbSpec

(* Whatever threads, faults and client: the members of Playback and the     *)
(* frames on the stacks keep their types (playback.h:133-203).               *)
THEOREM PbTypes == PbSpec => []PbTypeOK
<1>1. PbInv => PbTypeOK
  BY PbInvSplit
<1> QED BY <1>1, PbInvHolds, PTL

(* Whatever threads, faults and client: every suspended frame is an         *)
(* mrPlay(path) inside its mrStop (playback.cpp:340), so a return always    *)
(* finds the caller it belongs to.                                          *)
THEOREM CallsAreNested == PbSpec => []NestedCalls
<1>1. PbInv => NestedCalls
  BY PbInvSplit
<1> QED BY <1>1, PbInvHolds, PTL

-----------------------------------------------------------------------------
(* Calls and events one at a time.                                         *)

\* The others are in no method.
Alone(t) == \A u \in Threads : u # t => Idle(u)

\* A stack of two frames is an mrPlay(path) in its mrStop, and the callback
\* of that mrStop finds the STOP it set.
ShallowAt(s, x) ==
  /\ Len(s) <= 2
  /\ s # <<>> /\ Head(s).pc = "cb" => x = "STOP"
  /\ s # <<>> /\ Head(s).pc = "open" /\ Tail(s) # <<>> => x = "STOP"

\* The state x agrees with the engine in state e, which has settled.
Agrees(x, e) ==
  \/ "late" \in Faults
  \/ /\ e \in {"ready", "playing", "paused"}
     /\ x \in {"PLAY", "BUFFERING"} <=> e = "playing"
     /\ x = "STOP" => e = "ready"

\* What a method knows of the state x and the engine's e at each point.
KnownAt(f, x, e) ==
  /\ f.pc = "stoppoll" => "late" \in Faults \/ e \in {"ready", "stopping"}
  /\ f.pc = "pausepoll" => "late" \in Faults \/ e \in {"ready", "pausing", "paused"}
  /\ f.pc = "set" => Agrees(f.arg, e)
  /\ f.pc = "tick" => "late" \in Faults \/ e = "playing"
  /\ f.pc \notin {"stoppoll", "pausepoll", "set"} => Agrees(x, e)

CallInv ==
  /\ \A t, u \in Threads : ~Idle(t) /\ ~Idle(u) => t = u
  /\ \A t \in Threads : ShallowAt(stack[t], stt)
  /\ \A t \in Threads : ~Idle(t) => KnownAt(Head(stack[t]), stt, eng)
  /\ AtRest => Agrees(stt, eng)

LEMMA MoveAlone ==
  ASSUME StacksOK, NEW t \in Threads, Alone(t), NEW s,
         stack' = [stack EXCEPT ![t] = s], ShallowAt(s, stt'),
         s = <<>> => Agrees(stt', eng'), s # <<>> => KnownAt(Head(s), stt', eng')
  PROVE  CallInv'
<1>1. \A u \in Threads : stack'[u] = IF u = t THEN s ELSE <<>>
  BY DEF StacksOK, Alone, Idle
<1>2. ShallowAt(<<>>, stt')
  BY DEF ShallowAt
<1>3. \A u \in Threads : ShallowAt(stack'[u], stt')
  BY <1>1, <1>2 DEF ShallowAt
<1>4. \A u \in Threads : ~Idle(u)' => KnownAt(Head(stack'[u]), stt', eng')
  BY <1>1 DEF Idle, KnownAt, Agrees
<1>5. AtRest' => Agrees(stt', eng')
  BY <1>1 DEF AtRest, Idle, Threads
<1> QED BY <1>1, <1>3, <1>4, <1>5 DEF CallInv, Idle, Threads

\* Stacks of at most two frames.
LEMMA ShortStacks ==
  ASSUME NEW s, Stack(s), s # <<>>, Len(s) <= 2
  PROVE  /\ Unwind(s) = <<>> \/ \E p \in Paths : Unwind(s) = <<Frame("param", p)>>
         /\ Tail(s) # <<>> => Unwind(Tail(s)) = <<>>
         /\ \A f \in Frames : /\ <<f>> \o Tail(s) # <<>>
                              /\ Head(<<f>> \o Tail(s)) = f
                              /\ Tail(<<f>> \o Tail(s)) = Tail(s)
                              /\ Len(<<f>> \o Tail(s)) <= 2
<1>1. /\ s \in Seq(Frames) /\ Len(s) \in {1, 2}
      /\ Tail(s) \in Seq(Frames) /\ Len(Tail(s)) = Len(s) - 1
  <2>1. s \in Seq(Frames) /\ Len(s) \in Nat /\ Len(s) # 0
    BY EmptySeq DEF Stack
  <2>2. \A n \in Nat : n # 0 /\ n <= 2 => n \in {1, 2}
    OBVIOUS
  <2>3. Len(s) \in {1, 2}
    BY <2>1, <2>2
  <2> QED BY <2>1, <2>3, HeadTailProperties
<1>2. Tail(s) # <<>> => /\ Tail(Tail(s)) = <<>> /\ Len(s) = 2
                        /\ s[2] \in Frames /\ s[2].pc = "stopping"
  <2>1. ASSUME Tail(s) # <<>> PROVE Len(s) = 2
    BY <1>1, <2>1, EmptySeq
  <2>2. ASSUME Tail(s) # <<>>, Len(s) = 2 PROVE Tail(Tail(s)) = <<>>
    <3>1. Len(Tail(s)) = 1
      BY <1>1, <2>2
    <3>2. Tail(Tail(s)) \in Seq(Frames) /\ Len(Tail(Tail(s))) = 0
      BY <1>1, <2>2, <3>1, HeadTailProperties
    <3> QED BY <3>2, EmptySeq
  <2>3. ASSUME Len(s) = 2 PROVE s[2] \in Frames /\ s[2].pc = "stopping"
    <3>1. 2 \in 1..Len(s) /\ 2 > 1
      BY <2>3
    <3>2. s[2] \in Frames
      BY <1>1, <3>1, ElementOfSeq
    <3> QED BY <3>1, <3>2 DEF Stack, Nested
  <2> QED BY <2>1, <2>2, <2>3
<1>3. Unwind(s) = <<>> \/ \E p \in Paths : Unwind(s) = <<Frame("param", p)>>
  <2>1. CASE Tail(s) # <<>>
    <3>1. s[2].arg \in Paths
      BY <1>2, <2>1, WaitingFrame
    <3>2. Unwind(s) = <<Frame("param", s[2].arg)>> \o <<>>
      BY <1>2, <2>1 DEF Unwind
    <3>3. <<Frame("param", s[2].arg)>> \o <<>> = <<Frame("param", s[2].arg)>>
      <4>1. <<Frame("param", s[2].arg)>> \in Seq(Frames)
        BY <3>1, PlainFrames
      <4> QED BY <4>1, ConcatEmptySeq
    <3> QED BY <3>1, <3>2, <3>3
  <2> QED BY <2>1 DEF Unwind
<1>4. ASSUME NEW f \in Frames
      PROVE  /\ <<f>> \o Tail(s) # <<>>
             /\ Head(<<f>> \o Tail(s)) = f
             /\ Tail(<<f>> \o Tail(s)) = Tail(s)
             /\ Len(<<f>> \o Tail(s)) <= 2
  <2> DEFINE r == <<f>> \o Tail(s)
  <2>1. /\ r \in Seq(Frames) /\ Len(r) = 1 + Len(Tail(s)) /\ r[1] = f
        /\ \A i \in 2..Len(r) : r[i] = Tail(s)[i - 1]
    BY <1>1, ConcatProperties
  <2>2. r # <<>> /\ Head(r) = f /\ Len(r) <= 2
    BY <1>1, <2>1
  <2>3. /\ Tail(r) \in Seq(Frames) /\ Len(Tail(r)) = Len(Tail(s))
        /\ \A i \in 1..Len(Tail(r)) : Tail(r)[i] = r[i + 1]
    BY <1>1, <2>1, <2>2, HeadTailProperties
  <2>4. \A i \in 1..Len(Tail(s)) : Tail(r)[i] = Tail(s)[i]
    BY <1>1, <2>1, <2>3
  <2>5. Tail(r) = Tail(s)
    BY <1>1, <2>3, <2>4, SeqEqual
  <2> QED BY <2>2, <2>5
<1> QED BY <1>2, <1>3, <1>4 DEF Unwind

\* The innermost frame of a thread becomes f.
LEMMA GotoAlone ==
  ASSUME StacksOK, CallInv, NEW t \in Threads, ~Idle(t),
         NEW f \in Frames, Goto(t, f), KnownAt(f, stt', eng'),
         f.pc \in {"cb", "open"} => stt' = "STOP"
  PROVE  CallInv'
<1> DEFINE s == <<f>> \o Tail(stack[t])
<1>1. Alone(t)
  BY DEF CallInv, Alone
<1>2. Stack(stack[t]) /\ stack[t] # <<>> /\ Len(stack[t]) <= 2
  BY DEF StacksOK, Idle, CallInv, ShallowAt
<1>3. s # <<>> /\ Head(s) = f /\ Len(s) <= 2
  BY <1>2, ShortStacks
<1>4. stack' = [stack EXCEPT ![t] = s]
  BY DEF Goto
<1>5. ShallowAt(s, stt')
  BY <1>3 DEF ShallowAt
<1>6. KnownAt(Head(s), stt', eng')
  BY <1>3
<1> HIDE DEF s
<1> QED BY <1>1, <1>3, <1>4, <1>5, <1>6, MoveAlone

\* The innermost method returns, to nobody or to an mrPlay(path).
LEMMA ReturnAlone ==
  ASSUME StacksOK, CallInv, NEW t \in Threads, ~Idle(t),
         Return(t), Agrees(stt', eng')
  PROVE  CallInv'
<1> DEFINE s == Unwind(stack[t])
<1>1. Alone(t)
  BY DEF CallInv, Alone
<1>2. Stack(stack[t]) /\ stack[t] # <<>> /\ Len(stack[t]) <= 2
  BY DEF StacksOK, Idle, CallInv, ShallowAt
<1>3. s = <<>> \/ \E p \in Paths : s = <<Frame("param", p)>>
  BY <1>2, ShortStacks
<1>4. stack' = [stack EXCEPT ![t] = s]
  BY DEF Return
<1>5. \/ s = <<>> /\ Len(s) = 0
      \/ s # <<>> /\ Len(s) = 1 /\ Head(s).pc = "param"
  <2>1. ASSUME NEW p \in Paths, s = <<Frame("param", p)>>
        PROVE  s # <<>> /\ Len(s) = 1 /\ Head(s) = Frame("param", p)
    BY <2>1
  <2>2. Len(<<>>) = 0
    BY EmptySeq
  <2> HIDE DEF s
  <2> QED BY <1>3, <2>1, <2>2 DEF Frame
<1>6. ShallowAt(s, stt') /\ (s # <<>> => KnownAt(Head(s), stt', eng'))
  <2> HIDE DEF s
  <2> QED BY <1>5 DEF ShallowAt, KnownAt
<1> HIDE DEF s
<1> QED BY <1>1, <1>4, <1>6, MoveAlone

\* A call or an event while nobody is inside.
LEMMA EnterAlone ==
  ASSUME StacksOK, AtRest, NEW t \in Threads,
         NEW f \in Frames, f.pc # "cb", Enter(t, f), KnownAt(f, stt', eng')
  PROVE  CallInv'
<1> DEFINE s == <<f>>
<1>1. Alone(t)
  BY DEF AtRest, Alone
<1>2. stack' = [stack EXCEPT ![t] = s]
  BY DEF Enter
<1>3. s # <<>> /\ Head(s) = f /\ Tail(s) = <<>> /\ Len(s) = 1
  OBVIOUS
<1>4. ShallowAt(s, stt')
  BY <1>3 DEF ShallowAt
<1>5. KnownAt(Head(s), stt', eng')
  BY <1>3
<1> HIDE DEF s
<1> QED BY <1>1, <1>2, <1>3, <1>4, <1>5, MoveAlone

\* What the thread that is inside knows.
LEMMA KnownHere ==
  ASSUME CallInv, NEW t \in Threads, NEW pc, At(t, pc)
  PROVE  /\ ~Idle(t) /\ KnownAt(Head(stack[t]), stt, eng) /\ Head(stack[t]).pc = pc
         /\ pc \notin {"stoppoll", "pausepoll", "set"} => Agrees(stt, eng)
BY DEF At, Idle, CallInv, KnownAt

\* Methods go on.
LEMMA StepAlone ==
  ASSUME PbInv, CallInv, NEW t \in Threads, PbStep(t)
  PROVE  CallInv'
<1> USE DEF PbInv
<1>1. CASE PlayCall(t)
  <2>1. CASE CtrlPlay /\ Goto(t, Frame("set", "BUFFERING"))
    <3>1. KnownAt(Frame("set", "BUFFERING"), stt', eng')
      BY <2>1 DEF CtrlPlay, KnownAt, Agrees, Frame
    <3>2. Frame("set", "BUFFERING") \in Frames
      BY PlainFrames DEF PBCStates
    <3>3. Frame("set", "BUFFERING").pc = "set"
      BY DEF Frame
    <3> QED BY <1>1, <2>1, <3>1, <3>2, <3>3, KnownHere, GotoAlone DEF PlayCall
  <2>2. CASE Return(t) /\ UNCHANGED eng
    <3>1. ~Idle(t) /\ Agrees(stt, eng)
      BY <1>1, KnownHere DEF PlayCall
    <3>2. Agrees(stt', eng')
      BY <1>1, <2>2, <3>1 DEF PlayCall, Agrees
    <3> QED BY <2>2, <3>1, <3>2, ReturnAlone
  <2> QED BY <1>1, <2>1, <2>2 DEF PlayCall
<1>2. CASE OpenCheck(t)
  <2>1. Arg(t) \in Paths
    BY <1>2, Arguments DEF OpenCheck, At
  <2>2. ~Idle(t) /\ Agrees(stt, eng)
    BY <1>2, KnownHere DEF OpenCheck
  <2>3. Agrees(stt', eng')
    BY <1>2, <2>2 DEF OpenCheck, Agrees
  <2>4. CASE Goto(t, Frame("param", Arg(t)))
    <3>1. KnownAt(Frame("param", Arg(t)), stt', eng')
      BY <2>3 DEF KnownAt, Frame
    <3>2. Frame("param", Arg(t)) \in Frames /\ Frame("param", Arg(t)).pc = "param"
      BY <2>1, PlainFrames DEF Frame
    <3> QED BY <2>2, <2>4, <3>1, <3>2, GotoAlone
  <2>5. CASE /\ stt \notin {"STOP", "IDLE"}
             /\ stack' = [stack EXCEPT ![t] =
                  <<Plain("stop"), Frame("stopping", Arg(t))>> \o Tail(@)]
    <3>1. Tail(stack[t]) = <<>>
      BY <1>2, <2>5 DEF OpenCheck, At, CallInv, ShallowAt
    <3> DEFINE r == <<Plain("stop"), Frame("stopping", Arg(t))>>
    <3>2. r \in Seq(Frames) /\ Len(r) = 2 /\ r # <<>> /\ Head(r) = Plain("stop")
      BY <2>1, PlainFrames DEF PlainPCs
    <3>3. stack' = [stack EXCEPT ![t] = r]
      BY <2>5, <3>1, <3>2, ConcatEmptySeq
    <3>4. ShallowAt(r, stt')
      BY <3>2 DEF ShallowAt, Plain, Frame
    <3>5. KnownAt(Head(r), stt', eng')
      BY <2>3, <3>2 DEF KnownAt, Plain, Frame
    <3>6. Alone(t)
      BY <2>2 DEF CallInv, Alone
    <3> HIDE DEF r
    <3> QED BY <3>2, <3>3, <3>4, <3>5, <3>6, MoveAlone
  <2> QED BY <1>2, <2>4, <2>5 DEF OpenCheck
<1>3. CASE OpenParam(t)
  <2>1. ~Idle(t) /\ Agrees(stt, eng)
    BY <1>3, KnownHere DEF OpenParam
  <2>2. Agrees(stt', eng')
    BY <1>3, <2>1 DEF OpenParam, Agrees
  <2>3. CASE Goto(t, Plain("play"))
    <3>1. KnownAt(Plain("play"), stt', eng')
      BY <2>2 DEF KnownAt, Plain, Frame
    <3>2. Plain("play") \in Frames /\ Plain("play").pc = "play"
      BY PlainFrames DEF PlainPCs, Plain, Frame
    <3> QED BY <2>1, <2>3, <3>1, <3>2, GotoAlone
  <2>4. CASE Return(t)
    BY <2>1, <2>2, <2>4, ReturnAlone
  <2> QED BY <1>3, <2>3, <2>4 DEF OpenParam
<1>4. CASE PauseCall(t)
  <2>1. ~Idle(t) /\ Agrees(stt, eng)
    BY <1>4, KnownHere DEF PauseCall
  <2>2. CASE CtrlPause /\ Goto(t, Plain("pausepoll"))
    <3>1. KnownAt(Plain("pausepoll"), stt', eng')
      BY <2>1, <2>2 DEF CtrlPause, KnownAt, Agrees, Plain, Frame
    <3>2. Plain("pausepoll") \in Frames /\ Plain("pausepoll").pc = "pausepoll"
      BY PlainFrames DEF PlainPCs, Plain, Frame
    <3> QED BY <2>1, <2>2, <3>1, <3>2, GotoAlone
  <2>3. CASE Return(t) /\ UNCHANGED eng
    <3>1. Agrees(stt', eng')
      BY <1>4, <2>1, <2>3 DEF PauseCall, Agrees
    <3> QED BY <2>1, <2>3, <3>1, ReturnAlone
  <2> QED BY <1>4, <2>2, <2>3 DEF PauseCall
<1>5. CASE PausePoll(t)
  <2>1. ~Idle(t) /\ KnownAt(Head(stack[t]), stt, eng) /\ Head(stack[t]).pc = "pausepoll"
    BY <1>5, KnownHere DEF PausePoll
  <2>2. KnownAt(Frame("set", "PAUSE"), stt', eng')
    BY <1>5, <2>1 DEF PausePoll, PollEnds, KnownAt, Agrees, Frame
  <2>3. Frame("set", "PAUSE") \in Frames /\ Frame("set", "PAUSE").pc = "set"
    BY PlainFrames DEF PBCStates, Frame
  <2> QED BY <1>5, <2>1, <2>2, <2>3, GotoAlone DEF PausePoll
<1>6. CASE StopCall(t)
  <2>1. ~Idle(t) /\ Agrees(stt, eng)
    BY <1>6, KnownHere DEF StopCall
  <2>2. CASE CtrlStop /\ Goto(t, Plain("stoppoll"))
    <3>1. KnownAt(Plain("stoppoll"), stt', eng')
      BY <2>1, <2>2 DEF CtrlStop, KnownAt, Plain, Frame
    <3>2. Plain("stoppoll") \in Frames /\ Plain("stoppoll").pc = "stoppoll"
      BY PlainFrames DEF PlainPCs, Plain, Frame
    <3> QED BY <2>1, <2>2, <3>1, <3>2, GotoAlone
  <2>3. CASE /\ stack' = [stack EXCEPT ![t] =
                  IF Tail(@) = <<>> THEN <<>> ELSE Unwind(Tail(@))]
             /\ UNCHANGED eng
    <3>1. Agrees(stt', eng')
      BY <1>6, <2>1, <2>3 DEF StopCall, Agrees
    <3>2. Stack(stack[t]) /\ stack[t] # <<>> /\ Len(stack[t]) <= 2
      BY <2>1 DEF StacksOK, Idle, CallInv, ShallowAt
    <3>3. stack' = [stack EXCEPT ![t] = <<>>]
      BY <2>3, <3>2, ShortStacks
    <3>4. Alone(t) /\ ShallowAt(<<>>, stt')
      BY <2>1 DEF CallInv, Alone, ShallowAt
    <3> QED BY <3>1, <3>3, <3>4, MoveAlone
  <2> QED BY <1>6, <2>2, <2>3 DEF StopCall
<1>7. CASE StopPoll(t)
  <2>1. ~Idle(t) /\ KnownAt(Head(stack[t]), stt, eng) /\ Head(stack[t]).pc = "stoppoll"
    BY <1>7, KnownHere DEF StopPoll
  <2>2. KnownAt(Frame("set", "STOP"), stt', eng')
    BY <1>7, <2>1 DEF StopPoll, PollEnds, KnownAt, Agrees, Frame
  <2>3. Frame("set", "STOP") \in Frames /\ Frame("set", "STOP").pc = "set"
    BY PlainFrames DEF PBCStates, Frame
  <2> QED BY <1>7, <2>1, <2>2, <2>3, GotoAlone DEF StopPoll
<1>8. CASE SetState(t)
  <2>1. ~Idle(t) /\ KnownAt(Head(stack[t]), stt, eng) /\ Head(stack[t]).pc = "set"
    BY <1>8, KnownHere DEF SetState
  <2>2. KnownAt(Plain("notify"), stt', eng')
    BY <1>8, <2>1 DEF SetState, KnownAt, Agrees, Plain, Frame, Arg
  <2>3. Plain("notify") \in Frames /\ Plain("notify").pc = "notify"
    BY PlainFrames DEF PlainPCs, Plain, Frame
  <2> QED BY <1>8, <2>1, <2>2, <2>3, GotoAlone DEF SetState
<1>9. CASE NotifyProxy(t)
  <2>1. ~Idle(t) /\ Agrees(stt, eng)
    BY <1>9, KnownHere DEF NotifyProxy
  <2>2. Agrees(stt', eng')
    BY <1>9, <2>1 DEF NotifyProxy, Agrees
  <2>3. CASE stt = "STOP"
    <3>1. KnownAt(Plain("cb"), stt', eng')
      BY <2>2 DEF KnownAt, Plain, Frame
    <3>2. Plain("cb") \in Frames
      BY PlainFrames DEF PlainPCs
    <3> QED BY <1>9, <2>1, <2>3, <3>1, <3>2, GotoAlone DEF NotifyProxy
  <2>4. CASE stt # "STOP"
    BY <1>9, <2>1, <2>2, <2>4, ReturnAlone DEF NotifyProxy
  <2> QED BY <2>3, <2>4
<1>10. CASE TickCheck(t)
  <2>1. ~Idle(t) /\ Agrees(stt, eng) /\ KnownAt(Head(stack[t]), stt, eng) /\ Head(stack[t]).pc = "tick"
    BY <1>10, KnownHere DEF TickCheck
  <2>2. CASE Goto(t, Frame("set", "PLAY"))
    <3>1. KnownAt(Frame("set", "PLAY"), stt', eng')
      BY <1>10, <2>1 DEF TickCheck, KnownAt, Agrees, Frame
    <3>2. Frame("set", "PLAY") \in Frames /\ Frame("set", "PLAY").pc = "set"
      BY PlainFrames DEF PBCStates, Frame
    <3> QED BY <2>1, <2>2, <3>1, <3>2, GotoAlone
  <2>3. CASE Return(t)
    <3>1. Agrees(stt', eng')
      BY <1>10, <2>1 DEF TickCheck, Agrees
    <3> QED BY <2>1, <2>3, <3>1, ReturnAlone
  <2> QED BY <1>10, <2>2, <2>3 DEF TickCheck
<1> QED
  BY <1>1, <1>2, <1>3, <1>4, <1>5, <1>6, <1>7, <1>8, <1>9, <1>10 DEF PbStep

\* Calls and events, while nobody is inside.
LEMMA EntryAlone ==
  ASSUME PbInv, CallInv, AtRest,
         EngineEvent \/ \E t \in Users : UserCall(t)
  PROVE  CallInv'
<1> USE DEF PbInv
<1>0. Agrees(stt, eng)
  BY DEF CallInv
<1>1. ENG \in Threads /\ Users \subseteq Threads
  BY DEF Threads
<1>2. CASE EngineEvent
  <2>1. CASE EvtCurTime
    <3>1. Plain("tick") \in Frames /\ Plain("tick").pc = "tick"
      BY PlainFrames DEF PlainPCs, Plain, Frame
    <3>2. KnownAt(Plain("tick"), stt', eng')
      BY <1>0, <2>1 DEF EvtCurTime, Streaming, KnownAt, Agrees, Plain, Frame
    <3> QED BY <1>1, <2>1, <3>1, <3>2, EnterAlone DEF EvtCurTime
  <2>2. ASSUME NEW x \in {"STOP", "PB_ERR"}, eng' = "ready", Enter(ENG, Frame("set", x))
        PROVE  CallInv'
    <3>1. Frame("set", x) \in Frames /\ Frame("set", x).pc = "set"
      BY PlainFrames DEF PBCStates, Frame
    <3>2. KnownAt(Frame("set", x), stt', eng')
      BY <2>2 DEF KnownAt, Agrees, Frame
    <3> QED BY <1>1, <2>2, <3>1, <3>2, EnterAlone
  <2> QED BY <1>2, <2>1, <2>2 DEF EngineEvent, EvtEos, EvtError
<1>3. ASSUME NEW t \in Users, UserCall(t) PROVE CallInv'
  <2>1. UNCHANGED <<stt, eng>>
    BY <1>3 DEF UserCall, mrPlay, mrPause, mrResume, mrStop, mrPlayPath
  <2>2. Agrees(stt', eng')
    BY <1>0, <2>1 DEF Agrees
  <2>3. ASSUME NEW pc \in {"play", "pause", "stop"}, Enter(t, Plain(pc)) PROVE CallInv'
    <3>1. Plain(pc) \in Frames /\ Plain(pc).pc = pc
      BY PlainFrames DEF PlainPCs, Plain, Frame
    <3>2. KnownAt(Plain(pc), stt', eng')
      BY <2>2 DEF KnownAt, Plain, Frame
    <3> QED BY <1>1, <2>3, <3>1, <3>2, EnterAlone
  <2>4. ASSUME NEW p \in Paths, Enter(t, Frame("open", p)) PROVE CallInv'
    <3>1. Frame("open", p) \in Frames /\ Frame("open", p).pc = "open"
      BY PlainFrames DEF Frame
    <3>2. KnownAt(Frame("open", p), stt', eng')
      BY <2>2 DEF KnownAt, Frame
    <3> QED BY <1>1, <2>4, <3>1, <3>2, EnterAlone
  <2> QED BY <1>3, <2>3, <2>4 DEF UserCall, mrPlay, mrPause, mrResume, mrStop, mrPlayPath
<1> QED BY <1>2, <1>3

\* The engine, the client and the bound.
LEMMA CallInvNext ==
  ASSUME PbInv, CallInv, [PbNext]_pbVars, OneAtATime
  PROVE  CallInv'
<1> USE DEF PbInv
<1>1. ASSUME UNCHANGED stack, UNCHANGED <<stt, eng>> PROVE CallInv'
  BY <1>1 DEF CallInv, ShallowAt, KnownAt, Agrees, Idle, AtRest, Threads
<1>2. CASE EngineSettles
  <2>1. UNCHANGED <<stack, stt>>
    BY <1>2 DEF EngineSettles
  <2>2. ASSUME NEW x, Agrees(x, eng) PROVE Agrees(x, eng')
    BY <1>2, <2>2 DEF EngineSettles, Agrees
  <2>3. ASSUME NEW f, KnownAt(f, stt, eng) PROVE KnownAt(f, stt', eng')
    BY <1>2, <2>1, <2>3, <2>2 DEF EngineSettles, KnownAt, Agrees
  <2> QED BY <2>1, <2>2, <2>3 DEF CallInv, ShallowAt, Idle, AtRest, Threads
<1>3. ASSUME NEW t \in Threads, ClientStep(t) PROVE CallInv'
  <2>1. At(t, "cb") /\ UNCHANGED <<stt, eng>>
    BY <1>3 DEF ClientStep, ClientReturns, ClientOpens
  <2>2. ~Idle(t) /\ Agrees(stt, eng) /\ stt = "STOP"
    BY <2>1, KnownHere DEF CallInv, ShallowAt, At
  <2>3. Agrees(stt', eng') /\ stt' = "STOP"
    BY <2>1, <2>2 DEF Agrees
  <2>4. CASE Return(t)
    BY <2>2, <2>3, <2>4, ReturnAlone
  <2>5. ASSUME NEW p \in Paths, Goto(t, Frame("open", p)) PROVE CallInv'
    <3>1. KnownAt(Frame("open", p), stt', eng')
      BY <2>3 DEF KnownAt, Frame
    <3> QED BY <2>2, <2>3, <2>5, <3>1, PlainFrames, GotoAlone
  <2> QED BY <1>3, <2>4, <2>5 DEF ClientStep, ClientReturns, ClientOpens
<1>4. ASSUME EngineEvent \/ \E t \in Users : UserCall(t) PROVE CallInv'
  <2>1. \E t \in Threads, f \in Frames : Enter(t, f)
    BY <1>4, PlainFrames
       DEF EngineEvent, EvtCurTime, EvtEos, EvtError, UserCall, mrPlay, mrPause, mrResume,
           mrStop, mrPlayPath, Threads, PlainPCs, PBCStates
  <2>2. AtRest
    BY <2>1 DEF Enter, Idle, OneAtATime, StacksOK
  <2> QED BY <1>4, <2>2, EntryAlone
<1> QED BY <1>1, <1>2, <1>3, <1>4, StepAlone DEF PbNext, AtBound, pbVars

LEMMA CallInvInit == PbInit => CallInv
BY EmptySeq DEF PbInit, CallInv, Idle, AtRest, ShallowAt, Agrees

LEMMA SerialCalls == PbMCSpec => [](~overlapped => CallInv)
<1>1. PbMCInit => PbInv /\ CallInv
  BY PbInitInv, CallInvInit DEF PbMCInit
<1>2. PbInv /\ [PbMCNext]_pbMCVars => PbInv'
  BY PbNextInv DEF PbMCNext, pbMCVars
<1>3. PbInv /\ (~overlapped => CallInv) /\ [PbMCNext]_pbMCVars => (~overlapped => CallInv)'
  <2> SUFFICES ASSUME PbInv, ~overlapped => CallInv, [PbMCNext]_pbMCVars, ~overlapped'
               PROVE  CallInv'
    OBVIOUS
  <2>1. CASE PbMCNext
    BY <2>1, CallInvNext DEF PbMCNext
  <2>2. CASE UNCHANGED pbMCVars
    <3>1. UNCHANGED pbVars /\ CallInv
      BY <2>2 DEF pbMCVars
    <3>2. OneAtATime
      BY <3>1 DEF OneAtATime, Idle, pbVars
    <3> QED BY <3>1, <3>2, CallInvNext
  <2> QED BY <2>1, <2>2
<1> QED BY <1>1, <1>2, <1>3, PTL DEF PbMCSpec

(* While calls and events do not overlap, the recursion mrPlay -> mrStop ->  *)
(* callback -> mrPlay is at most two deep, whatever the engine does and      *)
(* however the client answers (playback.cpp:338-345): the inner mrPlay finds *)
(* the STOP that was just set and does not stop again.                       *)
THEOREM RecursionIsShallow == PbMCSpec => []SerialReentryBounded
<1>1. (~overlapped => CallInv) => SerialReentryBounded
  BY DEF CallInv, ShallowAt, SerialReentryBounded, ReentryBounded
<1> QED BY <1>1, SerialCalls, PTL

(* While calls and events do not overlap, and the engine settles within the  *)
(* polls, the state between calls says that it plays exactly when it does,   *)
(* whichever calls it refused and errors it reported (playback.cpp:163-220). *)
THEOREM StateIsTheEngines ==
  ASSUME "late" \notin Faults
  PROVE  PbMCSpec => []SerialStateAgrees
<1>1. (~overlapped => CallInv) => SerialStateAgrees
  BY DEF CallInv, Agrees, SerialStateAgrees, StateAgreesWithEngine
<1> QED BY <1>1, SerialCalls, PTL

-----------------------------------------------------------------------------
(* Every call ends.                                                        *)

\* What a method at frame f has left to do in state x, in steps, when the
\* client's callback takes n of them and has k left once it has begun.
PointsLeft(f, x, n, k) ==
  CASE f.pc = "open"      -> IF x \in {"STOP", "IDLE"} THEN 5 ELSE 14 + n
    [] f.pc = "stop"      -> 9 + n
    [] f.pc = "stoppoll"  -> 8 + n
    [] f.pc = "set"       -> IF f.arg = "STOP" THEN 7 + n ELSE 2
    [] f.pc = "notify"    -> IF x = "STOP" THEN 6 + n ELSE 1
    [] f.pc = "cb"        -> 5 + k
    [] f.pc \in {"param", "pause"} -> 4
    [] f.pc \in {"play", "pausepoll", "tick"} -> 3

\* An mrPlay(path) in its mrStop goes on at SetEngineParam.
StepsLeft(s, x, n, k) ==
  IF s = <<>> THEN 0
  ELSE PointsLeft(Head(s), x, n, k) + (IF Tail(s) = <<>> THEN 0 ELSE 4)

LEMMA PointsAre ==
  ASSUME NEW f, NEW x, NEW n, NEW k
  PROVE  /\ f.pc = "open" =>
              PointsLeft(f, x, n, k) = IF x \in {"STOP", "IDLE"} THEN 5 ELSE 14 + n
         /\ f.pc = "stop" => PointsLeft(f, x, n, k) = 9 + n
         /\ f.pc = "stoppoll" => PointsLeft(f, x, n, k) = 8 + n
         /\ f.pc = "set" => PointsLeft(f, x, n, k) = IF f.arg = "STOP" THEN 7 + n ELSE 2
         /\ f.pc = "notify" => PointsLeft(f, x, n, k) = IF x = "STOP" THEN 6 + n ELSE 1
         /\ f.pc = "cb" => PointsLeft(f, x, n, k) = 5 + k
         /\ f.pc \in {"param", "pause"} => PointsLeft(f, x, n, k) = 4
         /\ f.pc \in {"play", "pausepoll", "tick"} => PointsLeft(f, x, n, k) = 3
BY DEF PointsLeft

\* The frame of a method that does not wait.
LEMMA TopFrame ==
  ASSUME StacksOK, NEW t \in Threads, ~Idle(t)
  PROVE  /\ Head(stack[t]) \in Frames
         /\ Head(stack[t]).pc \in (PathPCs \ {"stopping"}) \cup PlainPCs \cup {"set"}
<1>1. /\ stack[t] \in Seq(Frames) /\ stack[t] # <<>>
      /\ Nested(stack[t])
  BY DEF StacksOK, Stack, Idle
<1>2. Head(stack[t]) \in Frames /\ Head(stack[t]) = stack[t][1] /\ 1 \in 1..Len(stack[t])
  BY <1>1, HeadTailProperties, LenProperties, EmptySeq
<1>3. Head(stack[t]).pc # "stopping"
  BY <1>1, <1>2 DEF Nested
<1> QED BY <1>2, <1>3 DEF Frames

LEMMA StepsAreFew ==
  ASSUME StacksOK, CallInv, NEW t \in Threads, NEW n \in Nat \ {0}, NEW k \in 1..n
  PROVE  /\ StepsLeft(stack[t], stt, n, k) \in 0..(14 + n)
         /\ ~Idle(t) => PointsLeft(Head(stack[t]), stt, n, k) \in 1..(14 + n)
<1>1. CASE Idle(t)
  BY <1>1 DEF Idle, StepsLeft
<1>2. CASE ~Idle(t)
  <2> DEFINE f == Head(stack[t])
             p == PointsLeft(f, stt, n, k)
  <2>1. f.pc \in {"open", "stop", "stoppoll", "set", "notify", "cb", "param", "pause",
                  "play", "pausepoll", "tick"}
    BY <1>2, TopFrame DEF PathPCs, PlainPCs
  <2>2. f.pc = "open" /\ Tail(stack[t]) # <<>> => stt = "STOP"
    BY <1>2 DEF Idle, CallInv, ShallowAt
  <2>3. StepsLeft(stack[t], stt, n, k) = p + (IF Tail(stack[t]) = <<>> THEN 0 ELSE 4)
    BY <1>2 DEF Idle, StepsLeft
  <2>4. /\ p \in 1..(14 + n)
        /\ f.pc # "open" \/ stt \in {"STOP", "IDLE"} => p <= 9 + n
    <3> HIDE DEF f
    <3> QED BY <2>1, PointsAre
  <2> HIDE DEF f, p
  <2>5. Tail(stack[t]) = <<>> \/ p <= 9 + n
    BY <2>2, <2>4
  <2>6. p \in 1..(14 + n) /\ StepsLeft(stack[t], stt, n, k) \in 0..(14 + n)
    BY <2>3, <2>4, <2>5
  <2> QED BY <2>6 DEF p, f
<1> QED BY <1>1, <1>2

\* The innermost frame of a thread becomes one with less to do.
LEMMA GotoFewer ==
  ASSUME StacksOK, CallInv, NEW t \in Threads, ~Idle(t),
         NEW n \in Nat \ {0}, NEW k \in 1..n, NEW j \in 1..n,
         NEW f \in Frames, Goto(t, f),
         PointsLeft(f, stt', n, j) \in Nat,
         PointsLeft(f, stt', n, j) < PointsLeft(Head(stack[t]), stt, n, k)
  PROVE  StepsLeft(stack'[t], stt', n, j) < StepsLeft(stack[t], stt, n, k)
<1>1. Stack(stack[t]) /\ stack[t] # <<>> /\ Len(stack[t]) <= 2
  BY DEF StacksOK, Idle, CallInv, ShallowAt
<1>2. stack'[t] = <<f>> \o Tail(stack[t])
  BY DEF Goto, StacksOK
<1>3. stack'[t] # <<>> /\ Head(stack'[t]) = f /\ Tail(stack'[t]) = Tail(stack[t])
  BY <1>1, <1>2, ShortStacks
<1>4. PointsLeft(Head(stack[t]), stt, n, k) \in Nat
  BY StepsAreFew
<1>5. StepsLeft(stack[t], stt, n, k) =
        PointsLeft(Head(stack[t]), stt, n, k) + (IF Tail(stack[t]) = <<>> THEN 0 ELSE 4)
  BY <1>1 DEF StepsLeft
<1>6. StepsLeft(stack'[t], stt', n, j) =
        PointsLeft(f, stt', n, j) + (IF Tail(stack[t]) = <<>> THEN 0 ELSE 4)
  BY <1>3 DEF StepsLeft
<1>7. \A a, b \in Nat, c \in {0, 4} : a < b => a + c < b + c
  OBVIOUS
<1> QED BY <1>4, <1>5, <1>6, <1>7

\* The innermost method returns.
LEMMA ReturnFewer ==
  ASSUME StacksOK, CallInv, NEW t \in Threads, ~Idle(t),
         NEW n \in Nat \ {0}, NEW k \in 1..n, NEW j \in 1..n, Return(t)
  PROVE  StepsLeft(stack'[t], stt', n, j) < StepsLeft(stack[t], stt, n, k)
<1>1. Stack(stack[t]) /\ stack[t] # <<>> /\ Len(stack[t]) <= 2
  BY DEF StacksOK, Idle, CallInv, ShallowAt
<1>2. stack'[t] = Unwind(stack[t])
  BY DEF Return, StacksOK
<1>3. Tail(stack[t]) = <<>> => stack'[t] = <<>>
  BY <1>2 DEF Unwind
<1>4. Tail(stack[t]) # <<>> => stack'[t] # <<>>
  <2>1. ASSUME NEW f, NEW r PROVE <<f>> \o r # <<>>
    OBVIOUS
  <2> QED BY <1>2, <2>1 DEF Unwind
<1>5. \A p : StepsLeft(<<Frame("param", p)>>, stt', n, j) = 4
  <2>1. ASSUME NEW p PROVE StepsLeft(<<Frame("param", p)>>, stt', n, j) = 4
    <3>1. /\ <<Frame("param", p)>> # <<>> /\ Tail(<<Frame("param", p)>>) = <<>>
          /\ Head(<<Frame("param", p)>>) = Frame("param", p)
      OBVIOUS
    <3>2. Frame("param", p).pc = "param"
      BY DEF Frame
    <3>3. PointsLeft(Frame("param", p), stt', n, j) = 4
      BY <3>2, PointsAre
    <3> QED BY <3>1, <3>3 DEF StepsLeft
  <2> QED BY <2>1
<1>6. StepsLeft(<<>>, stt', n, j) = 0
  BY DEF StepsLeft
<1>7. PointsLeft(Head(stack[t]), stt, n, k) \in Nat \ {0}
  BY StepsAreFew
<1>8. StepsLeft(stack[t], stt, n, k) =
        PointsLeft(Head(stack[t]), stt, n, k) + (IF Tail(stack[t]) = <<>> THEN 0 ELSE 4)
  BY <1>1 DEF StepsLeft
<1>9. StepsLeft(stack'[t], stt', n, j) = IF Tail(stack[t]) = <<>> THEN 0 ELSE 4
  <2>1. CASE Tail(stack[t]) = <<>>
    BY <1>3, <1>6, <2>1
  <2>2. CASE Tail(stack[t]) # <<>>
    <3>1. \E p : stack'[t] = <<Frame("param", p)>>
      BY <1>1, <1>2, <1>4, <2>2, ShortStacks
    <3> QED BY <1>5, <2>2, <3>1
  <2> QED BY <2>1, <2>2
<1>10. \A a \in Nat \ {0}, c \in {0, 4} : c < a + c
  OBVIOUS
<1> QED BY <1>7, <1>8, <1>9, <1>10

\* A method goes on.
LEMMA StepFewer ==
  ASSUME PbInv, CallInv, NEW t \in Threads, PbStep(t), NEW n \in Nat \ {0}, NEW k \in 1..n
  PROVE  StepsLeft(stack'[t], stt', n, k) < StepsLeft(stack[t], stt, n, k)
<1> USE DEF PbInv
<1> DEFINE f == Head(stack[t])
           Fewer == StepsLeft(stack'[t], stt', n, k) < StepsLeft(stack[t], stt, n, k)
<1>1. ~Idle(t)
  BY DEF PbStep, PlayCall, OpenCheck, OpenParam, PauseCall, PausePoll, StopCall, StopPoll,
         SetState, NotifyProxy, TickCheck, At, Idle
<1>2. ASSUME NEW g \in Frames, Goto(t, g), PointsLeft(g, stt', n, k) \in Nat,
             PointsLeft(g, stt', n, k) < PointsLeft(f, stt, n, k)
      PROVE  Fewer
  BY <1>1, <1>2, GotoFewer
<1>3. ASSUME Return(t) PROVE Fewer
  BY <1>1, <1>3, ReturnFewer
<1>4. ASSUME NEW pc \in PlainPCs PROVE Plain(pc) \in Frames /\ Plain(pc).pc = pc
  BY PlainFrames DEF Plain, Frame
<1>5. ASSUME NEW x \in PBCStates
      PROVE  /\ Frame("set", x) \in Frames
             /\ Frame("set", x).pc = "set" /\ Frame("set", x).arg = x
  BY PlainFrames DEF Frame
<1>6. ASSUME NEW q \in Paths
      PROVE  Frame("param", q) \in Frames /\ Frame("param", q).pc = "param"
  BY PlainFrames DEF Frame
<1> SUFFICES Fewer
  OBVIOUS
<1> HIDE DEF Fewer
<1>7. CASE PlayCall(t)
  <2>1. CASE Goto(t, Frame("set", "BUFFERING"))
    <3>1. PointsLeft(f, stt, n, k) = 3 /\ PointsLeft(Frame("set", "BUFFERING"), stt', n, k) = 2
      BY <1>7, <1>5, PointsAre DEF PlayCall, At, PBCStates
    <3> QED BY <1>2, <1>5, <2>1, <3>1 DEF PBCStates
  <2> QED BY <1>3, <1>7, <2>1 DEF PlayCall
<1>8. CASE OpenCheck(t)
  <2>1. Arg(t) \in Paths /\ f.pc = "open"
    BY <1>8, Arguments DEF OpenCheck, At
  <2>2. CASE stt \in {"STOP", "IDLE"} /\ Goto(t, Frame("param", Arg(t)))
    <3>1. PointsLeft(f, stt, n, k) = 5 /\ PointsLeft(Frame("param", Arg(t)), stt', n, k) = 4
      BY <1>6, <2>1, <2>2, PointsAre
    <3> QED BY <1>2, <1>6, <2>1, <2>2, <3>1
  <2>3. CASE /\ stt \notin {"STOP", "IDLE"}
             /\ stack' = [stack EXCEPT ![t] =
                  <<Plain("stop"), Frame("stopping", Arg(t))>> \o Tail(@)]
    <3>1. Tail(stack[t]) = <<>> /\ stack[t] # <<>>
      BY <1>1, <2>1, <2>3 DEF CallInv, ShallowAt, Idle
    <3> DEFINE r == <<Plain("stop"), Frame("stopping", Arg(t))>>
    <3>2. r \in Seq(Frames) /\ r # <<>> /\ Head(r) = Plain("stop") /\ Tail(r) # <<>>
      BY <2>1, PlainFrames DEF PlainPCs
    <3>3. stack'[t] = r
      BY <2>3, <3>1, <3>2, ConcatEmptySeq DEF StacksOK
    <3>4. /\ PointsLeft(f, stt, n, k) = 14 + n
          /\ PointsLeft(Plain("stop"), stt', n, k) = 9 + n
      BY <1>4, <2>1, <2>3, PointsAre DEF PlainPCs
    <3>5. StepsLeft(stack[t], stt, n, k) = 14 + n
      BY <3>1, <3>4 DEF StepsLeft
    <3> HIDE DEF r
    <3>6. StepsLeft(stack'[t], stt', n, k) = 13 + n
      BY <3>2, <3>3, <3>4 DEF StepsLeft
    <3> QED BY <3>5, <3>6 DEF Fewer
  <2> QED BY <1>8, <2>2, <2>3 DEF OpenCheck
<1>9. CASE OpenParam(t)
  <2>1. CASE Goto(t, Plain("play"))
    <3>1. PointsLeft(f, stt, n, k) = 4 /\ PointsLeft(Plain("play"), stt', n, k) = 3
      BY <1>4, <1>9, PointsAre DEF OpenParam, At, PlainPCs
    <3> QED BY <1>2, <1>4, <2>1, <3>1 DEF PlainPCs
  <2> QED BY <1>3, <1>9, <2>1 DEF OpenParam
<1>10. CASE PauseCall(t)
  <2>1. CASE Goto(t, Plain("pausepoll"))
    <3>1. PointsLeft(f, stt, n, k) = 4 /\ PointsLeft(Plain("pausepoll"), stt', n, k) = 3
      BY <1>4, <1>10, PointsAre DEF PauseCall, At, PlainPCs
    <3> QED BY <1>2, <1>4, <2>1, <3>1 DEF PlainPCs
  <2> QED BY <1>3, <1>10, <2>1 DEF PauseCall
<1>11. CASE PausePoll(t)
  <2>1. PointsLeft(f, stt, n, k) = 3 /\ PointsLeft(Frame("set", "PAUSE"), stt', n, k) = 2
    BY <1>5, <1>11, PointsAre DEF PausePoll, At, PBCStates
  <2> QED BY <1>2, <1>5, <1>11, <2>1 DEF PausePoll, PBCStates
<1>12. CASE StopCall(t)
  <2>1. CASE Goto(t, Plain("stoppoll"))
    <3>1. /\ PointsLeft(f, stt, n, k) = 9 + n
          /\ PointsLeft(Plain("stoppoll"), stt', n, k) = 8 + n
      BY <1>4, <1>12, PointsAre DEF StopCall, At, PlainPCs
    <3> QED BY <1>2, <1>4, <2>1, <3>1 DEF PlainPCs
  <2>2. CASE stack' = [stack EXCEPT ![t] =
                IF Tail(@) = <<>> THEN <<>> ELSE Unwind(Tail(@))]
    <3>1. Stack(stack[t]) /\ stack[t] # <<>> /\ Len(stack[t]) <= 2
      BY <1>1 DEF StacksOK, Idle, CallInv, ShallowAt
    <3>2. stack'[t] = <<>>
      BY <2>2, <3>1, ShortStacks DEF StacksOK
    <3>3. StepsLeft(stack'[t], stt', n, k) = 0
      BY <3>2 DEF StepsLeft
    <3>4. PointsLeft(f, stt, n, k) = 9 + n
      BY <1>12, PointsAre DEF StopCall, At
    <3>5. StepsLeft(stack[t], stt, n, k) = 9 + n + (IF Tail(stack[t]) = <<>> THEN 0 ELSE 4)
      BY <3>1, <3>4 DEF StepsLeft
    <3> QED BY <3>3, <3>5 DEF Fewer
  <2> QED BY <1>12, <2>1, <2>2 DEF StopCall
<1>13. CASE StopPoll(t)
  <2>1. PointsLeft(f, stt, n, k) = 8 + n /\ PointsLeft(Frame("set", "STOP"), stt', n, k) = 7 + n
    BY <1>5, <1>13, PointsAre DEF StopPoll, At, PBCStates
  <2> QED BY <1>2, <1>5, <1>13, <2>1 DEF StopPoll, PBCStates
<1>14. CASE SetState(t)
  <2>1. f.pc = "set" /\ stt' = f.arg /\ Goto(t, Plain("notify"))
    BY <1>14 DEF SetState, At, Arg
  <2>2. /\ PointsLeft(f, stt, n, k) = IF stt' = "STOP" THEN 7 + n ELSE 2
        /\ PointsLeft(Plain("notify"), stt', n, k) = IF stt' = "STOP" THEN 6 + n ELSE 1
    BY <1>4, <2>1, PointsAre DEF PlainPCs
  <2> QED BY <1>2, <1>4, <2>1, <2>2 DEF PlainPCs
<1>15. CASE NotifyProxy(t)
  <2>1. CASE stt = "STOP"
    <3>1. PointsLeft(f, stt, n, k) = 6 + n /\ PointsLeft(Plain("cb"), stt', n, k) = 5 + k
      BY <1>4, <1>15, <2>1, PointsAre DEF NotifyProxy, At, PlainPCs
    <3> QED BY <1>2, <1>4, <1>15, <2>1, <3>1 DEF NotifyProxy, PlainPCs
  <2> QED BY <1>3, <1>15, <2>1 DEF NotifyProxy
<1>16. CASE TickCheck(t)
  <2>1. CASE Goto(t, Frame("set", "PLAY"))
    <3>1. PointsLeft(f, stt, n, k) = 3 /\ PointsLeft(Frame("set", "PLAY"), stt', n, k) = 2
      BY <1>5, <1>16, PointsAre DEF TickCheck, At, PBCStates
    <3> QED BY <1>2, <1>5, <2>1, <3>1 DEF PBCStates
  <2> QED BY <1>3, <1>16, <2>1 DEF TickCheck
<1> QED
  BY <1>7, <1>8, <1>9, <1>10, <1>11, <1>12, <1>13, <1>14, <1>15, <1>16 DEF PbStep

\* The callback of a client starts mrPlay(path), or returns.
LEMMA CallbackFewer ==
  ASSUME PbInv, CallInv, NEW t \in Threads, At(t, "cb"),
         Return(t) \/ \E p \in Paths : Goto(t, Frame("open", p)), UNCHANGED stt,
         NEW n \in Nat \ {0}, NEW k \in 1..n, NEW j \in 1..n
  PROVE  StepsLeft(stack'[t], stt', n, j) < StepsLeft(stack[t], stt, n, k)
<1> USE DEF PbInv
<1>1. ~Idle(t) /\ stt = "STOP" /\ PointsLeft(Head(stack[t]), stt, n, k) = 5 + k
  BY PointsAre DEF At, Idle, CallInv, ShallowAt
<1>2. CASE Return(t)
  BY <1>1, <1>2, ReturnFewer
<1>3. ASSUME NEW p \in Paths, Goto(t, Frame("open", p))
      PROVE  StepsLeft(stack'[t], stt', n, j) < StepsLeft(stack[t], stt, n, k)
  <2>1. Frame("open", p) \in Frames /\ Frame("open", p).pc = "open"
    BY PlainFrames DEF Frame
  <2>2. PointsLeft(Frame("open", p), stt', n, j) = 5
    BY <1>1, <2>1, PointsAre
  <2> QED BY <1>1, <1>3, <2>1, <2>2, GotoFewer
<1> QED BY <1>2, <1>3

\* Where one thread is inside, the others do not move.
LEMMA StepsOfOne ==
  ASSUME PbInv, CallInv, NEW t \in Threads, ~Idle(t), NEW u \in Threads,
         PbStep(u) \/ At(u, "cb")
  PROVE  u = t
BY DEF PbStep, PlayCall, OpenCheck, OpenParam, PauseCall, PausePoll, StopCall, StopPoll,
       SetState, NotifyProxy, TickCheck, At, Idle, CallInv

LEMMA EntriesAreAlone ==
  ASSUME StacksOK, OneAtATime, EngineEvent \/ \E u \in Users : UserCall(u)
  PROVE  AtRest
<1>1. \E t \in Threads, f \in Frames : Enter(t, f)
  BY PlainFrames
     DEF EngineEvent, EvtCurTime, EvtEos, EvtError, UserCall, mrPlay, mrPause, mrResume,
         mrStop, mrPlayPath, Threads, PlainPCs, PBCStates
<1> QED BY <1>1 DEF Enter, Idle, OneAtATime, StacksOK

\* Each step of Playback, while one thread at most is inside.
LEMMA CallGoesOn ==
  ASSUME PbInv, CallInv, [PbNext]_pbVars, OneAtATime, NEW t \in Threads, ~Idle(t)
  PROVE  \/ StepsLeft(stack'[t], stt', 1, 1) < StepsLeft(stack[t], stt, 1, 1)
         \/ UNCHANGED <<stack[t], stt>>
<1> USE DEF PbInv
<1>0. 1 \in Nat \ {0} /\ 1 \in 1..1
  OBVIOUS
<1>1. ASSUME NEW u \in Threads, PbStep(u)
      PROVE  StepsLeft(stack'[t], stt', 1, 1) < StepsLeft(stack[t], stt, 1, 1)
  BY <1>0, <1>1, StepsOfOne, StepFewer
<1>2. ASSUME NEW u \in Threads, ClientStep(u)
      PROVE  StepsLeft(stack'[t], stt', 1, 1) < StepsLeft(stack[t], stt, 1, 1)
  <2>1. /\ At(u, "cb") /\ UNCHANGED stt
        /\ Return(u) \/ \E p \in Paths : Goto(u, Frame("open", p))
    BY <1>2 DEF ClientStep, ClientReturns, ClientOpens
  <2> QED BY <1>0, <2>1, StepsOfOne, CallbackFewer
<1>3. ~(EngineEvent \/ \E u \in Users : UserCall(u))
  BY EntriesAreAlone DEF AtRest
<1>4. EngineSettles \/ AtBound \/ UNCHANGED pbVars => UNCHANGED <<stack[t], stt>>
  BY DEF EngineSettles, AtBound, pbVars
<1> QED BY <1>1, <1>2, <1>3, <1>4 DEF PbNext

(* While calls and events do not overlap every method comes to its end: a   *)
(* call is over after at most 15 steps of its thread, and each of these     *)
(* brings it nearer, through mrStop, the callback, the mrPlay(path) the     *)
(* client makes there and the return to the one that was interrupted        *)
(* (playback.cpp:305-520).  What it may wait for is the engine, 101 polls   *)
(* at most.                                                                 *)
THEOREM EveryCallEnds ==
  /\ PbMCSpec => [](~overlapped => \A t \in Threads : StepsLeft(stack[t], stt, 1, 1) \in 0..15)
  /\ PbMCSpec => [][~overlapped' =>
       \A t \in Threads : ~Idle(t) =>
         \/ StepsLeft(stack'[t], stt', 1, 1) < StepsLeft(stack[t], stt, 1, 1)
         \/ UNCHANGED <<stack[t], stt>>]_pbMCVars
<1>1. PbMCInit => PbInv
  BY PbInitInv DEF PbMCInit
<1>2. PbInv /\ [PbMCNext]_pbMCVars => PbInv'
  BY PbNextInv DEF PbMCNext, pbMCVars
<1>3. PbInv /\ (~overlapped => CallInv) =>
        (~overlapped => \A t \in Threads : StepsLeft(stack[t], stt, 1, 1) \in 0..15)
  <2>1. 1 \in Nat \ {0} /\ 1 \in 1..1 /\ 14 + 1 = 15
    OBVIOUS
  <2> QED BY <2>1, StepsAreFew DEF PbInv
<1>4. PbInv /\ (~overlapped => CallInv) /\ [PbMCNext]_pbMCVars =>
        [~overlapped' =>
           \A t \in Threads : ~Idle(t) =>
             \/ StepsLeft(stack'[t], stt', 1, 1) < StepsLeft(stack[t], stt, 1, 1)
             \/ UNCHANGED <<stack[t], stt>>]_pbMCVars
  BY CallGoesOn DEF PbMCNext
<1> QED BY <1>1, <1>2, <1>3, <1>4, SerialCalls, PTL DEF PbMCSpec
=============================================================================
