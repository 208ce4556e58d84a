--------------------------- MODULE PThread_proofs ---------------------------
(* The threads of a Playback and of the servers, whatever fails, whatever   *)
(* the compiler made of the idle task, and for any number of peers.         *)
EXTENDS PThread, SequenceTheorems, TLAPS

Joined == id # NoId /\ ThreadIs(id, "joined")

\* Before its construction.
Unborn ==
  object = "none" =>
    /\ id = NoId /\ threads = <<>>
    /\ owner = "idle" /\ ~terminated /\ engine = "none"
    /\ socket = "none" /\ ~started

\* A Playback has at most one thread, which is joined at one place at a time.
PlaybackInv ==
  kind = "Playback" =>
    /\ id = Len(threads) /\ Len(threads) <= 1
    /\ owner \in {"clear", "close"} \/ terminated \/ object = "freed" => Joined
    /\ owner = "close" => object = "whole" /\ ~running /\ ~terminated
    /\ object = "whole" /\ terminated => owner = "idle" /\ ~running
    /\ object = "whole" /\ ~terminated /\ owner \in {"idle", "join", "assert"} /\ id # NoId
         => running /\ ~Joined
    /\ object = "base" => owner \in {"join", "clear"}
    /\ object = "freed" => owner = "idle"

\* The owner of a server never waits.
ServerInv ==
  kind \in Servers =>
    /\ ~terminated
    /\ owner = "idle" \/ (owner = "clear" /\ object = "base")

\* A Cli starts one thread, on the socket it has bound.
CliInv ==
  kind = "Cli" =>
    /\ Len(threads) <= 1
    /\ started => object = "whole" /\ socket = "bound"
    /\ object = "whole" /\ ~started => threads = <<>>

PInv ==
  TypeOK /\ Unborn /\ PlaybackInv /\ ServerInv /\ CliInv /\ TerminatedIsQuiet

LEMMA InitHolds == Init => PInv
<1> SUFFICES ASSUME Init PROVE PInv
  OBVIOUS
<1> USE DEF Init
<1>1. TypeOK
  <2>1. threads \in Seq(ThreadStates) /\ id \in Tids \cup {NoId}
    OBVIOUS
  <2>2. peers \in 0..came /\ came \in 0..MaxPeers
    BY PThreadAssumption
  <2> QED BY <2>1, <2>2, Zenon DEF TypeOK, OwnerPoints
<1>2. Unborn /\ PlaybackInv /\ ServerInv /\ CliInv /\ TerminatedIsQuiet
  BY DEF Unborn, PlaybackInv, ServerInv, CliInv, TerminatedIsQuiet, NoId
<1> QED BY <1>1, <1>2 DEF PInv

\* What a step of the owner or of a peer leaves alone.
LEMMA UndefinedKeeps ==
  ASSUME PInv, NEW what \in Mistakes, Undefined(what),
         terminated /\ engine = "closed" => what \notin {"pureCall", "usedFreed"}
  PROVE  PInv'
BY DEF Undefined, PInv, TypeOK, Unborn, PlaybackInv, ServerInv, CliInv, TerminatedIsQuiet,
       Joined, Tids, ThreadIs, fixedVars, baseVars, playbackVars, serverVars

\* What a thread does keeps the number of threads, and no thread is joined
\* by its own doing.
LEMMA ThreadGoesKeeps ==
  ASSUME PInv, NEW i \in Tids, NEW st \in ThreadStates \ {"joined"},
         threads[i] # "joined", ThreadGoes(i, st),
         running' \in BOOLEAN, running => running',
         UNCHANGED <<fixedVars, object, owner, undefined, id, playbackVars, socket, started, came>>,
         peers' \in 0..came
  PROVE  PInv'
<1>1. threads' \in Seq(ThreadStates) /\ Len(threads') = Len(threads)
  BY ExceptSeq DEF PInv, TypeOK, ThreadGoes, Tids
<1>2. \A j \in Tids : (threads'[j] = "joined") <=> (threads[j] = "joined")
  BY ExceptSeq DEF PInv, TypeOK, ThreadGoes, Tids
<1>3. TypeOK'
  BY <1>1 DEF PInv, TypeOK, Tids, fixedVars, playbackVars
<1>4. (Joined <=> Joined') /\ (threads = <<>> <=> threads' = <<>>)
  BY <1>1, <1>2 DEF PInv, TypeOK, Joined, ThreadIs, Tids
<1>5. kind = "Playback" => id # NoId /\ ~Joined /\ ~Joined'
  BY <1>4 DEF PInv, TypeOK, PlaybackInv, Joined, ThreadIs, Tids, NoId
<1>6. Unborn' /\ ServerInv' /\ CliInv' /\ TerminatedIsQuiet'
  BY <1>1, <1>4 DEF PInv, Unborn, ServerInv, CliInv, TerminatedIsQuiet, fixedVars, playbackVars
<1>7. PlaybackInv'
  BY <1>1, <1>5 DEF PInv, PlaybackInv, fixedVars, playbackVars
<1> QED BY <1>3, <1>6, <1>7 DEF PInv

LEMMA ThreadStepKeeps ==
  ASSUME PInv, NEW i \in Tids, ThreadStep(i), undefined = "none"
  PROVE  PInv'
<1>1. threads \in Seq(ThreadStates) /\ came \in 0..MaxPeers /\ peers \in 0..came /\ running \in BOOLEAN
  BY DEF PInv, TypeOK
<1>2. CASE ThreadFunc(i)
  BY <1>1, <1>2, ThreadGoesKeeps
     DEF ThreadFunc, Uses, ThreadIs, ThreadStates, threadOnly, serverVars
<1>3. CASE CallRun(i)
  <2>1. CASE Undefined("pureCall")
    <3>1. ~Joined \/ kind # "Playback"
      BY <1>3 DEF CallRun, Uses, PInv, TypeOK, PlaybackInv, Joined, ThreadIs, Tids
    <3>2. ~terminated
      BY <3>1, PThreadAssumption DEF PInv, TypeOK, PlaybackInv, ServerInv
    <3> QED BY <2>1, <3>2, UndefinedKeeps DEF Mistakes
  <2>2. CASE ThreadGoes(i, "loop") /\ UNCHANGED <<threadOnly, running>>
    BY <1>1, <1>3, <2>2, ThreadGoesKeeps
       DEF CallRun, Uses, ThreadIs, ThreadStates, threadOnly, serverVars
  <2> QED BY <1>3, <2>1, <2>2 DEF CallRun
<1>4. CASE IdleTask(i)
  <2>1. PICK st \in {"ended", "spin"} : ThreadGoes(i, st)
    BY <1>4 DEF IdleTask
  <2> QED BY <1>1, <1>4, <2>1, ThreadGoesKeeps
          DEF IdleTask, Uses, ThreadIs, ThreadStates, threadOnly, serverVars
<1>5. CASE Wait(i)
  <2>1. PICK st \in {"waiting", "ended"} : ThreadGoes(i, st)
    BY <1>5 DEF Wait
  <2> QED BY <1>1, <1>5, <2>1, ThreadGoesKeeps
          DEF Wait, Uses, ThreadIs, ThreadStates, threadOnly, serverVars
<1>6. CASE Receive(i)
  BY <1>1, <1>6, ThreadGoesKeeps DEF Receive, ThreadIs, ThreadStates
<1>7. CASE Handle(i)
  BY <1>1, <1>7, ThreadGoesKeeps
     DEF Handle, Uses, ThreadIs, ThreadStates, threadOnly, serverVars
<1>8. CASE UseFreed(i)
  <2>1. ~Joined \/ kind # "Playback"
    BY <1>8 DEF UseFreed, PInv, TypeOK, PlaybackInv, Joined, ThreadIs, Tids
  <2>2. ~terminated
    BY <1>8, <2>1, PThreadAssumption DEF UseFreed, PInv, TypeOK, PlaybackInv, ServerInv
  <2> QED BY <1>8, <2>2, UndefinedKeeps DEF UseFreed, Mistakes
<1> QED BY <1>2, <1>3, <1>4, <1>5, <1>6, <1>7, <1>8 DEF ThreadStep

\* Start, when the object has no thread yet or may have many.
LEMMA StartKeeps ==
  ASSUME PInv, Start
  PROVE  /\ running' /\ threads' \in Seq(ThreadStates)
         /\ id' \in (1..Len(threads')) \cup {NoId}
         /\ undefined' \in {undefined, "badId"}
         /\ kind = "Playback" => undefined' = undefined
         /\ threads = <<>> =>
              /\ id' = Len(threads') /\ Len(threads') <= 1
              /\ id' # NoId => threads'[id'] = "created"
BY DEF PInv, TypeOK, Start, ThreadStates, NoId, Servers

LEMMA NewKeeps ==
  ASSUME PInv, New \/ IPCStart, undefined = "none"
  PROVE  PInv'
<1> USE DEF Idle
<1>1. CASE NewPlayback
  <2>1. /\ object = "none" /\ threads = <<>> /\ id = NoId /\ ~terminated /\ owner = "idle"
        /\ kind = "Playback" /\ object' = "whole" /\ terminate' = FALSE
        /\ engine' \in {"calling", "none", "open"} /\ (Start \/ NoStart)
        /\ UNCHANGED <<fixedVars, owner, terminated, serverVars>>
    BY <1>1 DEF NewPlayback, PInv, Unborn
  <2>2. /\ running' \in BOOLEAN /\ threads' \in Seq(ThreadStates)
        /\ undefined' \in {undefined, "badId"}
        /\ id' = Len(threads') /\ Len(threads') <= 1
        /\ id' # NoId => running' /\ threads'[id'] = "created"
    <3>1. CASE Start
      BY <2>1, <3>1, StartKeeps
    <3>2. CASE NoStart
      BY <2>1, <3>2 DEF NoStart, baseVars, PInv, TypeOK, NoId
    <3> QED BY <2>1, <3>1, <3>2
  <2>3. TypeOK'
    <3>1. id' \in Tids' \cup {NoId}
      BY <2>2 DEF Tids, NoId
    <3> QED BY <2>1, <2>2, <3>1 DEF PInv, TypeOK, Mistakes, fixedVars, serverVars
  <2>4. PlaybackInv'
    BY <2>1, <2>2 DEF PlaybackInv, Joined, ThreadIs, fixedVars, NoId
  <2> QED BY <2>1, <2>3, <2>4
          DEF PInv, Unborn, ServerInv, CliInv, TerminatedIsQuiet, Servers, fixedVars
<1>2. CASE NewIPC
  <2>1. /\ kind = "IPC" /\ object' = "whole" /\ owner = "idle" /\ ~terminated
        /\ socket' \in {"bound", "open"} /\ Start
        /\ UNCHANGED <<fixedVars, owner, playbackVars, started, peers, came>>
    BY <1>2 DEF NewIPC, PInv, Unborn
  <2>2. TypeOK'
    BY <2>1, StartKeeps DEF PInv, TypeOK, Tids, Mistakes, fixedVars, playbackVars
  <2> QED BY <2>1, <2>2
          DEF PInv, Unborn, PlaybackInv, ServerInv, CliInv, TerminatedIsQuiet, fixedVars, playbackVars
<1>3. CASE CliStart
  <2>1. /\ kind = "Cli" /\ ~started /\ object' = "whole" /\ owner = "idle"
        /\ UNCHANGED <<fixedVars, owner, playbackVars, peers, came>>
        /\ threads = <<>> /\ ~terminated
    BY <1>3 DEF CliStart, Startable, PInv, Unborn, CliInv, ServerInv, Servers
  <2>2. CASE socket' = "bound" /\ Start /\ started' = TRUE
    <3>1. TypeOK'
      BY <2>1, <2>2, StartKeeps DEF PInv, TypeOK, Tids, Mistakes, fixedVars, playbackVars
    <3>2. Len(threads') <= 1
      BY <2>1, <2>2, StartKeeps
    <3> QED BY <2>1, <2>2, <3>1, <3>2
            DEF PInv, Unborn, PlaybackInv, ServerInv, CliInv, TerminatedIsQuiet, fixedVars, playbackVars
  <2>3. CASE socket' = "open" /\ NoStart /\ UNCHANGED started
    <3>1. TypeOK'
      BY <2>1, <2>3 DEF PInv, TypeOK, Tids, NoStart, baseVars, fixedVars, playbackVars
    <3> QED BY <2>1, <2>3, <3>1
            DEF PInv, Unborn, PlaybackInv, ServerInv, CliInv, TerminatedIsQuiet, NoStart, baseVars, fixedVars, playbackVars
  <2> QED BY <1>3, <2>2, <2>3 DEF CliStart, Bind
<1>4. CASE IPCStart
  <2>1. TypeOK'
    BY <1>4, StartKeeps DEF IPCStart, PInv, TypeOK, Tids, Mistakes, fixedVars, playbackVars, serverVars
  <2> QED BY <1>4, <2>1
          DEF IPCStart, PInv, Unborn, PlaybackInv, ServerInv, CliInv, TerminatedIsQuiet, Servers,
              fixedVars, playbackVars, serverVars
<1> QED BY <1>1, <1>2, <1>3, <1>4 DEF New

\* What the owner does to an object it has.
LEMMA OwnerKeeps ==
  ASSUME PInv, vTerminate \/ DeletePlayback \/ DeleteServer \/ InCall, undefined = "none"
  PROVE  PInv'
<1> USE DEF Idle
<1>1. CASE vTerminate
  <2>1. TypeOK'
    BY <1>1 DEF vTerminate, PInv, TypeOK, Tids, OwnerPoints, fixedVars, baseVars, serverVars
  <2> QED BY <1>1, <2>1
          DEF vTerminate, PInv, Unborn, PlaybackInv, ServerInv, CliInv, TerminatedIsQuiet,
              Joined, ThreadIs, Servers, fixedVars, baseVars, serverVars
<1>2. CASE DeletePlayback
  <2>1. TypeOK'
    BY <1>2 DEF DeletePlayback, PInv, TypeOK, Tids, OwnerPoints, fixedVars, baseVars, serverVars
  <2> QED BY <1>2, <2>1
          DEF DeletePlayback, PInv, Unborn, PlaybackInv, ServerInv, CliInv, TerminatedIsQuiet,
              Joined, ThreadIs, Servers, fixedVars, baseVars, serverVars
<1>3. CASE DeleteServer
  <2>1. TypeOK'
    BY <1>3 DEF DeleteServer, PInv, TypeOK, Tids, OwnerPoints, fixedVars, baseVars, playbackVars
  <2> QED BY <1>3, <2>1
          DEF DeleteServer, PInv, Unborn, PlaybackInv, ServerInv, CliInv, TerminatedIsQuiet,
              Servers, fixedVars, baseVars, playbackVars
<1>4. CASE Join
  <2>1. kind = "Playback" /\ object # "freed"
    BY <1>4, PThreadAssumption DEF Join, PInv, TypeOK, PlaybackInv, ServerInv, Servers
  <2>2. CASE Undefined("badId")
    BY <2>2, UndefinedKeeps DEF Mistakes
  <2>3. CASE Undefined("joinedTwice")
    BY <2>3, UndefinedKeeps DEF Mistakes
  <2>4. CASE /\ id # NoId /\ threads[id] \in {"ended", "joined"}
             /\ ThreadGoes(id, "joined")
             /\ owner' = "clear"
             /\ UNCHANGED <<fixedVars, object, undefined, running, id, playbackVars, serverVars>>
    <3>1. threads' \in Seq(ThreadStates) /\ Len(threads') = Len(threads) /\ threads'[id] = "joined"
      BY <2>4, ExceptSeq DEF PInv, TypeOK, ThreadGoes, Tids, ThreadStates
    <3>2. TypeOK'
      BY <2>4, <3>1 DEF PInv, TypeOK, Tids, OwnerPoints, fixedVars, playbackVars, serverVars
    <3>3. object = "whole" => ~terminated
      BY <1>4, <2>1 DEF Join, PInv, PlaybackInv
    <3> QED BY <2>1, <2>4, <3>1, <3>2, <3>3
            DEF PInv, Unborn, PlaybackInv, ServerInv, CliInv, TerminatedIsQuiet,
                Joined, ThreadIs, Servers, NoId, fixedVars, playbackVars, serverVars
  <2> QED BY <1>4, <2>2, <2>3, <2>4 DEF Join
<1>5. CASE Clear
  <2>1. TypeOK'
    BY <1>5 DEF Clear, PInv, TypeOK, Tids, OwnerPoints, fixedVars, playbackVars, serverVars
  <2> QED BY <1>5, <2>1, PThreadAssumption
          DEF Clear, PInv, TypeOK, Unborn, PlaybackInv, ServerInv, CliInv, TerminatedIsQuiet,
              Joined, ThreadIs, Servers, fixedVars, playbackVars, serverVars
<1>6. CASE CloseEngine
  <2>1. TypeOK'
    BY <1>6 DEF CloseEngine, PInv, TypeOK, Tids, OwnerPoints, fixedVars, baseVars, serverVars
  <2> QED BY <1>6, <2>1
          DEF CloseEngine, PInv, Unborn, PlaybackInv, ServerInv, CliInv, TerminatedIsQuiet,
              Joined, ThreadIs, Servers, fixedVars, baseVars, serverVars
<1> QED BY <1>1, <1>2, <1>3, <1>4, <1>5, <1>6 DEF InCall

LEMMA PNextKeeps ==
  ASSUME PInv, [Next]_vars
  PROVE  PInv'
<1>1. CASE PeerComes
  <2>1. peers' \in 0..came' /\ came' \in 0..MaxPeers
    BY <1>1, PThreadAssumption DEF PeerComes, PInv, TypeOK
  <2>2. TypeOK'
    BY <1>1, <2>1 DEF PeerComes, PInv, TypeOK, Tids, fixedVars, baseVars, playbackVars
  <2> QED BY <1>1, <2>2
          DEF PeerComes, PInv, Unborn, PlaybackInv, ServerInv, CliInv, TerminatedIsQuiet,
              Joined, ThreadIs, fixedVars, baseVars, playbackVars
<1>2. CASE EngineCallsFreed
  BY <1>2, UndefinedKeeps DEF EngineCallsFreed, Mistakes
<1>3. CASE UNCHANGED vars
  <2>1. TypeOK'
    BY <1>3 DEF vars, PInv, TypeOK, Tids, fixedVars, baseVars, playbackVars, serverVars
  <2> QED BY <1>3, <2>1
          DEF vars, PInv, Unborn, PlaybackInv, ServerInv, CliInv, TerminatedIsQuiet,
              Joined, ThreadIs, fixedVars, baseVars, playbackVars, serverVars
<1> QED BY <1>1, <1>2, <1>3, NewKeeps, OwnerKeeps, ThreadStepKeeps DEF Next

LEMMA PInvariant == Spec => []PInv
<1>1. PInv /\ [Next]_vars => PInv'
  BY PNextKeeps
<1> QED BY <1>1, InitHolds, PTL DEF Spec

(* Types, and thread_id names a thread of the object whenever something    *)
(* was written to it (ptasking.cpp:52-70).                                 *)
THEOREM PThreadTypes == Spec => []TypeOK
<1>1. PInv => TypeOK
  BY DEF PInv
<1> QED BY <1>1, PInvariant, PTL

(* However late its thread is scheduled, a Playback between calls is       *)
(* running exactly until its thread is joined (ptasking.cpp:41-78).        *)
THEOREM RunningUntilJoined == Spec => []RunningTellsJoin
<1>1. PInv => RunningTellsJoin
  BY DEF PInv, PlaybackInv, RunningTellsJoin, Idle, Joined, Unborn
<1> QED BY <1>1, PInvariant, PTL

(* Nothing uses a Playback after vTerminate has closed its engine, whatever *)
(* the compiler made of the idle task (playback.cpp:222-303).              *)
THEOREM QuietAfterTerminate == Spec => []TerminatedIsQuiet
<1>1. PInv => TerminatedIsQuiet
  BY DEF PInv
<1> QED BY <1>1, PInvariant, PTL

(* The guard "in case of restart by mistake" (cli.cpp:72) is enough: a     *)
(* server that was started keeps the socket it has bound, and never has a  *)
(* second thread, however often it is started.                             *)
THEOREM OneThreadOnItsSocket ==
  Spec => [](kind = "Cli" => Len(threads) <= 1 /\ (started => socket = "bound"))
<1>1. PInv => (kind = "Cli" => Len(threads) <= 1 /\ (started => socket = "bound"))
  BY DEF PInv, CliInv
<1> QED BY <1>1, PInvariant, PTL

-----------------------------------------------------------------------------
(* Before the object is deleted.                                           *)

\* What a thread does in one step: it goes on, or comes too late.
LEMMA ThreadMoves ==
  ASSUME NEW i, ThreadStep(i)
  PROVE  \/ /\ object \in {"base", "freed"}
            /\ \E what \in Mistakes : Undefined(what)
         \/ /\ UNCHANGED <<kind, loop, object, owner, undefined, id, playbackVars, socket,
                           started, came>>
            /\ \/ threads[i] = "created" /\ ThreadGoes(i, "entered")
               \/ threads[i] = "entered" /\ ThreadGoes(i, "loop")
               \/ /\ threads[i] = "loop" /\ kind = "Playback" /\ loop = "hoist"
                  /\ ThreadGoes(i, "spin")
               \/ /\ threads[i] = "loop" /\ kind = "Playback" /\ (terminate \/ loop = "finite")
                  /\ ThreadGoes(i, "ended")
               \/ threads[i] = "loop" /\ kind \in Servers /\ ThreadGoes(i, "waiting")
               \/ /\ threads[i] = "loop" /\ kind \in Servers /\ socket = "closed"
                  /\ ThreadGoes(i, "ended")
               \/ /\ kind \in Servers /\ threads[i] = "waiting" /\ peers > 0
                  /\ ThreadGoes(i, "handling")
               \/ kind \notin Servers /\ threads[i] \in {"waiting", "handling"}
               \/ threads[i] = "handling" /\ ThreadGoes(i, "loop")
BY DEF ThreadStep, ThreadFunc, CallRun, IdleTask, Wait, Receive, Handle, UseFreed, Uses,
       ThreadIs, Mistakes, threadOnly, fixedVars, serverVars

\* Which calls can be undefined before the destructor runs.
SafeInv ==
  /\ object \in {"none", "whole"} => undefined = "none"
  /\ kind = "Playback" /\ object = "whole" /\ engine # "none" => id # NoId
  /\ owner = "join" /\ object = "whole" => engine # "none"

LEMMA SafeNext ==
  ASSUME "create" \notin Faults, "callback" \notin Faults, PInv, SafeInv, [Next]_vars
  PROVE  SafeInv'
<1> USE DEF Idle
<1>0. Start => id' # NoId /\ UNCHANGED undefined
  BY LenProperties DEF Start, PInv, TypeOK, NoId
<1>1. CASE NewPlayback
  BY <1>0, <1>1 DEF NewPlayback, NoStart, SafeInv
<1>2. CASE NewIPC \/ IPCStart
  BY <1>0, <1>2 DEF NewIPC, IPCStart, SafeInv, fixedVars
<1>3. CASE CliStart
  BY <1>0, <1>3 DEF CliStart, Startable, Bind, NoStart, SafeInv, fixedVars
<1>4. CASE vTerminate
  BY <1>4 DEF vTerminate, SafeInv, fixedVars, baseVars
<1>5. CASE DeletePlayback \/ DeleteServer
  BY <1>5 DEF DeletePlayback, DeleteServer, SafeInv
<1>6. CASE Join
  <2>1. kind = "Playback"
    BY <1>6, PThreadAssumption DEF Join, PInv, TypeOK, ServerInv
  <2>2. object = "whole" => id # NoId /\ ~ThreadIs(id, "joined")
    BY <1>6, <2>1 DEF Join, SafeInv, PInv, PlaybackInv, Joined
  <2>3. CASE object # "whole"
    <3>1. object \notin {"none", "whole"} /\ UNCHANGED <<object, kind>>
      BY <1>6, <2>3 DEF Join, Undefined, PInv, Unborn, fixedVars
    <3> QED BY <3>1 DEF SafeInv
  <2>4. CASE object = "whole"
    BY <1>6, <2>2, <2>4 DEF Join, SafeInv, fixedVars, playbackVars
  <2> QED BY <2>3, <2>4
<1>7. CASE Clear
  BY <1>7 DEF Clear, SafeInv, fixedVars, playbackVars
<1>8. CASE CloseEngine
  BY <1>8 DEF CloseEngine, SafeInv, PInv, PlaybackInv, Joined, fixedVars, baseVars
<1>9. ASSUME NEW i \in Tids, ThreadStep(i) PROVE SafeInv'
  <2>1. CASE object \in {"base", "freed"} /\ \E what \in Mistakes : Undefined(what)
    BY <2>1 DEF Undefined, SafeInv
  <2>2. CASE UNCHANGED <<kind, object, owner, undefined, id, playbackVars>>
    BY <2>2 DEF SafeInv, playbackVars
  <2> QED BY <1>9, <2>1, <2>2, ThreadMoves
<1>10. CASE PeerComes \/ UNCHANGED vars
  BY <1>10 DEF PeerComes, vars, SafeInv, fixedVars, baseVars, playbackVars
<1>11. CASE EngineCallsFreed
  BY <1>11 DEF EngineCallsFreed, Undefined, SafeInv
<1> QED BY <1>1, <1>2, <1>3, <1>4, <1>5, <1>6, <1>7, <1>8, <1>9, <1>10, <1>11
        DEF Next, New, InCall

(* Unless pthread_create or the registration of the callback fails, nothing *)
(* the program does with a Playback or a server before it deletes it is     *)
(* undefined (ptasking.cpp:41-78, playback.cpp:222-303): the pure virtual   *)
(* call, the second join and the use of freed memory all belong to the      *)
(* destructors.                                                             *)
THEOREM WholeObjectsAreSafe ==
  ASSUME "create" \notin Faults, "callback" \notin Faults
  PROVE  Spec => [](object \in {"none", "whole"} => undefined = "none")
<1>1. Init => SafeInv
  BY DEF Init, SafeInv
<1>2. PInv /\ SafeInv /\ [Next]_vars => SafeInv'
  BY SafeNext
<1>3. SafeInv => (object \in {"none", "whole"} => undefined = "none")
  BY DEF SafeInv
<1> QED BY <1>1, <1>2, <1>3, PInvariant, PTL DEF Spec

-----------------------------------------------------------------------------
(* How the threads come to their end, and the servers do not.              *)

\* The idle task of a Playback ends when it is told to, while vTerminate is
\* under way, or because the compiler took its loop to end.
TaskInv ==
  kind = "Playback" =>
    /\ terminate => object = "whole"
    /\ terminate /\ ~terminated => owner \in {"join", "clear", "close"}
    /\ owner = "join" /\ object = "whole" => terminate
    /\ \A i \in Tids : threads[i] \in {"ended", "joined"} =>
         terminate \/ terminated \/ loop = "finite"
    /\ \A i \in Tids : threads[i] = "spin" => loop = "hoist"
    /\ \A i \in Tids : threads[i] \notin {"waiting", "handling"}
    /\ object = "freed" => terminated \/ loop = "finite"

LEMMA TaskNext ==
  ASSUME PInv, TaskInv, [Next]_vars
  PROVE  TaskInv'
<1> SUFFICES ASSUME kind' = "Playback" PROVE TaskInv'
  BY DEF TaskInv
<1> USE DEF Idle
<1>1. kind = "Playback" /\ kind \notin Servers /\ UNCHANGED <<kind, loop>>
  BY DEF Next, New, NewPlayback, NewIPC, IPCStart, CliStart, vTerminate, DeletePlayback,
         DeleteServer, InCall, Join, Clear, CloseEngine, Undefined, ThreadStep, ThreadFunc,
         CallRun, IdleTask, Wait, Receive, Handle, UseFreed, PeerComes, EngineCallsFreed,
         threadOnly, fixedVars, vars, Servers
<1>2. threads \in Seq(ThreadStates) /\ Len(threads) \in Nat
  BY DEF PInv, TypeOK
<1>3. CASE NewPlayback
  <2>1. threads = <<>> /\ ~terminated /\ terminate' = FALSE /\ object' = "whole"
        /\ UNCHANGED <<owner, terminated>> /\ owner = "idle"
    BY <1>3 DEF NewPlayback, PInv, Unborn
  <2>2. \A i \in 1..Len(threads') : threads'[i] = "created"
    BY <1>3, <2>1 DEF NewPlayback, Start, NoStart, baseVars
  <2> QED BY <2>1, <2>2 DEF TaskInv, Tids
<1>4. CASE vTerminate
  BY <1>1, <1>4 DEF vTerminate, TaskInv, Tids, baseVars
<1>5. CASE DeletePlayback
  <2>1. terminate => terminated
    BY <1>1, <1>5 DEF DeletePlayback, TaskInv
  <2> QED BY <1>1, <1>5, <2>1 DEF DeletePlayback, TaskInv, Tids, baseVars
<1>6. CASE Join
  <2>1. CASE UNCHANGED <<object, owner, terminate, terminated, threads>>
    BY <1>1, <2>1 DEF TaskInv, Tids
  <2>2. CASE /\ id # NoId /\ threads[id] \in {"ended", "joined"}
             /\ ThreadGoes(id, "joined") /\ owner' = "clear"
             /\ UNCHANGED <<object, terminate, terminated>>
    <3>1. id \in Tids
      BY <2>2 DEF PInv, TypeOK
    <3>2. /\ Tids' = Tids
          /\ \A i \in Tids : threads'[i] = IF i = id THEN "joined" ELSE threads[i]
      BY <1>2, <2>2, <3>1, ExceptSeq DEF ThreadGoes, Tids, ThreadStates
    <3> QED BY <1>1, <2>2, <3>1, <3>2 DEF TaskInv
  <2> QED BY <1>6, <2>1, <2>2 DEF Join, Undefined, baseVars, playbackVars
<1>7. CASE Clear
  <2>1. Joined /\ (id # NoId => id \in Tids)
    BY <1>1, <1>7 DEF Clear, PInv, TypeOK, PlaybackInv
  <2>2. terminate \/ terminated \/ loop = "finite"
    BY <1>1, <2>1 DEF TaskInv, Joined, ThreadIs
  <2> QED BY <1>1, <1>7, <2>2 DEF Clear, TaskInv, Tids, playbackVars
<1>8. CASE CloseEngine
  <2>1. object = "whole"
    BY <1>1, <1>8 DEF CloseEngine, PInv, PlaybackInv
  <2> QED BY <1>1, <1>8, <2>1 DEF CloseEngine, TaskInv, Tids, baseVars
<1>9. ASSUME NEW i \in Tids, ThreadStep(i) PROVE TaskInv'
  <2>1. CASE \E what \in Mistakes : Undefined(what)
    BY <1>1, <2>1 DEF Undefined, TaskInv, Tids, baseVars, playbackVars
  <2>2. ASSUME UNCHANGED <<object, owner, playbackVars>>,
               NEW st \in {"entered", "loop", "spin", "ended"}, ThreadGoes(i, st),
               st = "spin" => loop = "hoist",
               st = "ended" => terminate \/ loop = "finite"
        PROVE  TaskInv'
    <3>1. /\ Tids' = Tids
          /\ \A j \in Tids : threads'[j] = IF j = i THEN st ELSE threads[j]
      BY <1>2, <2>2, ExceptSeq DEF ThreadGoes, Tids, ThreadStates
    <3> QED BY <1>1, <2>2, <3>1 DEF TaskInv, playbackVars
  <2>3. threads[i] \notin {"waiting", "handling"}
    BY <1>1 DEF TaskInv
  <2> QED BY <1>1, <1>9, <2>1, <2>2, <2>3, ThreadMoves
<1>10. CASE PeerComes \/ UNCHANGED vars
  BY <1>1, <1>10 DEF PeerComes, vars, TaskInv, Tids, fixedVars, baseVars, playbackVars
<1>11. CASE EngineCallsFreed
  BY <1>1, <1>11 DEF EngineCallsFreed, Undefined, TaskInv, Tids, baseVars, playbackVars
<1>12. ~(NewIPC \/ IPCStart \/ CliStart \/ DeleteServer)
  BY <1>1 DEF NewIPC, IPCStart, CliStart, Startable, DeleteServer
<1> QED BY <1>3, <1>4, <1>5, <1>6, <1>7, <1>8, <1>9, <1>10, <1>11, <1>12
        DEF Next, New, InCall

LEMMA TaskInvariant == Spec => [](PInv /\ TaskInv)
<1>1. Init => TaskInv
  BY DEF Init, TaskInv, Tids
<1>2. PInv /\ TaskInv /\ [Next]_vars => TaskInv'
  BY TaskNext
<1> QED BY <1>1, <1>2, PInvariant, PTL DEF Spec

(* ~PThread joins a thread that nobody tells to end, since ~Playback has    *)
(* cleared m_fgTerminate (playback.cpp:105-120, ptasking.cpp:37-79): a      *)
(* Playback is freed only after vTerminate, or when the compiler has taken  *)
(* the loop of its idle task away.                                          *)
THEOREM FreedOnlyAfterTerminate ==
  Spec => [](kind = "Playback" /\ object = "freed" => terminated \/ loop = "finite")
<1>1. TaskInv => (kind = "Playback" /\ object = "freed" => terminated \/ loop = "finite")
  BY DEF TaskInv
<1> QED BY <1>1, TaskInvariant, PTL

\* Steps a thread of a Playback takes until it has ended.
TaskLeft(st) ==
  CASE st = "created" -> 3
    [] st = "entered" -> 2
    [] st = "loop" -> 1
    [] st \in {"spin", "ended", "joined"} -> 0

LEMMA TaskLeftIs ==
  /\ TaskLeft("created") = 3 /\ TaskLeft("entered") = 2 /\ TaskLeft("loop") = 1
  /\ TaskLeft("spin") = 0 /\ TaskLeft("ended") = 0 /\ TaskLeft("joined") = 0
BY DEF TaskLeft

\* vTerminate is in its join of a thread.
Joining == owner = "join" /\ object = "whole" /\ id # NoId

LEMMA JoinIs ==
  ASSUME PInv, TaskInv, Joining
  PROVE  /\ kind = "Playback" /\ terminate /\ id \in Tids
         /\ threads[id] \in {"created", "entered", "loop", "spin", "ended"}
         /\ threads[id] = "spin" => loop = "hoist"
         /\ \A i \in Tids : i = id
<1>1. kind = "Playback"
  BY PThreadAssumption DEF Joining, PInv, TypeOK, ServerInv
<1>2. id \in Tids /\ id = Len(threads) /\ Len(threads) <= 1
  BY <1>1 DEF Joining, PInv, TypeOK, PlaybackInv
<1>3. threads[id] \in ThreadStates
  BY <1>2, ElementOfSeq DEF PInv, TypeOK, Tids
<1>4. ~Joined
  BY <1>1 DEF Joining, PInv, PlaybackInv
<1>5. threads[id] \notin {"joined", "waiting", "handling"}
  BY <1>1, <1>2, <1>4 DEF Joining, Joined, ThreadIs, TaskInv
<1>6. \A i \in Tids : i = id
  BY <1>2 DEF Tids, PInv, TypeOK
<1> QED BY <1>1, <1>2, <1>3, <1>5, <1>6 DEF Joining, TaskInv, ThreadStates

LEMMA JoinGoesOn ==
  ASSUME PInv, TaskInv, [Next]_vars, Joining, loop # "hoist"
  PROVE  \/ TaskLeft(threads[id])' < TaskLeft(threads[id])
         \/ threads[id] = "ended" /\ owner' = "clear"
         \/ UNCHANGED <<threads, id, owner, object>>
<1>1. /\ kind = "Playback" /\ kind \notin Servers /\ terminate /\ id \in Tids
      /\ threads[id] \in {"created", "entered", "loop", "ended"}
      /\ \A i \in Tids : i = id
  BY JoinIs DEF Servers
<1>2. CASE Join
  <2>1. id # NoId /\ ~ThreadIs(id, "joined")
    BY <1>1 DEF Joining, ThreadIs
  <2> QED BY <1>1, <1>2, <2>1 DEF Join
<1>3. ASSUME NEW i \in Tids, ThreadStep(i)
      PROVE  TaskLeft(threads[id])' < TaskLeft(threads[id])
  <2>1. i = id /\ UNCHANGED id
    BY <1>1, <1>3, ThreadMoves DEF Joining
  <2>2. ASSUME NEW st, ThreadGoes(id, st) PROVE threads'[id] = st
    BY <1>1, <2>2 DEF ThreadGoes, PInv, TypeOK, Tids
  <2>3. \/ threads[id] = "created" /\ threads'[id] = "entered"
        \/ threads[id] = "entered" /\ threads'[id] = "loop"
        \/ threads[id] = "loop" /\ threads'[id] = "ended"
    BY <1>1, <1>3, <2>1, <2>2, ThreadMoves DEF Joining
  <2> QED BY <2>1, <2>3, TaskLeftIs
<1>4. CASE PeerComes \/ EngineCallsFreed \/ UNCHANGED vars
  BY <1>4 DEF PeerComes, EngineCallsFreed, Undefined, vars, baseVars
<1>5. ~(New \/ IPCStart \/ vTerminate \/ DeletePlayback \/ DeleteServer \/ Clear \/ CloseEngine)
  BY DEF New, NewPlayback, NewIPC, CliStart, IPCStart, vTerminate, DeletePlayback,
         DeleteServer, Clear, CloseEngine, Idle, Joining
<1> QED BY <1>2, <1>3, <1>4, <1>5 DEF Next, InCall

(* Unless the compiler has hoisted the test of m_fgTerminate, the join of   *)
(* vTerminate waits for three steps of the idle task at most, however late  *)
(* it was scheduled: m_fgTerminate stays set, each step of the task brings  *)
(* its end nearer, and nothing but the join follows the last               *)
(* (playback.cpp:222-267, 287-303, ptasking.cpp:42-79).                     *)
THEOREM JoinWaitsForThreeSteps ==
  /\ Spec => [](Joining => /\ terminate /\ TaskLeft(threads[id]) \in 0..3
                           /\ TaskLeft(threads[id]) = 0 /\ loop # "hoist" =>
                                threads[id] = "ended")
  /\ Spec => [][Joining /\ loop # "hoist" =>
       \/ TaskLeft(threads[id])' < TaskLeft(threads[id])
       \/ threads[id] = "ended" /\ owner' = "clear"
       \/ UNCHANGED <<threads, id, owner, object>>]_vars
<1>1. PInv /\ TaskInv =>
        (Joining => /\ terminate /\ TaskLeft(threads[id]) \in 0..3
                    /\ TaskLeft(threads[id]) = 0 /\ loop # "hoist" => threads[id] = "ended")
  <2> SUFFICES ASSUME PInv, TaskInv, Joining
               PROVE  /\ terminate /\ TaskLeft(threads[id]) \in 0..3
                      /\ TaskLeft(threads[id]) = 0 /\ loop # "hoist" => threads[id] = "ended"
    OBVIOUS
  <2> QED BY JoinIs, TaskLeftIs
<1>2. PInv /\ TaskInv /\ [Next]_vars =>
        [Joining /\ loop # "hoist" =>
           \/ TaskLeft(threads[id])' < TaskLeft(threads[id])
           \/ threads[id] = "ended" /\ owner' = "clear"
           \/ UNCHANGED <<threads, id, owner, object>>]_vars
  BY JoinGoesOn
<1> QED BY <1>1, <1>2, TaskInvariant, PTL DEF Spec

\* A server that is in use has a thread, and none of its threads has ended.
Serving == {"created", "entered", "loop", "waiting", "handling"}

ServeInv ==
  /\ object = "none" => came = 0
  /\ kind \in Servers /\ object = "whole" /\ undefined = "none" =>
       /\ \A i \in Tids : threads[i] \in Serving
       /\ socket # "closed"
       /\ kind = "IPC" \/ started => threads # <<>>
       /\ kind = "Cli" /\ (socket = "bound" \/ came > 0) => started

LEMMA ServeNext ==
  ASSUME PInv, ServeInv, [Next]_vars
  PROVE  ServeInv'
<1> USE DEF Idle
<1>1. /\ threads \in Seq(ThreadStates) /\ Len(threads) \in Nat /\ kind \in Kinds
      /\ came \in Nat
  BY DEF PInv, TypeOK
<1>2. ASSUME Start
      PROVE  \/ undefined' # "none" \/ kind \notin Servers
             \/ /\ threads' # <<>>
                /\ Len(threads') = Len(threads) + 1
                /\ \A i \in 1..Len(threads') :
                     threads'[i] = IF i = Len(threads') THEN "created" ELSE threads[i]
  BY <1>1, <1>2 DEF Start
<1>3. ASSUME Start, undefined' = "none", kind \in Servers, \A i \in Tids : threads[i] \in Serving
      PROVE  threads' # <<>> /\ \A i \in Tids' : threads'[i] \in Serving
  BY <1>1, <1>2, <1>3 DEF Tids, Serving
<1>4. CASE NewPlayback \/ vTerminate \/ DeletePlayback
  <2>1. kind \notin Servers /\ kind' = kind /\ (object' = "none" => object = "none" /\ UNCHANGED came)
    BY <1>4 DEF NewPlayback, vTerminate, DeletePlayback, Servers, fixedVars, serverVars
  <2> QED BY <2>1 DEF ServeInv
<1>5. CASE NewIPC
  <2>1. threads = <<>> /\ object' = "whole" /\ kind = "IPC" /\ kind' = kind
        /\ socket' # "closed" /\ Start
    BY <1>5 DEF NewIPC, PInv, Unborn, fixedVars
  <2>2. \A i \in Tids : threads[i] \in Serving
    BY <2>1 DEF Tids
  <2> QED BY <1>3, <2>1, <2>2 DEF ServeInv, Servers
<1>6. CASE IPCStart
  <2>1. /\ object = "whole" /\ kind = "IPC" /\ Start
        /\ UNCHANGED <<kind, object, socket, started, came>>
    BY <1>6 DEF IPCStart, fixedVars, serverVars
  <2>2. undefined = "none" \/ undefined' # "none"
    BY <2>1 DEF Start
  <2> QED BY <1>3, <2>1, <2>2 DEF ServeInv, Servers
<1>7. CASE CliStart
  <2>1. /\ kind = "Cli" /\ ~started /\ object' = "whole" /\ threads = <<>>
        /\ UNCHANGED <<kind, came>> /\ socket' # "closed"
        /\ \/ Start /\ started'
           \/ socket' = "open" /\ NoStart /\ ~started'
    BY <1>7 DEF CliStart, Startable, Bind, PInv, Unborn, CliInv, fixedVars
  <2>2. \A i \in Tids : threads[i] \in Serving
    BY <2>1 DEF Tids
  <2>3. CASE Start /\ started'
    BY <1>3, <2>1, <2>2, <2>3 DEF ServeInv, Servers
  <2>4. CASE socket' = "open" /\ NoStart /\ ~started'
    <3>1. came = 0 \/ undefined # "none"
      BY <1>1, <1>7, <2>1 DEF CliStart, ServeInv, Servers
    <3> QED BY <2>1, <2>2, <2>4, <3>1 DEF NoStart, baseVars, ServeInv, Tids
  <2> QED BY <2>1, <2>3, <2>4
<1>8. CASE DeleteServer \/ Clear
  BY <1>8 DEF DeleteServer, Clear, ServeInv, PInv, ServerInv, Unborn, fixedVars, playbackVars,
              serverVars
<1>9. CASE Join \/ CloseEngine
  <2>1. kind \notin Servers /\ kind' = kind /\ UNCHANGED <<object, came>>
    BY <1>9 DEF Join, CloseEngine, Undefined, PInv, ServerInv, fixedVars, serverVars
  <2> QED BY <2>1 DEF ServeInv
<1>10. ASSUME NEW i \in Tids, ThreadStep(i) PROVE ServeInv'
  <2>1. CASE \E what \in Mistakes : Undefined(what)
    BY <2>1 DEF Undefined, ServeInv, serverVars, Mistakes
  <2>2. CASE kind \notin Servers /\ UNCHANGED <<kind, object, came>>
    BY <2>2 DEF ServeInv
  <2>3. ASSUME UNCHANGED <<kind, object, undefined, socket, started, came>>, kind \in Servers,
               NEW st \in Serving \cup {"ended"}, ThreadGoes(i, st),
               st = "ended" => socket = "closed"
        PROVE  ServeInv'
    <3>1. /\ Tids' = Tids /\ (threads' = <<>> => threads = <<>>)
          /\ \A j \in Tids : threads'[j] = IF j = i THEN st ELSE threads[j]
      BY <1>1, <2>3, ExceptSeq DEF ThreadGoes, Tids, ThreadStates, Serving
    <3> QED BY <2>3, <3>1 DEF ServeInv
  <2> QED BY <1>10, <2>1, <2>2, <2>3, ThreadMoves DEF Serving, Servers
<1>11. CASE PeerComes
  <2>1. /\ socket = "bound" /\ UNCHANGED <<kind, object, undefined, threads, socket, started>>
        /\ came' = came + 1
    BY <1>11 DEF PeerComes, fixedVars, baseVars
  <2>2. object # "none"
    BY <2>1 DEF PInv, Unborn
  <2> QED BY <2>1, <2>2 DEF ServeInv, Tids
<1>12. CASE EngineCallsFreed
  BY <1>12 DEF EngineCallsFreed, Undefined, ServeInv, serverVars
<1>13. CASE UNCHANGED vars
  BY <1>13 DEF vars, ServeInv, Tids, fixedVars, baseVars, serverVars
<1> QED BY <1>4, <1>5, <1>6, <1>7, <1>8, <1>9, <1>10, <1>11, <1>12, <1>13
        DEF Next, New, InCall

(* Whoever waits at the socket of a server finds a thread that serves: a    *)
(* server that is not deleted has lost none of its threads, and started     *)
(* one before the first peer could come, however often it was started       *)
(* (cli.cpp:68-160, ipc.cpp:15-108, Karaoke.cpp:32-37).                     *)
THEOREM PeersHaveAThread ==
  Spec => [](kind \in Servers /\ object = "whole" /\ undefined = "none" /\ peers > 0 =>
               /\ Tids # {}
               /\ \A i \in Tids : threads[i] \in Serving
               /\ kind = "Cli" => socket = "bound")
<1>1. Init => ServeInv
  BY DEF Init, ServeInv
<1>2. PInv /\ ServeInv /\ [Next]_vars => ServeInv'
  BY ServeNext
<1>3. PInv /\ ServeInv =>
        (kind \in Servers /\ object = "whole" /\ undefined = "none" /\ peers > 0 =>
               /\ Tids # {}
               /\ \A i \in Tids : threads[i] \in Serving
               /\ kind = "Cli" => socket = "bound")
  <2> SUFFICES ASSUME PInv, ServeInv, kind \in Servers, object = "whole",
                      undefined = "none", peers > 0
               PROVE  /\ Tids # {}
                      /\ \A i \in Tids : threads[i] \in Serving
                      /\ kind = "Cli" => socket = "bound"
    OBVIOUS
  <2>1. came > 0
    BY DEF PInv, TypeOK
  <2>2. threads # <<>> /\ (kind = "Cli" => started)
    BY <2>1 DEF ServeInv, Servers
  <2>3. 1 \in Tids
    BY <2>2, EmptySeq DEF Tids, PInv, TypeOK
  <2> QED BY <2>2, <2>3 DEF ServeInv, PInv, CliInv
<1> QED BY <1>1, <1>2, <1>3, PInvariant, PTL DEF Spec
=============================================================================
