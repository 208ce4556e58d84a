------------------------------ MODULE PThread ------------------------------
(***************************************************************************)
(* class PThread (ptasking/ptasking.cpp) and the lives of the objects that *)
(* are built on it: a Playback, whose idle task is joined, and the servers *)
(* IPC and Cli, whose threads are detached.  One object is modelled, and   *)
(* its owner, the thread that constructs, uses and deletes it.             *)
(*                                                                         *)
(* ~PThread stops the thread, but by then the object is no longer of the   *)
(* class whose run() the thread may still have to call: it is a "base".    *)
(*                                                                         *)
(* Nothing is modelled after undefined behaviour.  PThread::shutdown is    *)
(* left out: it is written and never read.                                 *)
(***************************************************************************)
EXTENDS Integers, Sequences

CONSTANTS
  Kinds,       \* classes of the object
  Loops,       \* what the compiler may make of the loop of the idle task
  Faults,      \* calls of the system and of the engine that may fail
  MaxThreads,  \* bound: threads the object starts
  MaxPeers     \* bound: datagrams or connections that come

Servers == {"IPC", "Cli"}

\* m_fgTerminate is not volatile and the loop does nothing else: it is read in
\* each round, or once in front of an endless loop (gcc -O2, C++98), or the
\* loop is taken to end (gcc -O2, C++11 and later).
LoopKinds == {"reload", "hoist", "finite"}

ASSUME PThreadAssumption ==
  /\ Kinds \subseteq Servers \cup {"Playback"}
  /\ Loops \subseteq LoopKinds
  /\ Faults \subseteq {"open", "callback", "close", "bind", "create"}
  /\ MaxThreads \in Nat /\ MaxPeers \in Nat

NoId == 0

VARIABLES
  kind,        \* the class of the object
  loop,        \* one of Loops
  object,      \* "none", "whole", "base" in ~PThread, "freed"
  running,     \* PThread::running
  id,          \* PThread::thread_id, NoId while it is not initialised
  threads,     \* the threads the object started, in order
  owner,       \* the point its owner is at, "idle" between calls
  terminate,   \* Playback::m_fgTerminate
  engine,      \* external: "none", "open", "calling" back, "closed"
  terminated,  \* history: vTerminate has returned
  socket,      \* of a server: "none", "open", "bound", "closed"
  started,     \* Cli::started
  peers,       \* external: datagrams or connections that wait at the socket
  came,        \* external: how many came
  undefined    \* "none", or what was done that is undefined

fixedVars == <<kind, loop>>
baseVars == <<running, id, threads>>
playbackVars == <<terminate, engine, terminated>>
serverVars == <<socket, started, peers, came>>
vars == <<fixedVars, object, owner, undefined, baseVars, playbackVars, serverVars>>

ThreadStates ==
  {"created",   \* not yet scheduled
   "entered",   \* in thread_func, about to call run()
   "loop",      \* at the top of the loop of run()
   "spin",      \* in the endless loop that a hoisted test leaves
   "waiting",   \* in recvfrom or accept
   "handling",  \* back from it, with a peer
   "ended", "joined"}

\* "assert": in the endless loop of WEBKOK_PB_ASSERT.
OwnerPoints == {"idle", "join", "clear", "close", "assert"}

Mistakes == {"badId", "joinedTwice", "pureCall", "usedFreed"}

Tids == 1..Len(threads)
ThreadIs(i, st) == threads[i] = st
ThreadGoes(i, st) == threads' = [threads EXCEPT ![i] = st]

Undefined(what) ==
  /\ undefined' = what
  /\ UNCHANGED <<fixedVars, object, owner, baseVars, playbackVars, serverVars>>

-----------------------------------------------------------------------------
(* The owner: construction.                                                *)

Idle(st) == object = st /\ owner = "idle"

\* PThread::start: running, pthread_create and, for a server, pthread_detach.
\* When pthread_create fails nothing but the log knows, and thread_id, which
\* is detached or joined all the same, has not been set.
Start ==
  /\ running' = TRUE
  /\ \/ /\ Len(threads) < MaxThreads
        /\ threads' = Append(threads, "created")
        /\ id' = Len(threads) + 1
        /\ UNCHANGED undefined
     \/ /\ "create" \in Faults
        /\ id' = NoId
        /\ undefined' = IF kind \in Servers THEN "badId" ELSE undefined
        /\ UNCHANGED threads

NoStart == UNCHANGED <<baseVars, undefined>>

\* Playback::Playback; vInit and vCreateTask clear m_fgTerminate.
NewPlayback ==
  /\ Idle("none") /\ kind = "Playback"
  /\ object' = "whole"
  /\ terminate' = FALSE
  /\ \/ engine' = "calling" /\ Start
     \/ "open" \in Faults /\ engine' = "none" /\ NoStart
     \/ "callback" \in Faults /\ engine' = "open" /\ NoStart
  /\ UNCHANGED <<fixedVars, owner, terminated, serverVars>>

\* IPC::IPC, IPC::init: starts the thread whether bind succeeded or not.  The
\* assertion on bind would loop for ever; it is a no-op here, because log_init,
\* which gives the log a level, runs after the servers were constructed
\* (Karaoke.cpp:32-40).
NewIPC ==
  /\ Idle("none") /\ kind = "IPC"
  /\ object' = "whole"
  /\ \/ socket' = "bound"
     \/ "bind" \in Faults /\ socket' = "open"
  /\ Start
  /\ UNCHANGED <<fixedVars, owner, playbackVars, started, peers, came>>

\* IPC::start, which is PThread::start, as called by Karaoke.
IPCStart ==
  /\ Idle("whole") /\ kind = "IPC"
  /\ Start
  /\ UNCHANGED <<fixedVars, object, owner, playbackVars, serverVars>>

\* Mutant of Startable: no guard "in case of restart by mistake".
StartableAgain == kind = "Cli"

Startable == kind = "Cli" /\ ~started

\* bind fails when the port is taken, by the object itself, too, and the new
\* socket has then already replaced the old one.
Bind ==
  \/ socket # "bound" /\ socket' = "bound" /\ Start /\ started' = TRUE
  \/ ("bind" \in Faults \/ socket = "bound")
       /\ socket' = "open" /\ NoStart /\ UNCHANGED started

\* Cli::start, called by the constructor and again by Karaoke.
CliStart ==
  /\ owner = "idle" /\ object \in {"none", "whole"} /\ Startable
  /\ object' = "whole"
  /\ Bind
  /\ UNCHANGED <<fixedVars, owner, playbackVars, peers, came>>

-----------------------------------------------------------------------------
(* The owner: the end of the object.                                       *)

\* Mutant of vTerminate: stop() before m_fgTerminate is set.
vTerminateStopsFirst ==
  /\ Idle("whole") /\ kind = "Playback" /\ ~terminated
  /\ owner' = (IF engine = "none" THEN "assert" ELSE "join")
  /\ UNCHANGED <<fixedVars, object, undefined, baseVars, playbackVars, serverVars>>

\* vTerminate and vDestroyTask up to the join; without an engine the
\* assertion never returns.  The owner does not call it a second time.
vTerminate ==
  /\ Idle("whole") /\ kind = "Playback" /\ ~terminated
  /\ IF engine = "none" THEN owner' = "assert" /\ UNCHANGED terminate
     ELSE owner' = "join" /\ terminate' = TRUE
  /\ UNCHANGED <<fixedVars, object, undefined, baseVars, engine, terminated, serverVars>>

\* Mutant of Join: a joinable thread is not waited for.
JoinNoWait ==
  /\ owner = "join"
  /\ owner' = "clear"
  /\ UNCHANGED <<fixedVars, object, undefined, baseVars, playbackVars, serverVars>>

\* pthread_join in PThread::stop.  A second join of a thread is undefined; as
\* a rule it returns an error, which nobody looks at.
Join ==
  /\ owner = "join"
  /\ \/ id = NoId /\ Undefined("badId")
     \/ id # NoId /\ ThreadIs(id, "joined") /\ Undefined("joinedTwice")
     \/ /\ id # NoId /\ threads[id] \in {"ended", "joined"}
        /\ ThreadGoes(id, "joined")
        /\ owner' = "clear"
        /\ UNCHANGED <<fixedVars, object, undefined, running, id, playbackVars, serverVars>>

\* Mutant of Clear: running stays what thread_func made it.
ClearNothing ==
  /\ owner = "clear"
  /\ IF object = "base" THEN object' = "freed" /\ owner' = "idle"
     ELSE owner' = "close" /\ UNCHANGED object
  /\ UNCHANGED <<fixedVars, undefined, baseVars, playbackVars, serverVars>>

\* The rest of PThread::stop, and of the destructor if that called it.
Clear ==
  /\ owner = "clear"
  /\ running' = FALSE
  /\ IF object = "base" THEN object' = "freed" /\ owner' = "idle"
     ELSE owner' = "close" /\ UNCHANGED object
  /\ UNCHANGED <<fixedVars, undefined, id, threads, playbackVars, serverVars>>

\* The rest of vTerminate: IMtkPb_Ctrl_Close is tried eleven times.
CloseEngine ==
  /\ owner = "close"
  /\ owner' = "idle"
  /\ terminated' = TRUE
  /\ \/ engine' = "closed"
     \/ "close" \in Faults /\ UNCHANGED engine
  /\ UNCHANGED <<fixedVars, object, undefined, baseVars, terminate, serverVars>>

\* ~Playback, which leaves the engine open, up to the join of ~PThread.
DeletePlayback ==
  /\ Idle("whole") /\ kind = "Playback"
  /\ object' = "base"
  /\ terminate' = FALSE
  /\ owner' = "join"
  /\ UNCHANGED <<fixedVars, undefined, baseVars, engine, terminated, serverVars>>

\* ~IPC and ~Cli close the socket; nobody waits for a detached thread.
DeleteServer ==
  /\ Idle("whole") /\ kind \in Servers
  /\ object' = "base"
  /\ socket' = "closed"
  /\ started' = FALSE
  /\ owner' = "clear"
  /\ UNCHANGED <<fixedVars, undefined, baseVars, playbackVars, peers, came>>

-----------------------------------------------------------------------------
(* A thread of the object.                                                 *)

\* thread i, at point `at', uses its object.
Uses(i, at) == ThreadIs(i, at) /\ object # "freed"

threadOnly == <<fixedVars, object, owner, undefined, id, playbackVars, serverVars>>

\* thread_func: running is set again, after start has set it and maybe after
\* stop has cleared it.
ThreadFunc(i) ==
  /\ Uses(i, "created")
  /\ running' = TRUE
  /\ ThreadGoes(i, "entered")
  /\ UNCHANGED threadOnly

\* th->run(): of a base it is a pure virtual function.
CallRun(i) ==
  /\ Uses(i, "entered")
  /\ \/ object = "base" /\ Undefined("pureCall")
     \/ /\ object # "base"
        /\ ThreadGoes(i, "loop")
        /\ UNCHANGED <<threadOnly, running>>

\* Playback::run
IdleTask(i) ==
  /\ kind = "Playback" /\ Uses(i, "loop")
  /\ \/ /\ terminate \/ loop = "finite"
        /\ ThreadGoes(i, "ended")
     \/ /\ ~terminate /\ loop = "hoist"
        /\ ThreadGoes(i, "spin")
  /\ UNCHANGED <<threadOnly, running>>

\* IPC::run and Cli::run read sockfd and wait; on a closed socket recvfrom
\* fails and ends the thread, accept fails and is called again.
Wait(i) ==
  /\ kind \in Servers /\ Uses(i, "loop")
  /\ \/ socket = "bound" /\ ThreadGoes(i, "waiting")
     \/ socket = "open" /\ kind = "IPC" /\ ThreadGoes(i, "waiting")
     \/ socket = "closed" /\ kind = "IPC" /\ ThreadGoes(i, "ended")
  /\ UNCHANGED <<threadOnly, running>>

\* Mutant of Receive: each waiting thread takes a peer.
ReceiveAlways(i) ==
  /\ ThreadIs(i, "waiting")
  /\ peers' = peers - 1
  /\ ThreadGoes(i, "handling")
  /\ UNCHANGED <<fixedVars, object, owner, undefined, running, id, playbackVars, socket, started, came>>

\* recvfrom or accept returns with a peer, also after the socket was closed
\* under it.
Receive(i) ==
  /\ ThreadIs(i, "waiting") /\ peers > 0
  /\ peers' = peers - 1
  /\ ThreadGoes(i, "handling")
  /\ UNCHANGED <<fixedVars, object, owner, undefined, running, id, playbackVars, socket, started, came>>

\* The session of a Cli, which is module Cli: it lasts as long as the client
\* stays, or for ever when a command hangs.
InSession(i) == kind = "Cli" /\ ThreadIs(i, "handling")

\* IPC calls the handler it was given; the session of Cli ends.
Handle(i) ==
  /\ Uses(i, "handling")
  /\ ThreadGoes(i, "loop")
  /\ UNCHANGED <<threadOnly, running>>

UseFreed(i) ==
  /\ object = "freed"
  /\ threads[i] \in {"created", "entered", "loop", "handling"}
  /\ Undefined("usedFreed")

ThreadStep(i) ==
  \/ ThreadFunc(i) \/ CallRun(i) \/ IdleTask(i)
  \/ Wait(i) \/ Receive(i) \/ Handle(i) \/ UseFreed(i)

-----------------------------------------------------------------------------
(* External.                                                               *)

\* A datagram or connection comes.
PeerComes ==
  /\ socket = "bound" /\ came < MaxPeers
  /\ peers' = peers + 1 /\ came' = came + 1
  /\ UNCHANGED <<fixedVars, object, owner, undefined, baseVars, playbackVars, socket, started>>

\* An event of the engine, whose callback was given the object.
EngineCallsFreed ==
  /\ engine = "calling" /\ object = "freed"
  /\ Undefined("usedFreed")

-----------------------------------------------------------------------------
Init ==
  /\ kind \in Kinds /\ loop \in Loops
  /\ object = "none" /\ owner = "idle" /\ undefined = "none"
  /\ running = FALSE /\ id = NoId /\ threads = <<>>
  /\ terminate = FALSE /\ engine = "none" /\ terminated = FALSE
  /\ socket = "none" /\ started = FALSE /\ peers = 0 /\ came = 0

New == NewPlayback \/ NewIPC \/ CliStart
InCall == Join \/ Clear \/ CloseEngine

Next ==
  /\ undefined = "none"
  /\ \/ New \/ IPCStart \/ vTerminate \/ DeletePlayback \/ DeleteServer \/ InCall
     \/ \E i \in Tids : ThreadStep(i)
     \/ PeerComes \/ EngineCallsFreed

Spec == Init /\ [][Next]_vars

\* Threads are scheduled, and the owner inside a call is one of them.  When to
\* call is up to the owner, and when a session ends is up to the client.
Fairness ==
  /\ WF_vars(undefined = "none" /\ InCall)
  /\ \A i \in 1..MaxThreads :
       WF_vars(undefined = "none" /\ i \in Tids /\ ~InSession(i) /\ ThreadStep(i))

FairSpec == Spec /\ Fairness

-----------------------------------------------------------------------------
(* Properties.                                                             *)

\* Types; thread_id names a thread of the object once it is initialised, and
\* no peer is taken from an empty queue.
TypeOK ==
  /\ kind \in Kinds /\ loop \in Loops
  /\ object \in {"none", "whole", "base", "freed"}
  /\ owner \in OwnerPoints
  /\ undefined \in Mistakes \cup {"none"}
  /\ running \in BOOLEAN
  /\ threads \in Seq(ThreadStates)
  /\ id \in Tids \cup {NoId}
  /\ terminate \in BOOLEAN /\ terminated \in BOOLEAN
  /\ engine \in {"none", "open", "calling", "closed"}
  /\ socket \in {"none", "open", "bound", "closed"}
  /\ started \in BOOLEAN
  /\ peers \in 0..came /\ came \in 0..MaxPeers

\* running is written by the owner in start and stop and by the thread in
\* between (ptasking.cpp:44-78): of a Playback that is between calls it says
\* whether its thread is still to be joined.
RunningTellsJoin ==
  kind = "Playback" /\ Idle("whole") /\ id # NoId =>
    (running <=> ~ThreadIs(id, "joined"))

\* After vTerminate has closed the engine nothing uses the object any more:
\* not its thread, late as that may have been scheduled, not the engine
\* (playback.cpp:222-267, 287-303).
TerminatedIsQuiet ==
  terminated /\ engine = "closed" => undefined \notin {"pureCall", "usedFreed"}

\* vTerminate comes back from its join, unless the compiler has hoisted the
\* test of the idle task or no thread was ever created (playback.cpp:222-303).
TerminateReturns ==
  (owner = "join" /\ object = "whole" /\ loop # "hoist")
    ~> (owner = "idle" \/ undefined # "none")

\* playback.cpp:230 "destroy thread for Playback.": vTerminate does, whatever
\* the compiler did.
TerminateDestroys ==
  (owner = "join" /\ object = "whole") ~> (id = NoId \/ ThreadIs(id, "joined"))

\* A server that was started twice by mistake (Karaoke.cpp:32-37, cli.cpp:72)
\* serves whoever comes, until it is deleted; a Cli, which has one client at a
\* time (cli.cpp:143-190), if it is rid of each client some time.
SessionsEnd ==
  \A i \in 1..MaxThreads : []<>~(i \in Tids /\ InSession(i))

PeersAreServed ==
  SessionsEnd =>
    (peers > 0 ~> (peers = 0 \/ object # "whole" \/ undefined # "none"))
=============================================================================
