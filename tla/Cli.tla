-------------------------------- MODULE Cli --------------------------------
(***************************************************************************)
(* The command line server (cli/cli.cpp): one thread accepts a client,     *)
(* points stdout and stderr of the whole program at it, runs its commands  *)
(* one after the other, and points them back when it left.                 *)
(*                                                                         *)
(* Descriptors.  `fds' is the descriptor table.  Only this thread changes  *)
(* descriptors while the program runs, so the calls of an accept and of a  *)
(* recovery are one step each.                                             *)
(*                                                                         *)
(* Messages.  A client (cli/clitool.cpp) sends every command as a block of *)
(* 1024 bytes, text first, zeros behind it; recv of 1024 bytes returns     *)
(* what has arrived, so it may cut a block, and what follows is then read  *)
(* out of step.  A block is `Cells' cells here, the first `TextCells' of   *)
(* them text.                                                              *)
(***************************************************************************)
EXTENDS Integers, Sequences, SequencesExt, FiniteSetsExt

CONSTANTS
  Clients,    \* each connects once
  MaxFd,      \* bound: descriptors of the process
  MaxHeld,    \* bound: of them, those held by the rest of the program
  Cells,
  TextCells,
  MaxSent     \* bound: for each client, the blocks it sends

ASSUME CliAssumption ==
  /\ TextCells \in Nat \ {0} /\ Cells \in Nat /\ Cells > TextCells
  /\ MaxFd \in Nat /\ MaxHeld \in Nat /\ MaxFd > 4 + MaxHeld
  /\ Clients \cap {"console", "listen", "other", "free"} = {}

Free == "free"
NoText == -1
STDOUT_FILENO == 1
STDERR_FILENO == 2
Descriptors == 0..(MaxFd - 1)

\* A command of the server itself, and one that looks up the page "player".
Commands == {"echo", "player.stop"}

VARIABLES
  fds,       \* for each descriptor, what it refers to
  held,      \* descriptors of the rest of the program
  pc,        \* of the server
  cur,       \* descriptor of the client
  backup,    \* stdout_backup and stderr_backup
  text,      \* block whose command was read; 0 for a part of a text
  command,   \* the command that runs, "none" outside its action
  backlog,   \* clients that wait for accept
  served,    \* history: clients that were accepted, in order
  gone,      \* clients that closed their end
  sent,      \* for each client, the commands it sent
  read,      \* for each client, how many of its cells the server has read
  answered,  \* history: for each client, the blocks whose command was looked up
  late,      \* history: blocks sent on top of unread ones, or cut in the text
  boot,      \* start-up of the program, on its main thread
  killed     \* by SIGPIPE

fdVars == <<fds, held, cur, backup>>
clientVars == <<backlog, gone, sent>>
wordVars == <<text, command, read, answered, late>>
vars == <<fdVars, clientVars, wordVars, pc, served, boot, killed>>

-----------------------------------------------------------------------------
(* System calls on the descriptor table.                                   *)

FreeOnes == {d \in Descriptors : fds[d] = Free}

\* What accept and dup return: a free descriptor (the lowest one, which does
\* not matter here), or -1.
Opened(S) == IF S = {} THEN -1 ELSE CHOOSE d \in S : TRUE

Client == fds[cur]

-----------------------------------------------------------------------------
(* The server: Cli::run.                                                   *)

\* Mutant of Redirected: only what could be saved is redirected.
RedirectedIfSaved(out, err) ==
  {d \in {STDOUT_FILENO, STDERR_FILENO} : (IF d = STDOUT_FILENO THEN out ELSE err) # -1}

\* The targets of dup2(clientSocket, _), whatever the backups are.
Redirected(out, err) == {STDOUT_FILENO, STDERR_FILENO}

\* accept, the two dup and the two dup2.  An accept that fails is tried again
\* and changes nothing.
Accept ==
  /\ pc = "accept" /\ backlog # <<>> /\ FreeOnes # {}
  /\ \E sock \in {Opened(FreeOnes)} :
     \E out \in {Opened(FreeOnes \ {sock})} :
     \E err \in {Opened(FreeOnes \ {sock, out})} :
       /\ cur' = sock
       /\ backup' = [out |-> out, err |-> err]
       /\ fds' = [d \in Descriptors |->
            CASE d \in Redirected(out, err) \cup {sock} -> Head(backlog)
              [] d = out -> fds[STDOUT_FILENO]
              [] d = err -> fds[STDERR_FILENO]
              [] OTHER -> fds[d]]
  /\ served' = Append(served, Head(backlog))
  /\ backlog' = Tail(backlog)
  /\ pc' = "recv"
  /\ UNCHANGED <<held, gone, sent, wordVars, boot, killed>>

Unread(c) == Cells * Len(sent[c]) - read[c]

\* The block and the cell in it that client c's next cell is.
Block(c) == (read[c] \div Cells) + 1
Cell(c) == (read[c] % Cells) + 1

\* Mutant of TextOf: a buffer that was not filled is not looked at.
TextOfFull(c, n) ==
  IF n # Cells \/ Cell(c) > TextCells THEN NoText
  ELSE IF Cell(c) = 1 THEN Block(c) ELSE 0

\* What strlen and the parser see in a zeroed buffer after a recv of n cells:
\* nothing if it starts with a zero, a command if it starts with a whole text.
TextOf(c, n) ==
  IF Cell(c) > TextCells THEN NoText
  ELSE IF Cell(c) = 1 /\ n >= TextCells THEN Block(c) ELSE 0

\* Mutant of Consumed: MSG_PEEK.
ConsumedNothing(c, n) == read[c]

\* Mutant of Consumed: the zero behind the text is read on top of it.
ConsumedZero(c, n) == read[c] + n + 1

Consumed(c, n) == read[c] + n

Recv ==
  /\ pc = "recv"
  /\ \E n \in 1..Min({Cells, Unread(Client)}) :
       /\ text' = TextOf(Client, n)
       /\ read' = [read EXCEPT ![Client] = Consumed(Client, n)]
       /\ late' = IF Cell(Client) = 1 /\ n < TextCells
                  THEN [late EXCEPT ![Client] = @ \cup {Block(Client)}] ELSE late
       /\ pc' = IF text' = NoText THEN "recv" ELSE "search"
  /\ UNCHANGED <<fdVars, clientVars, command, answered, served, boot, killed>>

\* What the first word of the text may be: a part of a text is parsed like a
\* whole one, and may be any command or none.
Words == IF text = 0 THEN Commands \cup {"none"} ELSE {sent[Client][text]}

\* cli_parser and _cli_search_cmd: the table of the player is not there before
\* its constructor has appended it.
Found(cmd) == cmd = "echo" \/ (cmd = "player.stop" /\ boot # "no player")

Search ==
  /\ pc = "search"
  /\ answered' = IF text = 0 THEN answered
                 ELSE [answered EXCEPT ![Client] = Append(@, text)]
  /\ \E cmd \in Words :
       IF Found(cmd) THEN pc' = "action" /\ command' = cmd
       ELSE pc' = "recv" /\ UNCHANGED command
  /\ UNCHANGED <<fdVars, clientVars, text, read, late, served, boot, killed>>

\* The action of a command.  player.stop does not come back when there is no
\* Player yet (SIGSEGV), when pop throws on this thread (SIGABRT: see Player),
\* or when an assertion finds no engine: the handlers of the signals
\* (dbg.cpp:101-124) and WEBKOK_PB_ASSERT never return.
Act ==
  /\ pc = "action"
  /\ \/ pc' = "recv" /\ ~(command = "player.stop" /\ boot = "commands")
     \/ pc' = "hung" /\ command = "player.stop"
  /\ command' = "none"
  /\ UNCHANGED <<fdVars, clientVars, text, read, answered, late, served, boot, killed>>

\* Mutant of Ends: 0 is taken for an empty message, only an error ends.
EndsOnError(c) == c \in gone /\ Unread(c) # 0

\* recv returns 0 when everything was read, or an error before that.
Ends(c) == c \in gone

\* Mutant of Closed: the socket stays open.
ClosedNothing == {}

\* close(clientSocket)
Closed == {cur}

\* Mutant of Restored: stderr is forgotten.
RestoredOut(d) == IF d = STDOUT_FILENO THEN backup.out ELSE -1

\* The first argument of dup2(_, d); a dup2 of -1 fails and changes nothing.
Restored(d) ==
  IF d = STDOUT_FILENO THEN backup.out ELSE IF d = STDERR_FILENO THEN backup.err ELSE -1

\* The backups are not closed.
Recover ==
  /\ pc = "recv" /\ Ends(Client)
  /\ fds' = [d \in Descriptors |->
       IF d \in Closed THEN Free ELSE IF Restored(d) # -1 THEN fds[Restored(d)] ELSE fds[d]]
  /\ cur' = -1
  /\ pc' = "accept"
  /\ UNCHANGED <<held, backup, clientVars, wordVars, served, boot, killed>>

-----------------------------------------------------------------------------
(* The rest of the world.                                                  *)

Connected(c) == c \in ToSet(backlog) \cup ToSet(served)

Connect(c) ==
  /\ ~Connected(c)
  /\ backlog' = Append(backlog, c)
  /\ UNCHANGED <<fdVars, wordVars, gone, sent, pc, served, boot, killed>>

\* clitool: fgets, send.  The program does not wait for an answer.
Send(c) ==
  /\ Connected(c) /\ c \notin gone /\ Len(sent[c]) < MaxSent[c]
  /\ \E cmd \in Commands : sent' = [sent EXCEPT ![c] = Append(@, cmd)]
  /\ late' = IF Unread(c) = 0 THEN late
             ELSE [late EXCEPT ![c] = @ \cup {Len(sent[c]) + 1}]
  /\ UNCHANGED <<fdVars, backlog, gone, text, command, read, answered, pc, served, boot, killed>>

Leave(c) ==
  /\ Connected(c) /\ c \notin gone
  /\ gone' = gone \cup {c}
  /\ UNCHANGED <<fdVars, wordVars, backlog, sent, pc, served, boot, killed>>

\* Karaoke::Karaoke on the main thread: the constructor of Player appends its
\* commands, guiManager.append appends the page.
Boot ==
  /\ \/ boot = "no player" /\ boot' = "commands"
     \/ boot = "commands" /\ boot' = "ready"
  /\ UNCHANGED <<fdVars, clientVars, wordVars, pc, served, killed>>

\* Any thread prints: the default action of SIGPIPE ends the program when the
\* other end has gone away and its answer to an earlier write has come back.
Output ==
  /\ \E d \in {STDOUT_FILENO, STDERR_FILENO} : fds[d] \in gone
  /\ killed' = TRUE
  /\ UNCHANGED <<fdVars, clientVars, wordVars, pc, served, boot>>

-----------------------------------------------------------------------------
\* The thread starts after socket and listen; everything before the player is
\* created leaves what is modelled here as it is.
Init ==
  /\ held \in 0..MaxHeld
  /\ fds = [d \in Descriptors |->
             CASE d < 3 -> "console" [] d = 3 -> "listen" [] d \in 4..(3 + held) -> "other"
               [] OTHER -> Free]
  /\ pc = "accept" /\ cur = -1 /\ backup = [out |-> -1, err |-> -1]
  /\ text = NoText /\ command = "none"
  /\ backlog = <<>> /\ served = <<>> /\ gone = {}
  /\ sent = [c \in Clients |-> <<>>]
  /\ read = [c \in Clients |-> 0]
  /\ answered = [c \in Clients |-> <<>>]
  /\ late = [c \in Clients |-> {}]
  /\ boot = "no player" /\ killed = FALSE

Server == ~killed /\ (Accept \/ Recv \/ Search \/ Act \/ Recover)

Next ==
  \/ Server
  \/ /\ ~killed
     /\ \/ \E c \in Clients : Connect(c) \/ Send(c) \/ Leave(c)
        \/ Boot
        \/ Output

Spec == Init /\ [][Next]_vars

\* The operating system schedules the server's thread.
FairSpec == Spec /\ WF_vars(Server)

-----------------------------------------------------------------------------
(* Properties.                                                             *)

Files == {"console", "listen", "other", Free} \cup Clients

\* Types; in particular the server never works with a descriptor of -1, and
\* a whole text it runs is that of a block that was sent.
TypeOK ==
  /\ fds \in [Descriptors -> Files]
  /\ pc \in {"accept", "recv", "search", "action", "hung"}
  /\ pc = "accept" \/ (cur \in Descriptors /\ Client \in Clients)
  /\ text \in Nat \cup {NoText}
  /\ pc = "action" => text \in 0..Len(sent[Client])
  /\ command \in Commands \cup {"none"} /\ (command # "none" <=> pc = "action")
  /\ \A c \in Clients : read[c] \in 0..(Cells * Len(sent[c]))
  /\ boot \in {"no player", "commands", "ready"}

\* Descriptors that were free when the server started.
Room == MaxFd - 4 - held

\* While a client is connected its commands print to it and to nobody else,
\* also when nothing could be saved (cli.cpp:154-157).
WhoAsksIsAnswered ==
  pc # "accept" => fds[STDOUT_FILENO] = Client /\ fds[STDERR_FILENO] = Client

\* Between two clients every descriptor is accounted for: each client left
\* two behind, as long as there were any, and one is always left to accept
\* the next client with (cli.cpp:154-155, 193-202).
DescriptorsAccounted ==
  pc = "accept" =>
    Cardinality(FreeOnes) = Max({1, Room - 2 * Len(served)})

\* Between two clients the output of the program is on the console again, as
\* long as both backups found a descriptor: the socket and all backups so far
\* fit (cli.cpp:197-202).
ConsoleIsBack ==
  pc = "accept" /\ 2 * Len(served) + 1 <= Room =>
    fds[STDOUT_FILENO] = "console" /\ fds[STDERR_FILENO] = "console"

\* Commands are run at most once and in the order they were sent, however
\* the stream is cut, and a part of a text is only taken for a command when
\* recv cut a text or a command was sent early (cli.cpp:170-175, 246-281).
RunInOrder ==
  /\ \A c \in Clients : \A i, j \in 1..Len(answered[c]) :
       i < j => answered[c][i] < answered[c][j]
  /\ pc \in {"search", "action"} /\ text = 0 => late[Client] # {}

\* A command is only lost when it was sent before the one in front of it was
\* read, or when recv cut its text: one who waits for the answer before
\* typing the next command is answered (cli.cpp:171, 246).
LostOnlyIfLate ==
  \A c \in Clients : \A i \in 1..Len(sent[c]) \ late[c] :
    read[c] >= Cells * (i - 1) + TextCells =>
      i \in ToSet(answered[c]) \/ (pc = "search" /\ Client = c /\ text = i)

\* If no client stays for ever, every client that connects is accepted, also
\* after the descriptors have run out, unless the program was killed or a
\* command of the player did not come back (cli.cpp:125-204).
ClientStays == pc # "accept" /\ Client \notin gone

ClientsAreServed ==
  []<>~ClientStays =>
    \A c \in Clients :
      c \in ToSet(backlog) ~> (c \in ToSet(served) \/ killed \/ pc = "hung")
=============================================================================
