# Verification of webkaraOK

TLA+ models, TLC runs and TLAPS proofs for the karaoke set-top program in `src/source` (Qt 4, C++):
a stack of GUI pages, a play list, a player on top of MediaTek's playback engine, and a TCP command
line (CLI) that reaches into all of them.

The program has four kinds of threads and no lock:

| thread | runs |
| --- | --- |
| GUI (Qt event loop) | pages, buttons, slots, posted slots |
| CLI server (`cli/cli.cpp`, TCP 6789) | `player.*`, `pl.*`, `gui.*`, one command after the other, where they are read |
| engine callback (external) | `Playback::mrPbCtrlEventCb`, and through it `player_callback` |
| IPC server (`ipc/ipc.cpp`, UDP 6790), Playback's idle task | no state shared with the rest |

A thread that fails does not end the program: the handlers of SIGSEGV and SIGABRT that `dbg_init` installs
(`dbg/dbg.cpp:101-124`, called from `Karaoke.cpp:41,65`) pause it for ever, and the other threads go on. The models
call such a thread hung.

## Inventory

**Playback** (`playback/playback.cpp`). State: `m_ePBCStt`, the engine's state and URI, the frames of
the calls on each thread. Operations: `mrPlay()`, `mrPlay(path)`, `mrPause`, `mrResume`, `mrStop`; events
CUR_TIME_UPDATE, EOS, PLAYBACK_ERROR; `vPfnNotifyCbProxy`, which reads `m_ePBCStt` again before it calls
the client. Hard: calls and events interleave, the client calls `mrPlay(path)` from the notification
`mrStop` makes inside `mrPlay(path)`, the engine refuses, fails and settles late. Correct when: a STOP is
answered, re-entry ends, the state agrees with the engine.

**PlayList** (`include/playlist.h`). State: a `deque<Song>`, global, used by all threads. Operations:
append, remove, pop, find and four moves. Hard: `pop` is three calls on the deque; mixed signed and
unsigned positions. Correct when: nothing is lost or reordered by a move, the song that plays is the first.

**Player** (`gui/player/player.cpp`). Client of Playback: answers every STOP by `pop` and `mrPlay(path)`.
Buttons on the GUI thread, `player.*` on the CLI thread. Hard: `pop` of the only song throws, and its thread hangs.
Correct when: no STOP is lost but by such a pop, every other STOP is left, one end of a song takes one song.

**GuiManager and the pages** (`gui/GuiManager.cpp`, `gui/Karaoke.cpp`, the page classes). State:
`guiModules`, `guiStack`, which widgets are shown, Menu's log-off dialog, the slots posted to the GUI
thread. Operations: append, activate, deactivate from pages (GUI) and from `gui.r`, `gui.p` (CLI). Hard:
the stack is changed on two threads, the shown pages on one, later. Correct when: the page on top is the
one shown, Back always has a page to go to.

**PlayListView, SongListView** (`gui/playlist`, `gui/songlist`). A snapshot of up to eight songs with a
cursor over the visible widgets; check marks that add and remove songs. Hard: the list changes under the open
page and under the marks, which nobody updates. Correct when: the cursor only stops at visible widgets and
every key ends, no song of the table is in the list without a mark of its own.

**Cli** (`cli/cli.cpp`, and its client `cli/clitool.cpp`). State: the descriptors 1 and 2 of the whole program,
their backups, the connection, the tables of commands. Operations: accept, redirect, recv and parse, recover;
`cli_append` from the main thread. Hard: the stream has no message boundaries, descriptors are leaked, the
program starts up while commands come in, a command may never come back. Correct when: output is where it belongs,
commands run once and in order, every client is served.

**KeyBoard, InputLine** (`gui/widget`), used by Login. State: the edit box and its copy `input`, the key with the
focus, the line that is connected. Hard: one keyboard for all lines, keys that reach the edit box past it.
Correct when: OK gives the text that is shown to the line that asked.

**PThread, IPC** (`ptasking`, `ipc`), and the ends of Playback and Cli. State: `running`, `thread_id`, the threads
created so far, the socket, `m_fgTerminate`, the engine that was given the object. Operations: construct, start,
stop, delete; `thread_func` and the three `run`s. Hard: a thread may be scheduled after its object is gone; calls
fail and only the log knows; a flag is polled without a barrier. Correct when: a thread that is to be joined is
said to run, a terminated Playback is left alone, a server serves although it was started twice.

**KaraokeDatabase** (`database/database.cpp`), **focus of Category and SingerList**: sequential code of one thread
with index arithmetic; not modelled.

**Log, Background, buttons, Downloader**: output and layout; not modelled, but for the handlers of signals above.
Vendored code is left aside: sqlite3, pthread for Windows, and the copy of SCons 2.1.0 under `tools`, which is
almost all of the Python of the repository. `build.py`, `SConstruct` and `tools/myhelper.py` only set flags and call
it.

## Modules

| module | models | composed of |
| --- | --- | --- |
| `Playback` | `class Playback` with any client | - |
| `PlayListOps` | the operations of `PlayList` as operators on a sequence | - |
| `PlayList` | what `class PlayList` promises: abstract, implemented by `MCPlayer` | `PlayListOps` |
| `Player` | `player.cpp`, the play list, three threads | `Playback`, `PlayListOps` |
| `Navigation` | what the page stack promises: abstract, implemented by `MCGuiManager` without commands | - |
| `GuiManager` | page stack, pages, start-up, `gui.*` | - |
| `SongSelect` | the table of songs with its check marks, the play list page with its cursor, the list under them | `PlayListOps` |
| `Cli` | the server's loop, its descriptors, the blocks of a client, commands during start-up | - |
| `Form` | what the lines of a form promise: abstract, implemented by `KeyBoard` | - |
| `KeyBoard` | the virtual keyboard and the lines that share it | - |
| `PThread` | threads, and the lives of the objects that have one: Playback, IPC, Cli | - |
| `MCPlayback`, `MCPlayer`, `MCGuiManager`, `MCSongSelect`, `MCCli`, `MCKeyBoard` | small instances and history variables for TLC | the module they are named for |
| `Playback_proofs`, `Player_proofs`, `PlayListOps_proofs`, `SongSelect_proofs`, `KeyBoard_proofs`, `GuiManager_proofs`, `Cli_proofs`, `PThread_proofs` | theorems | the module they are named for |

### Playback

`stt` is `m_ePBCStt`. `stack[t]` holds the frames of thread `t`, innermost first, each a program counter and
an argument; a counter stands for a point where another thread can run: before a test of the state
(`open`, `tick`), before a call of the engine (`play`, `param`, `pause`, `stop`), in the wait loops
(`pausepoll`, `stoppoll`), before the assignment (`set`), before the proxy reads the state (`notify`), in the
client (`cb`). A frame `stopping` is an `mrPlay(path)` that waits for its `mrStop`; it goes on at
`SetEngineParam` when `mrStop` returns and returns itself when `mrStop` fails.

The engine (`eng`, `uri`) is external: it is modelled by what the code relies on. It pauses and stops some
time after it was asked (`EngineSettles`), reports time while its decoder runs, and by `Faults` may refuse a
call, be too late for the 101 polls or report an error. `refused` is history: a start was refused since the
state was last set. The code returns the error and every caller in the program drops it.

Left out because nothing reads them: `m_tTmInf` (time of the song) and `m_fgIsEosCb`. Left out because the heap has no state
here: `m_pcFilePath`, which `player.stt` prints (`player.cpp:18`). The proxy
copies the wrong member of its union for E_UOP_RET and E_PBC_NOTIFY, but all members start at the same
address and the client reads the state through the first: no effect, not modelled.

`PbSpec` lets the client return or call `mrPlay(path)` from its callback; `Player` is shown to be such a
client (run `player_serial`, theorem `PlayerIsAClient` for every interleaving).

### Player and play list

`popAt[t]` says which call of `pop` the callback of thread `t` makes next, so another thread can shorten the
list between `size`, `remove` and `at`. When one of them throws nobody catches it, and the thread hangs (`hung`) with its frames
on the stack, while the others go on; all three may end up so, which is why the runs of `MCPlayer` do not check for
deadlock. A pop that throws drops the STOP it was to answer: `Dropped` is a STOP that nobody is going to answer, `StopIsAnswered` says
that only such a step makes one and that the next STOP is answered again, `StopIsLeft` that all other STOPs are left. Two calls of the deque at the same instant (a data
race inside `std::deque`) are not modelled. next and prev are what the code makes them, `mrPlay()`, which the
state test turns away while a song plays. `mrResume` has no caller in the program; it is an action of
`Playback` (`webkok_pb_test.cpp` calls it), not of `Player`.

`PlayList` is the class as its callers may believe it: every operation is one step, and a pop of the last song
leaves its caller `wanting`. `PL` in `MCPlayer` maps the list of the program to it: `list` is the deque, `wanting` a
callback between `remove` and `at` on an empty list, also one that threw there, until somebody appends. `PopIsAtomic` is that
refinement, and in it each change a callback makes is the abstract `pop` and not one of the other operations; it holds
while nobody takes a song off the list during a pop of another thread. The operations no page calls (`clear`
and the moves) are steps of `PlayList` that the program never takes; `ForwardAndBack` checks the moves on every list it makes.

### GuiManager

`call[t]` is what thread `t` has left to do in `activate` or `deactivate`: one step per access of `guiStack`
or request. A request on the GUI thread runs the page's slot at once, on the CLI thread it is posted
(`posted`, Qt's queued connection) and `RunPosted` is the event loop running it. The event loop also runs
inside Menu's log-off dialog. The player is a window of its own and hides the background, the parent of all
other pages (`backdrop`). `pop` and `top` of an empty `QStack` are undefined: the model stops there
(`undefined`), so the runs of `MCGuiManager` do not check for deadlock. `PlayListView::pause` uses `currentFocus`
(`PlayListView.cpp:223`), which the first `resume` of that page sets: a command that overlaps with the pages can pause it
before, and what comes of that is not in the model.

`Navigation` has a path that starts at the login page, grows along a link and loses its last page on Back, if that
page has a way back. `Nav` maps `guiStack` to the path and `undefined` to `lost`. `LocalNavigation` says that the program
implements it until a command is given (`remote = "none"`); from then on the stack is no way of the user any more,
because `gui.r` opens any page from any page. `Links` has the pages' own openings and the log-off of Menu.

### SongSelect

The GUI thread runs the handlers of two pages one after the other; the CLI thread appends (`CliAdd`), and any
thread of `Threads` pops, in the three calls of `PlayList::pop`, at any time: when it really does is `Player`'s
subject. `PlayListView::resume` reads the list item by item, so `ResumeSize`, `ResumeAt` and `ResumeLast` are its
calls of `size`, `at` and `size`; `items`, `listShown`, `currentFocus` and `lit` (the widgets painted as the one under
the cursor) are what it leaves. `CursorKeyEvent` is a walk over the table of `initNavigation`, one `WalkStep` per
round, because each round reads `playlist.size()` again. `KeySelect` is a key on any row of SongListView, with the
slot of PlayListView it calls directly.

What the model says of the code as it is: a mark outlives its song (the player pops it), so a key may take away
an equal song of another row or nothing; the theorem says the list never holds more songs of the table than there
are marks for them. A list that changes while `resume` reads it can make `at` throw, or leave the cursor on a
hidden item: the properties `OpeningThrowsOnlyRaced` and `CursorIsVisible` say that this needs such a change.
The table may be empty (`songs`: SearchResult reads it when it is created, and the database may not open); a key
on it then hangs the GUI thread at `at(0)`, as `resume` does when it loses its race, and a pop hangs the thread that
runs it (`hung`); the other threads go on to change the list. All may hang, so `MCSongSelect.cfg` does not check for deadlock.
Not modelled: which page is on top (`GuiManager`), the context menu, the page keys (empty slots), scrolling.

### Cli

`fds` is the descriptor table; `Accept` is `accept`, two `dup` and two `dup2`, `Recover` is `close` and two `dup2`. They
are one step each because no other thread opens or closes a descriptor in the model: `held` of them belong to the
rest of the program for good. `Output` is a print of any thread to a socket whose other end is closed; SIGPIPE has its
default action, so it may end the program.

`clitool` sends a block of 1024 bytes per command, so the stream of a client is determined by the commands in
`sent`, and `read` says how far the server has come. `Recv` reads one to `Cells` cells, whatever TCP cut, and `TextOf`
says what the parser sees in the zeroed buffer: nothing, a command, or a part of a text (0). A part is parsed like a whole
text, so its first word may be any command or none (`Words`). What the model says of the
code as it is: a block that is cut shifts all that follow it, until the server has caught up with the client; a command that
starts in the middle of a buffer, behind a zero, is lost. `Search` and `Act` are two steps, because the page a command looks up
may be appended in between (`boot`). `player.stop` must hang as long as the Player is null (SIGSEGV), and may hang later,
when `pop` throws on this thread (SIGABRT) or WEBKOK_PB_ASSERT finds no engine and loops: the server is then at
`"hung"` for good. `MCCli.cfg` does not check for deadlock: a server that hangs, or has no more clients, waits.
Not modelled here: the arguments of commands; a port that is taken and the second `start` are in `PThread`.

### KeyBoard

`edit`, `cursor` are the QLineEdit, `input` its copy, `lit` the keys with the red border, `receivers` the lines connected to
`signal_close`, which are all of them until one opens the keyboard. `slot_btn_press` is a key or a click on any virtual
key, with the slot of its function and the `close` that OK calls; `TypeChar` is a key that `eventFilter` lets pass to the edit
box, and `TypeIn` one that `InputLine::eventFilter` lets pass to a line itself. Nothing closes the keyboard but OK: Back and Escape are swallowed. As in the code, the mode stays when
the keyboard is opened again.

`Form` knows nothing of a keyboard: one line at a time is edited, in a draft that starts as its text; only Accept
writes it back; opening another line drops it. A line can be typed into as well (`Type`), which leaves the draft alone, so that
OK undoes what was typed into its line meanwhile. `Lined` maps the shown keyboard to the draft (`input`) and the connected lines to
the line that is edited. That OK emits `signal_close` to every connected line, that the connection is taken from the other lines, and
that `input` is loaded when the keyboard opens is what makes the refinement `IsAForm` hold; text typed past the
keyboard never reaches the draft.

### PThread

One object of one class (`kind`) and its owner. `object` is "base" while `~PThread` runs: the derived part is gone, and
`thread_func` would call a pure virtual `run`. `Start` and `Join`/`Clear` are `PThread::start` and `stop`; the constructors and
destructors of the three classes call them as the code does. A thread goes from "created" (not yet scheduled) through
`thread_func` into the loop of its class; the servers wait for a peer and handle it, and the idle task polls `m_fgTerminate`.
`Faults` are calls that fail: `IMtkPb_Ctrl_Open`, `RegCallback`, `Close`, `bind`, `pthread_create`. ASSERT would loop when its
level is printed, but the servers are constructed before `log_init` sets a level (`Karaoke.cpp:32-40`), so construction goes on;
WEBKOK_PB_ASSERT loops, which is the owner's point "assert".

`loop` is what the compiler makes of the poll of a plain variable in a loop without anything else: it reads it each time,
hoists the read out of the loop, or takes the loop to end. All are outcomes of a correct compiler; gcc -O2 as
`SConstruct` calls it gives the second for C++98 and the third for C++11 and later.

Undefined behaviour ends a behaviour of the model (`undefined`): a detach or join of a `thread_id` that was never set, a second
join, a pure virtual call, the use of a freed object. What the model says of the code as it is: `delete` after `vTerminate`
joins a second time; `Player::exit` deletes a Playback without `vTerminate`, and the engine keeps calling it; the servers' threads
are detached, so deleting a server is a race. The program deletes none of them in fact: Karaoke lives until the
process ends. The session of a Cli with its client is a thread at "handling" (`InSession`), for as long as the client
stays or a command hangs. `MCPThread.cfg` does not check for deadlock: an owner that is done stops.

## Runs

| run | question | instance |
| --- | --- | --- |
| `playback` | types, nesting; without overlap: re-entry ends at two, the state agrees with the engine; a playing engine is reported again and again | one user thread and the engine's, two paths, refusals and errors, stacks up to 3 |
| `playback_pause` (violated) | does the state stay PAUSE as `webkok_pb_test.cpp:145-146` expects | one user, no faults |
| `player_threads` | a STOP is only lost by a pop that throws; all others are left | GUI, CLI, engine, two inside Playback at once and those that hang, refusals, one song in the list at most, stacks up to 3 |
| `player_serial` | the playing song is the first; songs leave in silence; the list keeps the promise of its class; forward and backward cancel; the player refines `PbSpec` | calls that do not overlap, two songs and the one of `pl.add`, list up to 3, refusals and errors |
| `player_pop` (violated) | does `pop` return (`test_playlist.cpp:52`) | one song |
| `gui_pages` | types; without overlap the top is shown; without commands the stack refines `Navigation` | seven pages, stack up to 4, two posted slots per command, followed to the end of the first overlap |
| `gui_remote` (violated) | can the CLI thread control the GUI (`GuiManager.h:66-68`) | `gui.r` |
| `song_select` | do the marks cover the songs; do page and cursor stay in order while the list moves; does every key end | two songs, three rows (one without a song), no songs at all, a page of two items, lists up to 3, two threads |
| `key_board` | does OK give the shown text; is one key lit; do the arrows close to rings; do the lines refine `Form` | two lines, eight keys in two rows, one of each function, texts up to 2 |
| `cli` | where does output go when descriptors run out; which commands are lost, which run in parts; is every client served | two clients with two and one commands, two to five free descriptors, blocks of three cells, two of them text |
| `threads` | what does `running` say; does `vTerminate` return and leave nothing behind; are peers served after a second start, by a Cli if its sessions end | three classes, three loops, five faults, three threads, four peers |
| `threads_terminate` (violated) | is the idle task destroyed (`playback.cpp:230`) | Playback, loops "reload" and "hoist", no faults |

*Why the bounds are enough.* The races in Playback need one event or call between two steps of another
thread: two threads show them, the third thread of `player_threads` adds the list. A re-entry deeper than two
frames would be seen at three. The list needs two songs for a `pop` that succeeds and one for the pop that
throws; a third song makes order visible (`player_serial`). `player_threads` has every interleaving and is about whether a
STOP is answered and left, for which the list matters only as empty or not: one song at most, with an append
between `remove` and `at` for the pop that succeeds. Its stacks hold three frames, one more than a thread alone ever has, so
the chain `mrPlay(path)`, `mrStop`, callback, `mrPlay(path)` is followed where another thread sends it round once more; `StopIsLeft` needs no
exception for the bound. `TwoInside` keeps a third thread out of Playback unless one of the two hangs there. A page stack of four has the longest way without a repetition
but one, and an adjacent repetition at login. A table with two rows of the same song shows marks that change
places; a page shorter than the longest list shows items beyond the page and beyond the list. A keyboard of
eight keys has every kind of key and every edge of the array. Two clients meet every case of a backup that finds
no descriptor (both, one, none), and a client that comes after it; a block of three cells can be cut in its text, behind
it, and be read out of step. Three threads are one more than IPC and Cli start between them by mistake, and four peers one more than
there can be threads to take them. `MaxHeld`, `MaxFd`, `MaxSent`, `MaxText`, `MaxDepth`, `MaxSongs`, `MaxStack`, `MaxPosted`, `MaxThreads`, `MaxPeers` and `TwoInside` are guards named
as bounds in the modules; `AtBound` lets a behaviour that reached `MaxDepth` stutter, and `PlayingIsReported`
excludes it by name (`TooDeep`).

*Serial and overlapping.* Some properties only hold while calls and events do not overlap. The MC modules
keep a history variable (`overlapped`, `fromTop`, `remote`) and the properties say so; what fails with overlap is
either a finding or said in the hazards. `SerialStateAgrees` also needs an engine that is not late: after
101 polls the code sets the state anyway.

*Fairness.* Weak fairness of each thread's next step (the operating system schedules it; no step waits for a
lock), as long as it does not hang. In `Playback` also of the engine finishing a change of state it accepted and of time updates
while it plays, which is what the engine reports once a second; `Player` asks nothing of the engine. Buttons, commands, end of song and
errors are never assumed to happen. `KeyEnds` assumes the GUI thread's next step only, `ClientsAreServed` that of the
server's thread; that no client stays for ever is a premise of the formula, not fairness. In `PThread` each thread of the
object is scheduled outside a session of a Cli, and its owner while it is inside a call; when and whether the owner calls is up to it.
That every session ends is a premise of `PeersAreServed` (`SessionsEnd`): a client that stays keeps the next one waiting.

## Proofs

For all constants that satisfy the named assumptions (any set of users, paths, songs, any faults, any bounds):

* `PbTypes`, `CallsAreNested`: `PbSpec => []PbTypeOK` and `PbSpec => []NestedCalls`. Types alone are not inductive: that a frame returns to a
  waiting `mrPlay(path)`, whose argument is a path, needs to know that every frame below the top waits. The
  invariant is their conjunction; the lemmas on `Goto`, `Enter`, push and `Unwind` say what each does to a
  well-nested stack, and each action cites one of them.
* `RecursionIsShallow`: `PbMCSpec => []SerialReentryBounded`. `StateIsTheEngines`: `PbMCSpec => []SerialStateAgrees`, for an
  engine that settles within the polls (`"late" \notin Faults`). Both follow from `CallInv`, which says for a program with one
  thread inside Playback what each point of its innermost call knows of the engine and of the state (`KnownAt`), and
  that a stack of two frames is an `mrPlay(path)` in its `mrStop`: a call from the callback of that `mrStop` finds the STOP it
  has set, and does not stop again (`ShallowAt`).
* `EveryCallEnds`: `PbMCSpec`. `StepsLeft` counts the steps a thread has left through the frames of its stack: 0 to 15, and
  each step of the thread lowers it while calls and events do not overlap. It needs `CallInv`: only because the inner call
  finds the STOP is there no third level to count. `PlayerRecursionIsShallow`, `PlayerStateIsTheEngines` and `PlayerCallsEnd` (`CallLeft`, 0 to 17,
  which adds the three calls of `pop`) are the same for the player, whose steps are shown to keep the `CallInv` of Playback.
* `PlayerIsAClient`: `Spec => PbSpec`: every step of the player is a step of Playback with some client or leaves
  Playback alone. `PopTakesOneStep`: `SerialSpec => PopIsAtomic`, with the change a callback makes tied to the `pop` of the class. `remove` and `at` are two steps, so the invariant (`SerialInv`)
  says that at most one thread is inside a pop, that it holds what it must of the list, and that the others are at rest. `PlayerTypes`: `Spec => []TypeOK`, with the invariant of Playback.
* `SongsAreNotCutOff`: `SerialSpec => SongsLeaveInSilence`, again for an engine that settles: `CallInv` says that the callback
  which pops was told of a STOP set after the engine had stopped. `WhatPlaysIsOnTop`: `SerialSpec => []PlayedFromTop`. `TopInv` says
  that as long as nobody takes the top away only callbacks start songs, after a STOP, and that the url on the way to the engine is
  that of the top, or a callback is about to choose another. `PopTakesTheSongThatPlayed`, from the same invariant: what a pop takes is the song
  the engine was given last. Not when it was given none, or one without a url: the first pop of all, and the one after an
  empty list, do take a song that was never played.
* `PagesExpectEveryPop`: `Spec => [][Expected]_ViewVars` composes `Player` with `SongSelect`, which lets any thread pop at any time.
  With `View == INSTANCE SongSelect`, where the threads' points in `pop` are those of the player, each step of the player that
  changes the list, or hangs a thread, is a `PopSize`, `PopRemove`, `PopAt` or `CliAdd` of the pages' module or a slot of the pages, in
  every interleaving: the threads `SongSelect` knows nothing of do no more than it allows them.
* `NoStopIsLost`: `Spec => StopIsAnswered`. Some thread answers, or the state is not STOP, or a start was refused (`Answered`): each step but
  one keeps that, since a thread that leaves the path from the notification to the start either sets the state, was
  refused, or sees a state that is not STOP. The one is the pop that throws; and whoever sets the state next is
  on that path again. It needs that only callbacks are inside `pop`, also the hung ones (`PopInCallback`).
  `DroppedOnlyByPop`: `Spec => [](hung = {} => ~Dropped)`, the invariant before the first throw.
* `RemoveTakesTheFirst`, `MovesExchange`, `MovedForwardAndBack`: what `remove` and the moves of `PlayList` do to any list. That the
  song is found again where it was moved to, equal songs in between, is the core (`Find` of a list with two positions
  exchanged). `ListsMoveForwardAndBack`: `SerialSpec => []ForwardAndBack`, the last of them at the lists of the program.
* `SongTypes`, `NoSongWithoutMark`: `Spec => [](TypeOK /\ EverySongHasItsMark)` of `SongSelect`, for any table, database
  and threads. "A mark of its own" is an injection from positions of the list to marked rows; one lemma per
  operation says how it is kept: an append extends it, a removal shifts it, and unmarking a row whose mark stood
  for an equal song hands that song the mark of the one removed. `SongInv` adds that a table without songs never
  filled the list (else the `at` that throws would lose a mark).
* `OneWidgetIsLit`, `CursorCanBeSeen`, `PageOpensWithTheList`, `OpeningIsSafeAlone` of `SongSelect`. `CursorInv` says that one widget is
  painted, the one under the cursor, also halfway through a walk. `PageInv` says of a `resume` that is under way that what it has
  filled in agrees with the list unless another thread changed the list since it began (`Filling`).
  `OpeningIsSafeAlone` is about the throw of `resume`, which hangs the GUI thread. `LoopsOfThePageEnd`: the rounds left of a walk (`RoundsLeft`, at most `ItemNum + 1`) and of a resume (`ReadsLeft`, at most
  `2 * ItemNum + 1`) fall with each round, or the thread hangs; a walk may meet only invisible items, but it never turns round.
* `OkSendsWhatIsShown`, `ArrowsAreRings`, `OneLineIsServed`, `KeyBoardTypes` of `KeyBoard`, for any lines, any keys and rows. The
  invariant (`KbInv`) adds to the properties what holds while the keyboard is hidden: the key with the focus is the only
  one lit, or none is. That arrows undo each other is arithmetic (`ArrowsUndo`). `KeyBoardIsAForm`: `Spec => IsAForm`; the
  abstract step of a virtual key is Edit or a stutter, of a key typed into a line it is Type, of OK it is Accept, which needs that one line is
  connected.
* `GuiTypes`, `PagesNavigate`, `TopPageIsShown` of `GuiManager`, for any bounds. Without commands the GUI thread is alone,
  but a page change is several steps with the stack changed in the middle: the invariant (`LocalInv`) says for each point of
  `activate` and `deactivate` where the stack is, which pages are shown, and what the page that asked was. It needs the
  dialog of Menu, during which the page under it must stay.
* `CommandsAreFollowed`: `MCSpec => []SerialPageFollowsStack`. What is shown lags behind the stack by the posted slots, so the
  invariant (`SerialInv`) speaks of the screen after all of them have run. The last slot about a page decides
  whether it will be shown, which says this without recursion over the queue; `SoFar` says it for each point of a command.
* `StackIsAWalk`: `MCSpec => []Walked`, from the steps of `Navigation` alone, carried over by the refinement: each page of the
  stack is opened by the one below it. `NoPageTwice`, with commands that do not overlap: `ApartInv` keeps from the
  comparison in `activate` to the push that the page to open is not on top, which needs that nobody else pushes or pops meanwhile.
* `PThreadTypes`, `RunningUntilJoined`, `QuietAfterTerminate`, `OneThreadOnItsSocket` of `PThread`, for any classes, faults, loops and
  numbers. The invariant (`PInv`) is one part per class: for a Playback, what the state of its one thread is at each point
  of the owner; for Cli, that `started` comes with the bound socket and its only thread.
* `WholeObjectsAreSafe` (for `"create"`, `"callback" \notin Faults`): undefined behaviour begins with a destructor. `FreedOnlyAfterTerminate`:
  without `vTerminate` the destructor's join waits for a thread nobody stops, unless the compiler made its loop finite (`TaskInv`).
  `JoinWaitsForThreeSteps`: `TaskLeft` (0 to 3) falls with each step of the joined thread while the flag stays set.
  `PeersHaveAThread`: a waiting peer's server has threads, all of which serve (`ServeInv`).
* `OutputGoesToTheClient`, `OneIsLeftToAccept`, `OutputComesBack` of `Cli`, for any number of clients and descriptors. The
  invariant (`CliInv`) counts the free descriptors between and during connections and says where the backups are:
  apart from each other, from 1 and 2 and from the socket, and on the console while both were found.
* `OutputStaysAway`: `Spec => []WhereOutputGoes`, the exact converse: after k clients stdout is on the console while `2k <= Room`, stderr
  while `2k + 1 <= Room`, and from then on each is at the client served last. `Backups` says which backups were found.
* `WorkEnds`: `WorkLeft`, three steps for each cell the client has sent, falls with each step of the server until it recovers,
  and only `Accept` and a `Send` of that client raise it.
* `CliTypes`, `CommandsKeepTheirOrder`, `WhoWaitsIsHeard` of `Cli`: types, `RunInOrder`, `LostOnlyIfLate`. What the server has run are
  blocks of the client in increasing order, none beyond what was read (`Order`), and parts of a text are only read when a block is late
  (`PartsAreLate`). `InTime` says that a block which is not late was
  sent to a server that had read all before it: its text is then read in one piece, and run. `WordInv` is their conjunction.

Every safety property that a passing run checks is stated by one of these theorems, but some need an assumption the run
meets or leaves open: `StateIsTheEngines` and `SongsAreNotCutOff` need an engine that is not late, as in the `cfg` of their runs.

The measures above are the safety halves of liveness properties: what is bounded and by what it falls is proved, that the
steps are taken is fairness and left to TLC: `EveryCallEnds` and `PlayerCallsEnd` of `StopIsLeft` (as far as calls do not overlap), `LoopsOfThePageEnd`
of `KeyEnds`, `WorkEnds` of `ClientsAreServed`, `JoinWaitsForThreeSteps` of `TerminateReturns`, `PeersHaveAThread` of `PeersAreServed`.

Only model-checked: the liveness properties (fairness and ENABLED are out of the prover's reach): `PlayingIsReported`, `StopIsLeft`,
`KeyEnds`, `ClientsAreServed`, `TerminateReturns`, `PeersAreServed`. Out of reach as well are induction over data, that is what a recursive
definition computes for every input, and anything behind a RECURSIVE operator; the modules above use neither.

## Findings

* `playback.cpp:178`: a time update turns the state of a paused engine back to PLAY (`playback_pause`).
* `playlist.h:52`: `pop` of the only song throws, and the thread that was to start the next one hangs in the handler of SIGABRT
  (`dbg.cpp:118-124`); run by `player.stop` that is the server of the command line (`player_pop`).
* `GuiManager.cpp:237`: commands of the CLI overlap with the pages' requests (`gui_remote`).
* `playback.cpp:298`: `vTerminate` may wait for ever for the idle task (`threads_terminate`). With gcc -O2 and no -std, as
  `SConstruct:55` has it, the loop of the idle task is compiled to a test followed by an endless loop when the
  default is C++98, and `vTerminate` only returns if it set the flag before the thread was scheduled.

Met while reading, not runs of their own: the server of the command line loses two descriptors per client
(`DescriptorsAccounted` says how many), and when none is left `<cli> recover io.` recovers nothing; OK drops digits that
were typed into the edit box past the keyboard (`InputIsShown` excludes them by name) and emits `signal_close` twice; the
capital of `w` is `Q` (`keyboard.cpp:87`); `moveForward` of the first song throws (`MoveForwardThrows`, the guard
compares an unsigned number); `remove(at(0))` passes a reference into the deque and logs the name of the
erased song through it; `~GuiManager` and `remove(module)` skip elements (Karaoke is never deleted, so they
never run).

## Not modelled

* Volume and mute of Playback: settings that are forwarded to the engine. One thing met while reading: a second mute before an
  unmute saves the muted volume.
* `m_pcFilePath`, freed and duplicated by `mrPlay(path)` on any thread and printed by `player.stt` on the CLI thread
  (`player.cpp:18`, `mrGetCurrentPath`): two threads may free it twice, or the command may print what was freed. Nothing else depends on its
  value, and what two threads do to the heap at once has no state to model.
* KaraokeDatabase: each query is run by one page to its end; what it returns is data (`SongSelect` takes any table, also none).
* The focus of Category and SingerList and the answer of Login: arithmetic on one thread whose result only chooses which
  page is opened, and `GuiManager` takes any of them.
* The messages between modules (`GuiModule::slotModuleEvent` with a message): no module sends or handles one.
* Log, Background, buttons, styles: output and layout. Of `dbg.cpp` only what its handlers make of a thread that fails is
  modelled: `hung` in `Player` and `SongSelect`, the point `"hung"` in `Cli`. Downloader: an empty class.
* Windows variants; vendored code, with the copy of SCons that makes up the Python files of the repository.

## What could follow

1. The focus of Category and SingerList as parts of the pages, volume and mute of Playback, if they come to share state.
2. A `pop` that reads and removes under one lock: `PopIsAtomic` would then hold for every interleaving, and `player_pop` pass.
