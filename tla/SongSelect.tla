----------------------------- MODULE SongSelect -----------------------------
(***************************************************************************)
(* The play list as its pages see it.  The GUI thread runs SearchResult's  *)
(* table of songs (gui/songlist/SongListView.cpp), whose check marks add   *)
(* and remove songs, and the play list page (gui/playlist/PlayListView.cpp)*)
(* a picture of the list taken when the page is opened, with a cursor.     *)
(* The CLI thread appends (pl.add), and player_callback pops songs on      *)
(* whichever thread reports a STOP (module Player says when; here: at any  *)
(* time).  There is no lock, so each access of the deque is a step.  at()  *)
(* beyond the end throws, and nobody catches that: the handler of SIGABRT  *)
(* (dbg.cpp:118-124) pauses the thread for ever, and the others go on.     *)
(*                                                                         *)
(* Which row of the table is the current one is Qt's: any row may be.      *)
(***************************************************************************)
EXTENDS PlayListOps

CONSTANTS
  Threads,        \* the threads that call pop
  GUI, CLI,       \* two of them
  Songs,          \* songs of the database
  DbSongs,        \* those SearchResult reads when the database opens, in order
  CliSong,        \* what pl.add appends
  RowCount,       \* rows of the table: 5 (SongListView.cpp:219)
  ItemNum,        \* PLAYLISTVIEW_ITEM_NUM: 8
  MaxSongs        \* bound: songs in the play list

ASSUME SongSelectAssumption ==
  /\ GUI \in Threads /\ CLI \in Threads \ {GUI}
  /\ DbSongs \in Seq(Songs)
  /\ CliSong \notin Songs
  /\ "hidden" \notin Songs \cup {CliSong}
  /\ RowCount \in Nat
  /\ ItemNum \in Nat \ {0}
  /\ MaxSongs \in Nat

AllSongs == Songs \cup {CliSong}
Rows == 0..(RowCount - 1)

\* The widgets the cursor of the play list page walks over.
Items == 0..(ItemNum - 1)
btn_prev == ItemNum
btn_next == ItemNum + 1
btn_return == ItemNum + 2
Widgets == 0..btn_return
NULL == -1

Keys == {"Up", "Down", "Left", "Right"}
NoKey == "none"

\* Progress of PlayListView::resume: at the size() or the at() of the loop
\* over the items, or at the last size().
ResumeCalls == {"none", "size", "at", "last"}

Hidden == "hidden"

VARIABLES
  songs,         \* those SearchResult has read
  playlist,      \* the global PlayList
  popAt,         \* for each thread, the next call of its pop()
  hung,          \* the threads whose at() threw: in the handler of SIGABRT
  page,          \* the page that is on top
  marks,         \* CheckStateRole of column 3, for each row
  resumeAt,      \* the next call of resume()
  resumeIdx,     \* its loop variable
  items,         \* for each PlayListItem, the song it shows, or Hidden
  listShown,     \* listview is shown, and promptLabel is not
  currentFocus,  \* the widget under the cursor
  lit,           \* the widgets painted as the one under the cursor
  walk,          \* CursorKeyEvent's temp, or NULL when no key is handled
  key            \* the key it handles, or NoKey

listVars == <<playlist, popAt, hung>>
viewVars == <<resumeAt, resumeIdx, items, listShown, currentFocus, lit, walk, key>>
vars == <<songs, listVars, page, marks, viewVars>>

\* The GUI thread is in its event loop.
GuiIdle == GUI \notin hung /\ resumeAt = "none" /\ walk = NULL /\ popAt[GUI] = "none"

Throw(t) == hung' = hung \cup {t} /\ UNCHANGED playlist

-----------------------------------------------------------------------------
(* SearchResult and SongListView.                                          *)

\* Rows hold the position of their song; one without a song holds nothing,
\* which toInt() makes 0.
RowSong(r) == At0(songs, IF r < Len(songs) THEN r ELSE 0)

OpenSearch ==
  /\ GuiIdle /\ page = "other"
  /\ page' = "search"
  /\ UNCHANGED <<songs, listVars, marks, viewVars>>

\* Mutant of KeySelect: unmarking a song also adds it.
KeySelectAdds(r) ==
  /\ GuiIdle /\ page = "search"
  /\ songs # <<>> /\ Len(playlist) < MaxSongs
  /\ marks' = [marks EXCEPT ![r] = ~@]
  /\ playlist' = Append(playlist, RowSong(r))
  /\ UNCHANGED <<songs, popAt, hung, page, viewVars>>

\* Key_Select on row r: the mark is flipped, and PlayListView::slotSongAdd or
\* slotSongDel runs at once.  at() throws when no song was read at all.
KeySelect(r) ==
  /\ GuiIdle /\ page = "search"
  /\ marks' = [marks EXCEPT ![r] = ~@]
  /\ \/ songs = <<>> /\ Throw(GUI)
     \/ /\ songs # <<>>
        /\ \/ /\ ~marks[r] /\ Len(playlist) < MaxSongs
              /\ playlist' = Append(playlist, RowSong(r))
           \/ /\ marks[r]
              /\ playlist' = RemoveSong(playlist, RowSong(r))
        /\ UNCHANGED hung
  /\ UNCHANGED <<songs, popAt, page, viewVars>>

-----------------------------------------------------------------------------
(* PlayListView: opening and leaving the page.                             *)

OpenPlayList ==
  /\ GuiIdle /\ page = "other"
  /\ page' = "list"
  /\ resumeAt' = "size" /\ resumeIdx' = 0
  /\ UNCHANGED <<songs, listVars, marks, items, listShown, currentFocus, lit, walk, key>>

\* Mutant of NextItem: i <= PLAYLISTVIEW_ITEM_NUM.
NextItemFurther ==
  /\ resumeIdx' = resumeIdx + 1
  /\ resumeAt' = IF resumeIdx < ItemNum THEN "size" ELSE "last"

\* The next round of the loop, or what follows it.
NextItem ==
  /\ resumeIdx' = resumeIdx + 1
  /\ resumeAt' = IF resumeIdx + 1 < ItemNum THEN "size" ELSE "last"

\* Mutant of ResumeSize: one item too many is read.
ResumeSizeFurther ==
  /\ resumeAt = "size"
  /\ \/ resumeIdx > Len(playlist) /\ NextItem /\ items' = [items EXCEPT ![resumeIdx] = Hidden]
     \/ resumeIdx <= Len(playlist) /\ resumeAt' = "at" /\ UNCHANGED <<resumeIdx, items>>
  /\ UNCHANGED <<songs, listVars, page, marks, listShown, currentFocus, lit, walk, key>>

\* Mutant of ResumeSize: items beyond the list stay as they were.
ResumeSizeKeeps ==
  /\ resumeAt = "size"
  /\ \/ resumeIdx >= Len(playlist) /\ NextItem
     \/ resumeIdx < Len(playlist) /\ resumeAt' = "at" /\ UNCHANGED resumeIdx
  /\ UNCHANGED <<songs, listVars, page, marks, items, listShown, currentFocus, lit, walk, key>>

\* if(i>=playlist.size()) items[i]->hide();
ResumeSize ==
  /\ resumeAt = "size"
  /\ \/ /\ resumeIdx >= Len(playlist)
        /\ items' = [items EXCEPT ![resumeIdx] = Hidden]
        /\ NextItem
     \/ /\ resumeIdx < Len(playlist)
        /\ resumeAt' = "at"
        /\ UNCHANGED <<resumeIdx, items>>
  /\ UNCHANGED <<songs, listVars, page, marks, listShown, currentFocus, lit, walk, key>>

\* Song song = playlist.at(i); it throws when the list has become shorter.
ResumeAt ==
  /\ resumeAt = "at"
  /\ \/ /\ resumeIdx >= Len(playlist) /\ Throw(GUI)
        /\ UNCHANGED <<items, resumeAt, resumeIdx>>
     \/ /\ resumeIdx < Len(playlist)
        /\ items' = [items EXCEPT ![resumeIdx] = At0(playlist, resumeIdx)]
        /\ NextItem
        /\ UNCHANGED <<playlist, hung>>
  /\ UNCHANGED <<songs, popAt, page, marks, listShown, currentFocus, lit, walk, key>>

\* Mutant of ResumeLast: the cursor stays where it was.
ResumeLastKeeps ==
  /\ resumeAt = "last"
  /\ resumeAt' = "none"
  /\ listShown' = (playlist # <<>>)
  /\ lit' = lit \cup {currentFocus}
  /\ UNCHANGED <<songs, listVars, page, marks, resumeIdx, items, currentFocus, walk, key>>

\* if(playlist.size() == 0) and the prompt, or the list with its first item.
ResumeLast ==
  /\ resumeAt = "last"
  /\ resumeAt' = "none"
  /\ listShown' = (playlist # <<>>)
  /\ currentFocus' = IF playlist = <<>> THEN btn_return ELSE 0
  /\ lit' = lit \cup {currentFocus'}
  /\ UNCHANGED <<songs, listVars, page, marks, resumeIdx, items, walk, key>>

\* Mutant of Back: the page is hidden with its cursor painted.
BackStaysLit ==
  /\ GuiIdle /\ page \in {"search", "list"}
  /\ page' = "other"
  /\ UNCHANGED <<songs, listVars, marks, viewVars>>

\* Key_Back, or Back under the cursor: pause() of the page.
Back ==
  /\ GuiIdle /\ page \in {"search", "list"}
  /\ page' = "other"
  /\ lit' = IF page = "list" THEN lit \ {currentFocus} ELSE lit
  /\ UNCHANGED <<songs, listVars, marks, resumeAt, resumeIdx, items, listShown,
                 currentFocus, walk, key>>

-----------------------------------------------------------------------------
(* PlayListView: the cursor.                                               *)

\* QWidget::isVisible of a widget of the page, when the page is shown.
IsVisible(w) == w \in Items => listShown /\ items[w] # Hidden

\* Mutant of BtnUp: the items are a ring of their own.
BtnUpRing(w) ==
  CASE w \in Items \ {0} -> w - 1
    [] OTHER -> ItemNum - 1

\* initNavigation's table.
BtnUp(w) ==
  CASE w = 0 -> btn_next
    [] w \in Items \ {0} -> w - 1
    [] OTHER -> ItemNum - 1

Neighbour(w, k) ==
  CASE k = "Up" -> BtnUp(w)
    [] k = "Down" -> IF w \in Items THEN w + 1 ELSE NULL
    [] k = "Left" -> IF w \in {btn_next, btn_return} THEN w - 1 ELSE NULL
    [] k = "Right" -> IF w \in {btn_prev, btn_next} THEN w + 1 ELSE NULL

CursorKeyEvent(k) ==
  /\ GuiIdle /\ page = "list"
  /\ walk' = currentFocus /\ key' = k
  /\ UNCHANGED <<songs, listVars, page, marks, resumeAt, resumeIdx, items, listShown,
                 currentFocus, lit>>

\* One round of the do loop: it reads the size of the list as it is now, skips
\* an invisible widget, and ends at a visible one or at the edge.
WalkStep ==
  LET temp == IF key = "Up" /\ playlist = <<>> THEN NULL ELSE Neighbour(walk, key)
  IN /\ GUI \notin hung /\ walk # NULL
     /\ \/ /\ temp # NULL /\ ~IsVisible(temp)
           /\ walk' = temp
           /\ UNCHANGED <<currentFocus, lit, key>>
        \/ /\ temp # NULL /\ IsVisible(temp)
           /\ walk' = NULL /\ key' = NoKey
           /\ currentFocus' = temp
           /\ lit' = (lit \ {currentFocus}) \cup {temp}
        \/ /\ temp = NULL
           /\ walk' = NULL /\ key' = NoKey
           /\ UNCHANGED <<currentFocus, lit>>
     /\ UNCHANGED <<songs, listVars, page, marks, resumeAt, resumeIdx, items, listShown>>

-----------------------------------------------------------------------------
(* What the other threads do to the list.                                  *)

CliAdd ==
  /\ CLI \notin hung /\ popAt[CLI] = "none"
  /\ Len(playlist) < MaxSongs
  /\ playlist' = Append(playlist, CliSong)
  /\ UNCHANGED <<songs, popAt, hung, page, marks, viewVars>>

\* PlayList::pop of a list that is not empty; the GUI thread calls it from the
\* buttons of the player's page.
PopSize(t) ==
  /\ t \notin hung /\ popAt[t] = "none"
  /\ t = GUI => GuiIdle /\ page = "other"
  /\ playlist # <<>>
  /\ popAt' = [popAt EXCEPT ![t] = "remove"]
  /\ UNCHANGED <<songs, playlist, hung, page, marks, viewVars>>

PopRemove(t) ==
  /\ t \notin hung /\ popAt[t] = "remove"
  /\ \/ playlist = <<>> /\ Throw(t) /\ UNCHANGED popAt
     \/ /\ playlist # <<>>
        /\ playlist' = RemoveSong(playlist, At0(playlist, 0))
        /\ popAt' = [popAt EXCEPT ![t] = "at"]
        /\ UNCHANGED hung
  /\ UNCHANGED <<songs, page, marks, viewVars>>

PopAt(t) ==
  /\ t \notin hung /\ popAt[t] = "at"
  /\ \/ playlist = <<>> /\ Throw(t) /\ UNCHANGED popAt
     \/ /\ playlist # <<>>
        /\ popAt' = [popAt EXCEPT ![t] = "none"]
        /\ UNCHANGED <<playlist, hung>>
  /\ UNCHANGED <<songs, page, marks, viewVars>>

-----------------------------------------------------------------------------
Init ==
  /\ songs \in {<<>>, DbSongs}   \* database.open may fail
  /\ playlist = <<>>
  /\ popAt = [t \in Threads |-> "none"]
  /\ hung = {}
  /\ page = "other"
  /\ marks = [r \in Rows |-> FALSE]
  /\ resumeAt = "none" /\ resumeIdx = 0
  /\ items = [i \in Items |-> Hidden]
  /\ listShown = FALSE
  /\ currentFocus \in Widgets   \* not initialised
  /\ lit = {}
  /\ walk = NULL /\ key = NoKey

Resume == GUI \notin hung /\ (ResumeSize \/ ResumeAt \/ ResumeLast)

Next ==
  \/ OpenSearch \/ OpenPlayList \/ Back
  \/ \E r \in Rows : KeySelect(r)
  \/ Resume
  \/ \E k \in Keys : CursorKeyEvent(k)
  \/ WalkStep
  \/ CliAdd
  \/ \E t \in Threads : PopSize(t) \/ PopRemove(t) \/ PopAt(t)

Spec == Init /\ [][Next]_vars

\* The GUI thread is scheduled, as long as it does not hang.
FairSpec == Spec /\ WF_vars(Resume \/ WalkStep)

-----------------------------------------------------------------------------
(* Properties.                                                             *)

\* Types of the list, the marks and the play list page.
TypeOK ==
  /\ songs \in Seq(Songs)
  /\ playlist \in Seq(AllSongs)
  /\ popAt \in [Threads -> {"none", "remove", "at"}]
  /\ hung \in SUBSET Threads
  /\ page \in {"other", "search", "list"}
  /\ marks \in [Rows -> BOOLEAN]
  /\ resumeAt \in ResumeCalls /\ resumeIdx \in 0..ItemNum
  /\ items \in [Items -> AllSongs \cup {Hidden}]
  /\ listShown \in BOOLEAN
  /\ currentFocus \in Widgets
  /\ lit \in SUBSET Widgets
  /\ walk \in Widgets \cup {NULL} /\ key \in Keys \cup {NoKey}

\* A different row of R for each song of a list that the table put there.
MarkedBy(list, R) ==
  \E row \in Injection({i \in 1..Len(list) : list[i] # CliSong}, R) :
    \A i \in DOMAIN row : RowSong(row[i]) = list[i]

\* Every song in the list, but those of pl.add, has a check mark of its own:
\* whatever the player pops between two keys, the table never holds more
\* songs in the list than it shows as selected (SongListView.cpp:56-79).
EverySongHasItsMark == MarkedBy(playlist, {r \in Rows : marks[r]})

\* While the page is open exactly the widget under the cursor is painted so,
\* and when it is closed none (PlayListView.cpp:219-229, 440-454).
CursorIsLit ==
  walk = NULL =>
    lit = IF page = "list" /\ resumeAt = "none" THEN {currentFocus} ELSE {}

\* A key press ends although the loop reads the list again in each round
\* while other threads change it (PlayListView.cpp:384-438).
KeyEnds == walk # NULL ~> walk = NULL
=============================================================================
