----------------------------- MODULE GuiManager -----------------------------
(***************************************************************************)
(* gui/GuiManager.cpp: which page of the program is shown.  GuiManager     *)
(* keeps a stack of pages; activate pauses the page on top, resumes        *)
(* another and pushes it, deactivate pops, pauses what it popped and       *)
(* resumes what is then on top.  Pages call it on the GUI thread (buttons  *)
(* and the Back key), the commands gui.r and gui.p call the same functions *)
(* on the CLI thread, and the stack has no lock.                           *)
(*                                                                         *)
(* A page is resumed and paused through a signal of its own: the slot runs *)
(* at once on the GUI thread and is posted to the GUI thread's event loop  *)
(* from any other.                                                         *)
(***************************************************************************)
EXTENDS Naturals, Sequences, SequencesExt

CONSTANTS
  GUI, CLI,    \* the two threads
  NoPage,      \* a null GuiModule
  Commands,    \* commands of the CLI that are used: "gui.r", "gui.p"
  MaxStack,    \* bound: no page is opened on a stack as long as this
  MaxPosted    \* bound: posted slots when a command starts

ASSUME GuiManagerAssumption ==
  /\ GUI # CLI
  /\ Commands \subseteq {"gui.r", "gui.p"}
  /\ MaxStack \in Nat \ {0}
  /\ MaxPosted \in Nat

Threads == {GUI, CLI}

\* The pages, in the order in which Karaoke creates and appends them.
Creation == <<"login", "category", "player", "playlistview",
              "searchresult", "singerlist", "menu">>

Pages == {Creation[i] : i \in 1..Len(Creation)}

ASSUME NoPageAssumption == NoPage \notin Pages

\* The pages that the buttons of a page open; Menu opens login in its dialog.
Opens(p) ==
  CASE p = "login"      -> {"menu"}
    [] p = "menu"       -> {"category", "playlistview", "player"}
    [] p = "category"   -> {"singerlist", "searchresult"}
    [] p = "singerlist" -> {"searchresult"}
    [] OTHER            -> {}

\* Every way from one page to the next that a page opens.
Links ==
  {link \in Pages \X Pages : link[2] \in Opens(link[1]) \/ link = <<"menu", "login">>}

\* Mutant of HasBack: a Back key on every page.
HasBackEverywhere == Pages

\* The pages with a Back button or key.
HasBack == {"category", "playlistview", "searchresult", "singerlist", "player"}

VARIABLES
  modules,    \* guiModules: the pages appended so far
  running,    \* Karaoke::resume was called: the event loop runs
  guiStack,   \* the top is the last element
  shown,      \* pages whose root widget is shown
  backdrop,   \* Background, the parent of every root but the player's
  dialog,     \* Menu asks whether to log off
  posted,     \* external: slots posted to the GUI thread
  call,       \* what each thread has left to do in GuiManager
  undefined   \* QStack::pop or top was called on an empty stack

vars ==
  <<modules, running, guiStack, shown, backdrop, dialog, posted, call, undefined>>

widgets == <<shown, backdrop>>

-----------------------------------------------------------------------------
Steps == {"none", "current", "pause", "resume", "push",
          "pop", "leave", "isEmpty", "top"}

\* page: the argument; other: the local variable current or module.
Call(step, page, other) == [step |-> step, page |-> page, other |-> other]
NoCall == Call("none", NoPage, NoPage)

Calls == [step : Steps, page : Pages \cup {NoPage}, other : Pages \cup {NoPage}]
Slots == [slot : {"resume", "pause"}, page : Pages]

Free(t) == call[t] = NoCall
Doing(t, step) == call[t].step = step
Page(t) == call[t].page
Other(t) == call[t].other

Becomes(t, c) == call' = [call EXCEPT ![t] = c]
Advance(t, step) == call' = [call EXCEPT ![t].step = step]

\* resume() and pause() of the pages; the player's also hide and show the
\* widget that is the parent of all other pages.  PlayListView::pause uses
\* currentFocus, which its first resume sets; only commands that overlap with
\* the pages can pause it before, and what comes of that is not modelled.
Resumed(p) ==
  /\ shown' = shown \cup {p}
  /\ backdrop' = (backdrop /\ p # "player")

Paused(p) ==
  /\ shown' = shown \ {p}
  /\ backdrop' = (backdrop \/ p = "player")

\* requestResume and requestPause, by thread t.
RequestResume(t, p) ==
  \/ t = GUI /\ Resumed(p) /\ UNCHANGED posted
  \/ t = CLI /\ posted' = Append(posted, [slot |-> "resume", page |-> p])
             /\ UNCHANGED widgets

\* Mutant of RequestPause: a page does not hear of it from the CLI thread.
RequestPauseDirectOnly(t, p) ==
  \/ t = GUI /\ Paused(p) /\ UNCHANGED posted
  \/ t = CLI /\ UNCHANGED <<widgets, posted>>

RequestPause(t, p) ==
  \/ t = GUI /\ Paused(p) /\ UNCHANGED posted
  \/ t = CLI /\ posted' = Append(posted, [slot |-> "pause", page |-> p])
             /\ UNCHANGED widgets

-----------------------------------------------------------------------------
(* activate(module).                                                       *)

CanOpen == Len(guiStack) < MaxStack

EnterActivate(t, p) == Free(t) /\ CanOpen /\ Becomes(t, Call("current", p, NoPage))

\* Mutant of Current: the null page of an empty stack is paused, too.
CurrentUnchecked(t) ==
  /\ Doing(t, "current")
  /\ LET current == IF guiStack = <<>> THEN NoPage ELSE Last(guiStack) IN
     IF current = Page(t) THEN Becomes(t, NoCall)
     ELSE Becomes(t, Call("pause", Page(t), current))
  /\ UNCHANGED <<modules, running, guiStack, widgets, dialog, posted, undefined>>

\* getActiveModule(), and the page that is active already.
Current(t) ==
  /\ Doing(t, "current")
  /\ \/ guiStack = <<>> /\ Advance(t, "resume")
     \/ /\ guiStack # <<>>
        /\ \/ Last(guiStack) = Page(t) /\ Becomes(t, NoCall)
           \/ /\ Last(guiStack) # Page(t)
              /\ Becomes(t, Call("pause", Page(t), Last(guiStack)))
  /\ UNCHANGED <<modules, running, guiStack, widgets, dialog, posted, undefined>>

PauseCurrent(t) ==
  /\ Doing(t, "pause")
  /\ RequestPause(t, Other(t))
  /\ Advance(t, "resume")
  /\ UNCHANGED <<modules, running, guiStack, dialog, undefined>>

ResumeModule(t) ==
  /\ Doing(t, "resume")
  /\ RequestResume(t, Page(t))
  /\ Advance(t, "push")
  /\ UNCHANGED <<modules, running, guiStack, dialog, undefined>>

Push(t) ==
  /\ Doing(t, "push")
  /\ guiStack' = Append(guiStack, Page(t))
  /\ Becomes(t, NoCall)
  /\ UNCHANGED <<modules, running, widgets, dialog, posted, undefined>>

-----------------------------------------------------------------------------
(* deactivate().                                                           *)

EnterDeactivate(t) == Free(t) /\ Becomes(t, Call("pop", NoPage, NoPage))

\* What pop and top of an empty QStack do is undefined: nothing is modelled
\* after it.
Undefined ==
  /\ undefined' = TRUE
  /\ UNCHANGED <<guiStack, call>>

Pop(t) ==
  /\ Doing(t, "pop")
  /\ \/ guiStack = <<>> /\ Undefined
     \/ /\ guiStack # <<>>
        /\ guiStack' = Front(guiStack)
        /\ Becomes(t, Call("leave", NoPage, Last(guiStack)))
        /\ UNCHANGED undefined
  /\ UNCHANGED <<modules, running, widgets, dialog, posted>>

Leave(t) ==
  /\ Doing(t, "leave")
  /\ RequestPause(t, Other(t))
  /\ Advance(t, "isEmpty")
  /\ UNCHANGED <<modules, running, guiStack, dialog, undefined>>

IsEmpty(t) ==
  /\ Doing(t, "isEmpty")
  /\ IF guiStack = <<>> THEN Becomes(t, NoCall) ELSE Advance(t, "top")
  /\ UNCHANGED <<modules, running, guiStack, widgets, dialog, posted, undefined>>

ResumeTop(t) ==
  /\ Doing(t, "top")
  /\ \/ guiStack = <<>> /\ Undefined /\ UNCHANGED <<widgets, posted>>
     \/ /\ guiStack # <<>>
        /\ RequestResume(t, Last(guiStack))
        /\ Becomes(t, NoCall)
        /\ UNCHANGED <<guiStack, undefined>>
  /\ UNCHANGED <<modules, running, dialog>>

Step(t) ==
  \/ Current(t) \/ PauseCurrent(t) \/ ResumeModule(t) \/ Push(t)
  \/ Pop(t) \/ Leave(t) \/ IsEmpty(t) \/ ResumeTop(t)

-----------------------------------------------------------------------------
(* The GUI thread.                                                         *)

\* append, once for each page, while the commands are already accepted.
AppendModule ==
  /\ Len(modules) < Len(Creation)
  /\ modules' = Append(modules, Creation[Len(modules) + 1])
  /\ UNCHANGED <<running, guiStack, widgets, dialog, posted, call, undefined>>

\* Karaoke::resume, then app.exec().
KaraokeResume ==
  /\ Len(modules) = Len(Creation)
  /\ ~running
  /\ running' = TRUE
  /\ backdrop' = TRUE
  /\ Becomes(GUI, Call("current", "login", NoPage))
  /\ UNCHANGED <<modules, guiStack, shown, dialog, posted, undefined>>

EventLoop == running /\ Free(GUI)

\* Pages that are on the screen and get keys and clicks.
Reachable(p) ==
  /\ p \in shown
  /\ p = "player" \/ backdrop
  /\ ~dialog

OpenPage(p, q) ==
  /\ EventLoop /\ Reachable(p) /\ q \in Opens(p)
  /\ EnterActivate(GUI, q)
  /\ UNCHANGED <<modules, running, guiStack, widgets, dialog, posted, undefined>>

Back(p) ==
  /\ EventLoop /\ Reachable(p) /\ p \in HasBack
  /\ EnterDeactivate(GUI)
  /\ UNCHANGED <<modules, running, guiStack, widgets, dialog, posted, undefined>>

\* Menu::slot2Logout: the message box has an event loop of its own.
AskLogout ==
  /\ EventLoop /\ Reachable("menu")
  /\ dialog' = TRUE
  /\ UNCHANGED <<modules, running, guiStack, widgets, posted, call, undefined>>

Logout ==
  /\ EventLoop /\ dialog
  /\ dialog' = FALSE
  /\ EnterActivate(GUI, "login")
  /\ UNCHANGED <<modules, running, guiStack, widgets, posted, undefined>>

CancelLogout ==
  /\ EventLoop /\ dialog
  /\ dialog' = FALSE
  /\ UNCHANGED <<modules, running, guiStack, widgets, posted, call, undefined>>

\* The event loop runs a slot that another thread posted.
RunPosted ==
  /\ EventLoop /\ posted # <<>>
  /\ \/ Head(posted).slot = "resume" /\ Resumed(Head(posted).page)
     \/ Head(posted).slot = "pause" /\ Paused(Head(posted).page)
  /\ posted' = Tail(posted)
  /\ UNCHANGED <<modules, running, guiStack, dialog, call, undefined>>

-----------------------------------------------------------------------------
(* The CLI thread.                                                         *)

\* gui.r; the name of a page that is not appended yet is not found.
CliResume(p) ==
  /\ "gui.r" \in Commands
  /\ p \in ToSet(modules)
  /\ Len(posted) <= MaxPosted
  /\ EnterActivate(CLI, p)
  /\ UNCHANGED <<modules, running, guiStack, widgets, dialog, posted, undefined>>

\* gui.p
CliPause ==
  /\ "gui.p" \in Commands
  /\ Len(posted) <= MaxPosted
  /\ EnterDeactivate(CLI)
  /\ UNCHANGED <<modules, running, guiStack, widgets, dialog, posted, undefined>>

-----------------------------------------------------------------------------
Init ==
  /\ modules = <<>>
  /\ running = FALSE
  /\ guiStack = <<>>
  /\ shown = {}
  /\ backdrop = FALSE
  /\ dialog = FALSE
  /\ posted = <<>>
  /\ call = [t \in Threads |-> NoCall]
  /\ undefined = FALSE

GuiStarts ==
  \/ \E p \in Pages : Back(p) \/ \E q \in Pages : OpenPage(p, q)
  \/ AskLogout \/ Logout \/ CancelLogout

CliStarts == CliPause \/ \E p \in Pages : CliResume(p)

Next ==
  /\ ~undefined
  /\ \/ AppendModule \/ KaraokeResume
     \/ GuiStarts \/ RunPosted \/ CliStarts
     \/ \E t \in Threads : Step(t)

Spec == Init /\ [][Next]_vars

-----------------------------------------------------------------------------
(* Properties.                                                             *)

\* Types of the state of GuiManager and of the widgets of the pages.
TypeOK ==
  /\ modules \in Seq(Pages)
  /\ running \in BOOLEAN
  /\ guiStack \in Seq(Pages)
  /\ shown \subseteq Pages
  /\ backdrop \in BOOLEAN
  /\ dialog \in BOOLEAN
  /\ posted \in Seq(Slots)
  /\ call \in [Threads -> Calls]
  /\ undefined \in BOOLEAN

\* No thread is inside GuiManager and no slot waits for the event loop.
AtRest == running /\ posted = <<>> /\ \A t \in Threads : Free(t)

\* What the user sees is the page on top of the stack and nothing else, with
\* the background behind it unless it is the player.
TopIsShown ==
  LET top == IF guiStack = <<>> THEN {} ELSE {Last(guiStack)} IN
  /\ shown = top
  /\ backdrop = (top # {"player"})

\* GuiManager.h:66-68 "in order to control gui in cli thread, we: 1. add
\* reqeust functions which emit signals": whatever the CLI thread asked, once
\* it is carried out the page on top of the stack is the one shown.
PageFollowsStack == AtRest => TopIsShown

\* What the stack should be to the user.
Nav == INSTANCE Navigation WITH
  Root <- "login", Links <- Links, Returns <- HasBack,
  path <- guiStack, lost <- undefined
=============================================================================
