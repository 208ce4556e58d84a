------------------------- MODULE GuiManager_proofs --------------------------
(* The page stack, for any bound on it and any commands, as long as none   *)
(* was given; its types, whatever was.                                     *)
EXTENDS MCGuiManager, SequenceTheorems, TLAPS

-----------------------------------------------------------------------------
(* The pages.                                                              *)

LEMMA PagesAre ==
  Pages = {"login", "category", "player", "playlistview",
           "searchresult", "singerlist", "menu"}
<1>1. Len(Creation) = 7
  BY DEF Creation
<1>2. Pages = {Creation[i] : i \in 1..7}
  BY <1>1 DEF Pages
<1>3. 1..7 = {1, 2, 3, 4, 5, 6, 7}
  OBVIOUS
<1>4. Pages = {Creation[1], Creation[2], Creation[3], Creation[4],
               Creation[5], Creation[6], Creation[7]}
  BY <1>2, <1>3
<1> QED BY <1>4 DEF Creation

LEMMA OpensPages ==
  /\ \A p \in Pages : Opens(p) \subseteq Pages
  /\ HasBack \subseteq Pages
  /\ "login" \notin HasBack
BY PagesAre DEF Opens, HasBack

LEMMA StackEnds ==
  ASSUME NEW S, NEW s \in Seq(S)
  PROVE  /\ s # <<>> => /\ Last(s) \in S
                        /\ Front(s) \in Seq(S)
                        /\ Len(Front(s)) = Len(s) - 1
                        /\ Len(s) > 1 => Front(s) # <<>> /\ Head(Front(s)) = Head(s)
         /\ \A e \in S : /\ Append(s, e) \in Seq(S)
                         /\ Append(s, e) # <<>>
                         /\ Last(Append(s, e)) = e
                         /\ s # <<>> => Head(Append(s, e)) = Head(s)
<1>1. Len(s) \in Nat /\ \A i \in 1..Len(s) : s[i] \in S
  BY LenProperties, ElementOfSeq
<1>2. s # <<>> => Len(s) \in 1..Len(s) /\ Len(s) >= 1
  BY <1>1, EmptySeq
<1>3. ASSUME s # <<>>
      PROVE  /\ Last(s) \in S
             /\ Front(s) \in Seq(S)
             /\ Len(Front(s)) = Len(s) - 1
             /\ Len(s) > 1 => Front(s) # <<>> /\ Head(Front(s)) = Head(s)
  <2>1. Last(s) \in S
    BY <1>1, <1>2, <1>3 DEF Last
  <2>2. 1 \in Int /\ Len(s) - 1 \in Int /\ \A i \in 1..(Len(s) - 1) : s[i] \in S
    BY <1>1
  <2>3. /\ Front(s) \in Seq(S)
        /\ Len(Front(s)) = IF 1 <= Len(s) - 1 THEN (Len(s) - 1) - 1 + 1 ELSE 0
        /\ \A i \in 1..((Len(s) - 1) - 1 + 1) : Front(s)[i] = s[1 + i - 1]
    BY <2>2, SubSeqProperties DEF Front
  <2>4. Len(Front(s)) = Len(s) - 1
    <3>0. Len(s) \in Nat /\ Len(s) >= 1
      BY <1>1, <1>2, <1>3
    <3>1. \A n \in Nat : n >= 1 => n = 1 \/ 1 <= n - 1
      OBVIOUS
    <3>2. Len(s) = 1 \/ 1 <= Len(s) - 1
      BY <3>0, <3>1
    <3>3. Len(s) = 1 => Len(Front(s)) = Len(s) - 1
      BY <2>3
    <3>4. 1 <= Len(s) - 1 => Len(Front(s)) = Len(s) - 1
      BY <1>1, <2>3
    <3> QED BY <3>2, <3>3, <3>4
  <2>5. ASSUME Len(s) > 1 PROVE Front(s) # <<>> /\ Head(Front(s)) = Head(s)
    <3>1. Front(s)[1] = s[1]
      BY <1>1, <2>3, <2>5
    <3>2. Front(s) # <<>>
      BY <1>1, <2>3, <2>4, <2>5
    <3> QED BY <1>3, <2>3, <3>1, <3>2
  <2> QED BY <2>1, <2>3, <2>4, <2>5
<1>4. ASSUME NEW e \in S
      PROVE  /\ Append(s, e) \in Seq(S)
             /\ Append(s, e) # <<>>
             /\ Last(Append(s, e)) = e
             /\ s # <<>> => Head(Append(s, e)) = Head(s)
  <2>1. /\ Append(s, e) \in Seq(S)
        /\ Len(Append(s, e)) = Len(s) + 1
        /\ Append(s, e)[Len(s) + 1] = e
        /\ \A i \in 1..Len(s) : Append(s, e)[i] = s[i]
    BY <1>1, AppendProperties
  <2>2. Append(s, e) # <<>>
    BY <1>1, <2>1
  <2>3. Last(Append(s, e)) = e
    BY <2>1 DEF Last
  <2>4. ASSUME s # <<>> PROVE Head(Append(s, e)) = Head(s)
    <3>1. 1 \in 1..Len(s)
      BY <1>1, <1>2, <2>4
    <3>2. Append(s, e)[1] = s[1]
      BY <2>1, <3>1
    <3> QED BY <2>1, <2>2, <2>4, <3>2
  <2> QED BY <2>1, <2>2, <2>3, <2>4
<1> QED BY <1>3, <1>4

-----------------------------------------------------------------------------
(* Types.                                                                  *)

\* A call of activate has its page, and one that pauses a page has that.
CallsHavePages ==
  \A t \in Threads :
    /\ call[t].step \in {"current", "pause", "resume", "push"} => Page(t) \in Pages
    /\ call[t].step \in {"pause", "leave"} => Other(t) \in Pages

TypeInv == TypeOK /\ CallsHavePages

LEMMA RequestTypes ==
  ASSUME TypeOK, NEW t \in Threads, NEW p \in Pages,
         RequestResume(t, p) \/ RequestPause(t, p)
  PROVE  shown' \subseteq Pages /\ backdrop' \in BOOLEAN /\ posted' \in Seq(Slots)
<1> DEFINE on == [slot |-> "resume", page |-> p]
           off == [slot |-> "pause", page |-> p]
<1>1. on \in Slots /\ off \in Slots
  BY DEF Slots
<1> HIDE DEF on, off
<1>2. Append(posted, on) \in Seq(Slots) /\ Append(posted, off) \in Seq(Slots)
  BY <1>1, StackEnds DEF TypeOK
<1>3. posted' \in {posted, Append(posted, on), Append(posted, off)}
  BY DEF RequestResume, RequestPause, on, off
<1>4. /\ shown' \in {shown, shown \cup {p}, shown \ {p}}
      /\ backdrop' \in BOOLEAN
  BY DEF RequestResume, RequestPause, Resumed, Paused, widgets, TypeOK
<1> QED BY <1>2, <1>3, <1>4 DEF TypeOK

LEMMA NoCallIs == NoCall \in Calls /\ NoCall.step = "none"
BY DEF NoCall, Calls, Call, Steps

\* A thread that takes a new call with its page, and changes nothing else of
\* what the calls are about.
LEMMA BecomesCall ==
  ASSUME TypeInv, NEW t \in Threads, NEW c \in Calls, Becomes(t, c),
         c.step \in {"current", "pause", "resume", "push"} => c.page \in Pages,
         c.step \in {"pause", "leave"} => c.other \in Pages
  PROVE  call' \in [Threads -> Calls] /\ CallsHavePages'
<1>1. /\ call' \in [Threads -> Calls]
      /\ \A u \in Threads : call'[u] = IF u = t THEN c ELSE call[u]
  BY DEF Becomes, TypeInv, TypeOK
<1>2. ASSUME NEW u \in Threads
      PROVE  /\ call'[u].step \in {"current", "pause", "resume", "push"} => call'[u].page \in Pages
             /\ call'[u].step \in {"pause", "leave"} => call'[u].other \in Pages
  BY <1>1 DEF TypeInv, CallsHavePages, Page, Other
<1> QED BY <1>1, <1>2 DEF CallsHavePages, Page, Other

LEMMA AdvanceIsBecomes ==
  ASSUME TypeInv, NEW t \in Threads, NEW step \in Steps, Advance(t, step)
  PROVE  /\ [call[t] EXCEPT !.step = step] \in Calls
         /\ [call[t] EXCEPT !.step = step].step = step
         /\ [call[t] EXCEPT !.step = step].page = Page(t)
         /\ [call[t] EXCEPT !.step = step].other = Other(t)
         /\ Becomes(t, [call[t] EXCEPT !.step = step])
<1>1. call[t] \in Calls
  BY DEF TypeInv, TypeOK
<1> QED BY <1>1 DEF Calls, Page, Other, Becomes, Advance

\* Steps a thread takes without a new page.
LEMMA AdvanceCall ==
  ASSUME TypeInv, NEW t \in Threads, NEW step \in Steps, Advance(t, step),
         step \in {"current", "pause", "resume", "push"} => Page(t) \in Pages,
         step \notin {"pause", "leave"}
  PROVE  call' \in [Threads -> Calls] /\ CallsHavePages'
<1> DEFINE c == [call[t] EXCEPT !.step = step]
<1>1. /\ c \in Calls /\ Becomes(t, c)
      /\ c.step = step /\ c.page = Page(t) /\ c.other = Other(t)
  BY AdvanceIsBecomes
<1> HIDE DEF c
<1> QED BY <1>1, BecomesCall

LEMMA EndCall ==
  ASSUME TypeInv, NEW t \in Threads, Becomes(t, NoCall)
  PROVE  call' \in [Threads -> Calls] /\ CallsHavePages'
BY NoCallIs, BecomesCall

LEMMA SameCall ==
  ASSUME TypeInv, UNCHANGED call
  PROVE  call' \in [Threads -> Calls] /\ CallsHavePages'
BY DEF TypeInv, TypeOK, CallsHavePages, Page, Other

LEMMA StepTypes ==
  ASSUME TypeInv, NEW t \in Threads, Step(t)
  PROVE  TypeInv'
<1> USE DEF Doing
<1> DEFINE Types == call' \in [Threads -> Calls] /\ CallsHavePages'
<1>0. /\ TypeOK /\ (guiStack # <<>> => Last(guiStack) \in Pages /\ Front(guiStack) \in Seq(Pages))
      /\ {"none", "current", "pause", "resume", "push", "pop", "leave", "isEmpty", "top"} = Steps
  BY StackEnds DEF TypeInv, TypeOK, Steps
<1>1. CASE Current(t)
  <2>1. CASE Advance(t, "resume")
    <3>1. Types
      BY <1>0, <1>1, <2>1, AdvanceCall DEF Current, TypeInv, CallsHavePages
    <3> QED BY <1>0, <1>1, <3>1 DEF Current, TypeInv, TypeOK, widgets
  <2>2. CASE Becomes(t, NoCall)
    <3>1. Types
      BY <2>2, EndCall
    <3> QED BY <1>0, <1>1, <3>1 DEF Current, TypeInv, TypeOK, widgets
  <2>3. CASE guiStack # <<>> /\ Becomes(t, Call("pause", Page(t), Last(guiStack)))
    <3> DEFINE c == Call("pause", Page(t), Last(guiStack))
    <3>1. Page(t) \in Pages
      BY <1>1 DEF Current, TypeInv, CallsHavePages
    <3>2. c \in Calls /\ c.page \in Pages /\ c.other \in Pages
      BY <1>0, <2>3, <3>1 DEF Call, Calls
    <3>3. Types
      BY <2>3, <3>2, BecomesCall
    <3> QED BY <1>0, <1>1, <3>3 DEF Current, TypeInv, TypeOK, widgets
  <2> QED BY <1>1, <2>1, <2>2, <2>3 DEF Current
<1>2. CASE PauseCurrent(t)
  <2>1. Other(t) \in Pages /\ Page(t) \in Pages
    BY <1>2 DEF PauseCurrent, TypeInv, CallsHavePages
  <2>2. shown' \subseteq Pages /\ backdrop' \in BOOLEAN /\ posted' \in Seq(Slots)
    BY <1>0, <1>2, <2>1, RequestTypes DEF PauseCurrent
  <2>3. Types
    BY <1>0, <1>2, <2>1, AdvanceCall DEF PauseCurrent
  <2> QED BY <1>0, <1>2, <2>2, <2>3 DEF PauseCurrent, TypeInv, TypeOK
<1>3. CASE ResumeModule(t)
  <2>1. Page(t) \in Pages
    BY <1>3 DEF ResumeModule, TypeInv, CallsHavePages
  <2>2. shown' \subseteq Pages /\ backdrop' \in BOOLEAN /\ posted' \in Seq(Slots)
    BY <1>0, <1>3, <2>1, RequestTypes DEF ResumeModule
  <2>3. Types
    BY <1>0, <1>3, <2>1, AdvanceCall DEF ResumeModule
  <2> QED BY <1>0, <1>3, <2>2, <2>3 DEF ResumeModule, TypeInv, TypeOK
<1>4. CASE Push(t)
  <2>1. Page(t) \in Pages
    BY <1>4 DEF Push, TypeInv, CallsHavePages
  <2>2. guiStack' \in Seq(Pages)
    BY <1>0, <1>4, <2>1, StackEnds DEF Push, TypeOK
  <2>3. Types
    BY <1>4, EndCall DEF Push
  <2> QED BY <1>0, <1>4, <2>2, <2>3 DEF Push, TypeInv, TypeOK, widgets
<1>5. CASE Pop(t)
  <2>1. CASE guiStack = <<>>
    BY <1>0, <1>5, <2>1, SameCall DEF Pop, Undefined, TypeInv, TypeOK, widgets
  <2>2. CASE guiStack # <<>>
    <3> DEFINE c == Call("leave", NoPage, Last(guiStack))
    <3>1. c \in Calls /\ c.step = "leave" /\ c.other \in Pages
      BY <1>0, <2>2 DEF Call, Calls
    <3>2. Types
      BY <1>5, <2>2, <3>1, BecomesCall DEF Pop
    <3> QED BY <1>0, <1>5, <2>2, <3>2 DEF Pop, TypeInv, TypeOK, widgets
  <2> QED BY <2>1, <2>2
<1>6. CASE Leave(t)
  <2>1. Other(t) \in Pages
    BY <1>6 DEF Leave, TypeInv, CallsHavePages
  <2>2. shown' \subseteq Pages /\ backdrop' \in BOOLEAN /\ posted' \in Seq(Slots)
    BY <1>0, <1>6, <2>1, RequestTypes DEF Leave
  <2>3. Types
    BY <1>0, <1>6, AdvanceCall DEF Leave
  <2> QED BY <1>0, <1>6, <2>2, <2>3 DEF Leave, TypeInv, TypeOK
<1>7. CASE IsEmpty(t)
  <2>1. Types
    BY <1>0, <1>7, AdvanceCall, EndCall DEF IsEmpty
  <2> QED BY <1>0, <1>7, <2>1 DEF IsEmpty, TypeInv, TypeOK, widgets
<1>8. CASE ResumeTop(t)
  <2>1. CASE guiStack = <<>>
    BY <1>0, <1>8, <2>1, SameCall DEF ResumeTop, Undefined, TypeInv, TypeOK, widgets
  <2>2. CASE guiStack # <<>>
    <3>1. shown' \subseteq Pages /\ backdrop' \in BOOLEAN /\ posted' \in Seq(Slots)
      BY <1>0, <1>8, <2>2, RequestTypes DEF ResumeTop
    <3>2. Types
      BY <1>8, <2>2, EndCall DEF ResumeTop
    <3> QED BY <1>0, <1>8, <2>2, <3>1, <3>2 DEF ResumeTop, TypeInv, TypeOK
  <2> QED BY <2>1, <2>2
<1> QED BY <1>1, <1>2, <1>3, <1>4, <1>5, <1>6, <1>7, <1>8 DEF Step

\* A thread begins a call.
LEMMA EnterTypes ==
  ASSUME TypeInv, NEW t \in Threads
  PROVE  /\ \A p \in Pages : Becomes(t, Call("current", p, NoPage)) =>
              call' \in [Threads -> Calls] /\ CallsHavePages'
         /\ Becomes(t, Call("pop", NoPage, NoPage)) =>
              call' \in [Threads -> Calls] /\ CallsHavePages'
<1>1. ASSUME NEW p \in Pages, Becomes(t, Call("current", p, NoPage))
      PROVE  call' \in [Threads -> Calls] /\ CallsHavePages'
  <2> DEFINE c == Call("current", p, NoPage)
  <2>1. c \in Calls /\ c.page \in Pages /\ c.step = "current"
    BY DEF Call, Calls, Steps
  <2> QED BY <1>1, <2>1, BecomesCall
<1>2. ASSUME Becomes(t, Call("pop", NoPage, NoPage))
      PROVE  call' \in [Threads -> Calls] /\ CallsHavePages'
  <2> DEFINE c == Call("pop", NoPage, NoPage)
  <2>1. c \in Calls /\ c.step = "pop"
    BY DEF Call, Calls, Steps
  <2> QED BY <1>2, <2>1, BecomesCall
<1> QED BY <1>1, <1>2

LEMMA NextTypes ==
  ASSUME TypeInv, [Next]_vars
  PROVE  TypeInv'
<1>0. TypeOK /\ CallsHavePages /\ GUI \in Threads /\ CLI \in Threads
  BY DEF TypeInv, Threads
<1>1. CASE AppendModule
  <2>1. Len(modules) \in Nat /\ Len(modules) + 1 \in 1..Len(Creation)
    BY <1>0, <1>1, LenProperties DEF AppendModule, TypeOK, Creation
  <2>2. Creation[Len(modules) + 1] \in Pages
    BY <2>1 DEF Pages
  <2>3. modules' \in Seq(Pages)
    BY <1>0, <1>1, <2>2, StackEnds DEF AppendModule, TypeOK
  <2> QED BY <1>0, <1>1, <2>3, SameCall DEF AppendModule, TypeInv, TypeOK, widgets
<1>2. CASE KaraokeResume
  <2>1. call' \in [Threads -> Calls] /\ CallsHavePages'
    BY <1>0, <1>2, PagesAre, EnterTypes DEF KaraokeResume
  <2> QED BY <1>0, <1>2, <2>1 DEF KaraokeResume, TypeInv, TypeOK
<1>3. ASSUME NEW p \in Pages, Back(p) PROVE TypeInv'
  <2>1. call' \in [Threads -> Calls] /\ CallsHavePages'
    BY <1>0, <1>3, EnterTypes DEF Back, EnterDeactivate
  <2> QED BY <1>0, <1>3, <2>1 DEF Back, TypeInv, TypeOK, widgets
<1>4. ASSUME NEW p \in Pages, NEW q \in Pages, OpenPage(p, q) PROVE TypeInv'
  <2>1. call' \in [Threads -> Calls] /\ CallsHavePages'
    BY <1>0, <1>4, EnterTypes DEF OpenPage, EnterActivate
  <2> QED BY <1>0, <1>4, <2>1 DEF OpenPage, TypeInv, TypeOK, widgets
<1>5. CASE AskLogout \/ CancelLogout
  BY <1>0, <1>5, SameCall DEF AskLogout, CancelLogout, TypeInv, TypeOK, widgets
<1>6. CASE Logout
  <2>1. call' \in [Threads -> Calls] /\ CallsHavePages'
    BY <1>0, <1>6, PagesAre, EnterTypes DEF Logout, EnterActivate
  <2> QED BY <1>0, <1>6, <2>1 DEF Logout, TypeInv, TypeOK, widgets
<1>7. CASE RunPosted
  <2>1. Head(posted) \in Slots /\ Tail(posted) \in Seq(Slots)
    BY <1>0, <1>7, HeadTailProperties DEF RunPosted, TypeOK
  <2>2. Head(posted).page \in Pages
    BY <2>1 DEF Slots
  <2>3. shown' \subseteq Pages /\ backdrop' \in BOOLEAN
    BY <1>0, <1>7, <2>2 DEF RunPosted, Resumed, Paused, TypeOK
  <2> QED BY <1>0, <1>7, <2>1, <2>3, SameCall DEF RunPosted, TypeInv, TypeOK
<1>8. CASE CliPause
  <2>1. call' \in [Threads -> Calls] /\ CallsHavePages'
    BY <1>0, <1>8, EnterTypes DEF CliPause, EnterDeactivate
  <2> QED BY <1>0, <1>8, <2>1 DEF CliPause, TypeInv, TypeOK, widgets
<1>9. ASSUME NEW p \in Pages, CliResume(p) PROVE TypeInv'
  <2>1. call' \in [Threads -> Calls] /\ CallsHavePages'
    BY <1>0, <1>9, EnterTypes DEF CliResume, EnterActivate
  <2> QED BY <1>0, <1>9, <2>1 DEF CliResume, TypeInv, TypeOK, widgets
<1>10. CASE UNCHANGED vars
  BY <1>0, <1>10, SameCall DEF vars, widgets, TypeInv, TypeOK
<1> QED
  BY <1>1, <1>2, <1>3, <1>4, <1>5, <1>6, <1>7, <1>8, <1>9, <1>10, StepTypes
     DEF Next, GuiStarts, CliStarts

LEMMA InitTypes == Init => TypeInv
<1> SUFFICES ASSUME Init PROVE TypeInv
  OBVIOUS
<1>1. call \in [Threads -> Calls] /\ \A t \in Threads : call[t].step = "none"
  BY NoCallIs DEF Init
<1>2. CallsHavePages
  BY <1>1 DEF CallsHavePages
<1>3. <<>> \in Seq(Pages) /\ <<>> \in Seq(Slots)
  OBVIOUS
<1> QED BY <1>1, <1>2, <1>3 DEF Init, TypeInv, TypeOK

LEMMA TypesKept == Spec => []TypeInv
BY InitTypes, NextTypes, PTL DEF Spec

(* Types of the page stack and of what waits for the event loop, whatever  *)
(* the two threads ask for: every page that is paused or resumed, directly *)
(* or by a posted slot, exists (GuiManager.cpp:232-277).                   *)
THEOREM GuiTypes == Spec => []TypeOK
<1>1. TypeInv => TypeOK
  BY DEF TypeInv
<1> QED BY <1>1, TypesKept, PTL

-----------------------------------------------------------------------------
(* Navigation by the pages alone.                                          *)

\* The page that is being opened is one the page on top leads to.
Leads(p) ==
  IF guiStack = <<>> THEN p = "login" ELSE <<Last(guiStack), p>> \in Links

\* What is on the screen between two steps of GuiManager.
Bare == shown = {} /\ backdrop = TRUE
Alone(p) == shown = {p} /\ backdrop = (p # "player")

\* The GUI thread, by what it has left to do.
GuiInv ==
  /\ guiStack # <<>> => Head(guiStack) = "login"
  /\ Doing(GUI, "none") \/ ~dialog
  /\ Doing(GUI, "none") =>
       guiStack # <<>> /\ Alone(Last(guiStack)) /\ (dialog => Last(guiStack) = "menu")
  /\ Doing(GUI, "current") => Leads(Page(GUI)) /\ TopIsShown
  /\ Doing(GUI, "pause") =>
       /\ Leads(Page(GUI)) /\ guiStack # <<>>
       /\ Other(GUI) = Last(guiStack) /\ Alone(Other(GUI))
  /\ Doing(GUI, "resume") => Leads(Page(GUI)) /\ Bare
  /\ Doing(GUI, "push") => Leads(Page(GUI)) /\ Alone(Page(GUI))
  /\ Doing(GUI, "pop") =>
       guiStack # <<>> /\ Alone(Last(guiStack)) /\ Last(guiStack) \in HasBack
  /\ Doing(GUI, "leave") => guiStack # <<>> /\ Alone(Other(GUI))
  /\ Doing(GUI, "isEmpty") => guiStack # <<>> /\ Bare
  /\ Doing(GUI, "top") => guiStack # <<>> /\ Bare

\* While no command was given.
LocalInv ==
  /\ ~undefined /\ posted = <<>> /\ Free(CLI)
  /\ running => GuiInv
  /\ ~running => guiStack = <<>> /\ shown = {} /\ ~dialog /\ Free(GUI)

LocallyInv == remote = "none" => LocalInv

LEMMA GuiBecomes ==
  ASSUME TypeInv, NEW c, Becomes(GUI, c)
  PROVE  call'[GUI] = c /\ call'[CLI] = call[CLI]
BY GuiManagerAssumption DEF TypeInv, TypeOK, Becomes, Threads

LEMMA GuiAdvances ==
  ASSUME TypeInv, NEW step \in Steps, Advance(GUI, step)
  PROVE  /\ call'[GUI].step = step /\ call'[GUI].page = Page(GUI)
         /\ call'[GUI].other = Other(GUI) /\ call'[CLI] = call[CLI]
<1> DEFINE c == [call[GUI] EXCEPT !.step = step]
<1>1. /\ c.step = step /\ c.page = Page(GUI) /\ c.other = Other(GUI)
      /\ Becomes(GUI, c)
  BY AdvanceIsBecomes DEF Threads
<1> HIDE DEF c
<1>2. call'[GUI] = c /\ call'[CLI] = call[CLI]
  BY <1>1, GuiBecomes
<1> QED BY <1>1, <1>2

LEMMA LeadsToPages ==
  ASSUME NEW p, Leads(p)
  PROVE  p \in Pages
BY PagesAre DEF Leads, Links

LEMMA GuiIsNotCli == GUI # CLI /\ GUI \in Threads /\ CLI \in Threads
BY GuiManagerAssumption DEF Threads

\* What is asked on the GUI thread is done at once.
LEMMA DirectRequests ==
  ASSUME NEW p
  PROVE  /\ RequestPause(GUI, p) /\ Alone(p) => Bare' /\ UNCHANGED posted
         /\ RequestResume(GUI, p) /\ Bare => Alone(p)' /\ UNCHANGED posted
BY GuiIsNotCli DEF RequestPause, RequestResume, Paused, Resumed, Alone, Bare

LEMMA LocalStep ==
  ASSUME TypeInv, LocalInv, running, Step(GUI)
  PROVE  LocalInv' /\ (Nav!Next \/ UNCHANGED Nav!vars)
<1> USE GuiIsNotCli
<1> DEFINE Goal == LocalInv' /\ (Nav!Next \/ UNCHANGED Nav!vars)
<1>0. /\ TypeOK /\ GuiInv /\ ~undefined /\ posted = <<>> /\ Free(CLI)
      /\ {"none", "current", "pause", "resume", "push", "pop", "leave", "isEmpty", "top"} = Steps
      /\ NoCall.step = "none"
      /\ guiStack \in Seq(Pages)
  BY NoCallIs DEF TypeInv, TypeOK, LocalInv, Steps
<1>1. CASE Current(GUI)
  <2>1. Leads(Page(GUI)) /\ TopIsShown /\ ~dialog
    BY <1>0, <1>1 DEF Current, GuiInv, Doing
  <2>2. UNCHANGED <<running, guiStack, shown, backdrop, dialog, posted, undefined>>
    BY <1>1 DEF Current, widgets
  <2>3. CASE guiStack = <<>> /\ Advance(GUI, "resume")
    <3>1. /\ call'[GUI].step = "resume" /\ call'[GUI].page = Page(GUI)
          /\ call'[CLI] = call[CLI]
      BY <1>0, <2>3, GuiAdvances
    <3>2. Bare
      BY <2>1, <2>3 DEF TopIsShown, Bare
    <3> QED BY <1>0, <2>1, <2>2, <3>1, <3>2
            DEF LocalInv, GuiInv, Doing, Page, Free, Leads, Bare, Nav!vars
  <2>4. CASE guiStack # <<>> /\ Last(guiStack) = Page(GUI) /\ Becomes(GUI, NoCall)
    <3>1. call'[GUI] = NoCall /\ call'[CLI] = call[CLI]
      BY <2>4, GuiBecomes
    <3>2. Alone(Last(guiStack))
      BY <2>1, <2>4 DEF TopIsShown, Alone
    <3> QED BY <1>0, <2>1, <2>2, <2>4, <3>1, <3>2
            DEF LocalInv, GuiInv, Doing, Free, Alone, Nav!vars
  <2>5. CASE guiStack # <<>> /\ Becomes(GUI, Call("pause", Page(GUI), Last(guiStack)))
    <3>1. /\ call'[GUI].step = "pause" /\ call'[GUI].page = Page(GUI)
          /\ call'[GUI].other = Last(guiStack) /\ call'[CLI] = call[CLI]
      BY <2>5, GuiBecomes DEF Call
    <3>2. Alone(Last(guiStack))
      BY <2>1, <2>5 DEF TopIsShown, Alone
    <3> QED BY <1>0, <2>1, <2>2, <2>5, <3>1, <3>2
            DEF LocalInv, GuiInv, Doing, Page, Other, Free, Leads, Alone, Nav!vars
  <2> QED BY <1>1, <2>3, <2>4, <2>5 DEF Current
<1>2. CASE PauseCurrent(GUI)
  <2>1. Leads(Page(GUI)) /\ Alone(Other(GUI)) /\ ~dialog
    BY <1>0, <1>2 DEF PauseCurrent, GuiInv, Doing
  <2>2. UNCHANGED <<running, guiStack, dialog, undefined>>
    BY <1>2 DEF PauseCurrent
  <2>3. Bare' /\ UNCHANGED posted
    BY <1>2, <2>1, DirectRequests DEF PauseCurrent
  <2>4. /\ call'[GUI].step = "resume" /\ call'[GUI].page = Page(GUI)
        /\ call'[CLI] = call[CLI]
    BY <1>0, <1>2, GuiAdvances DEF PauseCurrent
  <2> QED BY <1>0, <2>1, <2>2, <2>3, <2>4
          DEF LocalInv, GuiInv, Doing, Page, Free, Leads, Nav!vars
<1>3. CASE ResumeModule(GUI)
  <2>1. Leads(Page(GUI)) /\ Bare /\ ~dialog
    BY <1>0, <1>3 DEF ResumeModule, GuiInv, Doing
  <2>2. UNCHANGED <<running, guiStack, dialog, undefined>>
    BY <1>3 DEF ResumeModule
  <2>3. Alone(Page(GUI))' /\ UNCHANGED posted
    <3>1. /\ call'[GUI].step = "push" /\ call'[GUI].page = Page(GUI)
      BY <1>0, <1>3, GuiAdvances DEF ResumeModule
    <3>2. shown' = {Page(GUI)} /\ backdrop' = (Page(GUI) # "player") /\ UNCHANGED posted
      BY <1>3, <2>1 DEF ResumeModule, RequestResume, Resumed, Bare
    <3> QED BY <3>1, <3>2 DEF Alone, Page
  <2>4. /\ call'[GUI].step = "push" /\ call'[GUI].page = Page(GUI)
        /\ call'[CLI] = call[CLI]
    BY <1>0, <1>3, GuiAdvances DEF ResumeModule
  <2> QED BY <1>0, <2>1, <2>2, <2>3, <2>4
          DEF LocalInv, GuiInv, Doing, Page, Free, Leads, Nav!vars
<1>4. CASE Push(GUI)
  <2> DEFINE p == Page(GUI)
  <2>1. Leads(p) /\ shown = {p} /\ backdrop = (p # "player") /\ ~dialog
    BY <1>0, <1>4 DEF Push, GuiInv, Doing, Alone
  <2>2. p \in Pages
    BY <2>1, LeadsToPages
  <2>3. /\ UNCHANGED <<running, shown, backdrop, dialog, posted, undefined>>
        /\ guiStack' = Append(guiStack, p)
    BY <1>4 DEF Push, widgets
  <2>4. call'[GUI] = NoCall /\ call'[CLI] = call[CLI]
    BY <1>4, GuiBecomes DEF Push
  <2> HIDE DEF p
  <2>5. guiStack' # <<>> /\ Last(guiStack') = p
    BY <1>0, <2>2, <2>3, StackEnds
  <2>6. Head(guiStack') = "login"
    <3>1. CASE guiStack = <<>>
      <4>1. guiStack' = <<"login">>
        BY <2>1, <2>3, <3>1 DEF Leads
      <4> QED BY <4>1
    <3>2. CASE guiStack # <<>>
      BY <1>0, <2>2, <2>3, <3>2, StackEnds DEF GuiInv
    <3> QED BY <3>1, <3>2
  <2>7. LocalInv'
    BY <1>0, <2>1, <2>3, <2>4, <2>5, <2>6 DEF LocalInv, GuiInv, Doing, Free, Alone
  <2>8. Nav!Next
    <3>1. CASE guiStack = <<>>
      BY <2>1, <2>3, <3>1 DEF Leads, Nav!Next, Nav!Start
    <3>2. CASE guiStack # <<>>
      <4> DEFINE link == <<Last(guiStack), p>>
      <4>1. link \in Links /\ link[1] = Last(guiStack) /\ link[2] = p
        BY <2>1, <3>2 DEF Leads
      <4> HIDE DEF link
      <4>2. Nav!Go
        BY <2>3, <3>2, <4>1 DEF Nav!Go, Nav!Last, Last
      <4> QED BY <4>2 DEF Nav!Next
    <3> QED BY <3>1, <3>2
  <2> QED BY <2>7, <2>8
<1>5. CASE Pop(GUI)
  <2>1. guiStack # <<>> /\ Alone(Last(guiStack)) /\ Last(guiStack) \in HasBack /\ ~dialog
    BY <1>0, <1>5 DEF Pop, GuiInv, Doing
  <2>2. /\ guiStack' = Front(guiStack)
        /\ Becomes(GUI, Call("leave", NoPage, Last(guiStack)))
        /\ UNCHANGED <<running, shown, backdrop, dialog, posted, undefined>>
    BY <1>5, <2>1 DEF Pop, widgets
  <2>3. /\ call'[GUI].step = "leave" /\ call'[GUI].other = Last(guiStack)
        /\ call'[CLI] = call[CLI]
    BY <2>2, GuiBecomes DEF Call
  <2>4. Len(guiStack) > 1
    <3>1. Head(guiStack) # Last(guiStack)
      BY <1>0, <2>1, OpensPages DEF GuiInv
    <3>2. Len(guiStack) \in Nat /\ Len(guiStack) # 0
      BY <1>0, <2>1, EmptySeq, LenProperties
    <3>3. Len(guiStack) # 1
      BY <1>0, <2>1, <3>1 DEF Last
    <3>4. \A n \in Nat : n # 0 /\ n # 1 => n > 1
      OBVIOUS
    <3> QED BY <3>2, <3>3, <3>4
  <2>5. guiStack' # <<>> /\ Head(guiStack') = "login"
    BY <1>0, <2>1, <2>2, <2>4, StackEnds DEF GuiInv
  <2>6. LocalInv'
    BY <1>0, <2>1, <2>2, <2>3, <2>5 DEF LocalInv, GuiInv, Doing, Other, Free, Alone
  <2>7. Nav!Return
    BY <2>1, <2>2, <2>4 DEF Nav!Return, Nav!Last, Last, Nav!Front, Front
  <2> QED BY <2>6, <2>7 DEF Nav!Next
<1>6. CASE Leave(GUI)
  <2>1. guiStack # <<>> /\ Alone(Other(GUI)) /\ ~dialog
    BY <1>0, <1>6 DEF Leave, GuiInv, Doing
  <2>2. UNCHANGED <<running, guiStack, dialog, undefined>>
    BY <1>6 DEF Leave
  <2>3. Bare' /\ UNCHANGED posted
    BY <1>6, <2>1, DirectRequests DEF Leave
  <2>4. call'[GUI].step = "isEmpty" /\ call'[CLI] = call[CLI]
    BY <1>0, <1>6, GuiAdvances DEF Leave
  <2> QED BY <1>0, <2>1, <2>2, <2>3, <2>4 DEF LocalInv, GuiInv, Doing, Free, Nav!vars
<1>7. CASE IsEmpty(GUI)
  <2>1. guiStack # <<>> /\ Bare /\ ~dialog
    BY <1>0, <1>7 DEF IsEmpty, GuiInv, Doing
  <2>2. /\ UNCHANGED <<running, guiStack, shown, backdrop, dialog, posted, undefined>>
        /\ Advance(GUI, "top")
    BY <1>7, <2>1 DEF IsEmpty, widgets
  <2>3. call'[GUI].step = "top" /\ call'[CLI] = call[CLI]
    BY <1>0, <2>2, GuiAdvances
  <2> QED BY <1>0, <2>1, <2>2, <2>3 DEF LocalInv, GuiInv, Doing, Free, Bare, Nav!vars
<1>8. CASE ResumeTop(GUI)
  <2> DEFINE p == Last(guiStack)
  <2>1. guiStack # <<>> /\ Bare /\ ~dialog
    BY <1>0, <1>8 DEF ResumeTop, GuiInv, Doing
  <2>2. /\ RequestResume(GUI, p) /\ Becomes(GUI, NoCall)
        /\ UNCHANGED <<running, guiStack, dialog, undefined>>
    BY <1>8, <2>1 DEF ResumeTop
  <2>3. shown' = {p} /\ backdrop' = (p # "player") /\ UNCHANGED posted
    BY <2>1, <2>2 DEF RequestResume, Resumed, Bare
  <2>4. call'[GUI] = NoCall /\ call'[CLI] = call[CLI]
    BY <2>2, GuiBecomes
  <2>5. Alone(Last(guiStack))'
    BY <2>2, <2>3 DEF Alone
  <2> QED BY <1>0, <2>1, <2>2, <2>3, <2>4, <2>5 DEF LocalInv, GuiInv, Doing, Free, Nav!vars
<1> QED BY <1>1, <1>2, <1>3, <1>4, <1>5, <1>6, <1>7, <1>8 DEF Step

\* Only the page that is shown is asked to open another one or to go back.
LEMMA ShownIsTop ==
  ASSUME LocalInv, EventLoop, NEW p, Reachable(p)
  PROVE  guiStack # <<>> /\ p = Last(guiStack) /\ Alone(p) /\ GuiInv
BY NoCallIs DEF LocalInv, GuiInv, EventLoop, Free, Doing, Reachable, Alone

LEMMA LocalEnter ==
  ASSUME TypeInv, LocalInv, GuiStarts
  PROVE  LocalInv' /\ UNCHANGED Nav!vars
<1> USE GuiIsNotCli
<1>0. /\ TypeOK /\ ~undefined /\ posted = <<>> /\ Free(CLI) /\ NoCall.step = "none"
  BY NoCallIs DEF TypeInv, LocalInv
<1>1. ASSUME NEW p \in Pages, Back(p) PROVE LocalInv' /\ UNCHANGED Nav!vars
  <2>1. guiStack # <<>> /\ p = Last(guiStack) /\ Alone(p) /\ GuiInv /\ p \in HasBack
        /\ running /\ ~dialog
    BY <1>1, ShownIsTop DEF Back, Reachable, EventLoop
  <2>2. /\ call'[GUI].step = "pop" /\ call'[CLI] = call[CLI]
    BY <1>1, GuiBecomes DEF Back, EnterDeactivate, Call
  <2>3. UNCHANGED <<running, guiStack, shown, backdrop, dialog, posted, undefined>>
    BY <1>1 DEF Back, widgets
  <2> QED BY <1>0, <2>1, <2>2, <2>3 DEF LocalInv, GuiInv, Doing, Free, Alone, Nav!vars
<1>2. ASSUME NEW p \in Pages, NEW q \in Pages, OpenPage(p, q)
      PROVE  LocalInv' /\ UNCHANGED Nav!vars
  <2>1. guiStack # <<>> /\ p = Last(guiStack) /\ Alone(p) /\ GuiInv /\ q \in Opens(p)
        /\ running /\ ~dialog
    BY <1>2, ShownIsTop DEF OpenPage, Reachable, EventLoop
  <2>2. /\ call'[GUI].step = "current" /\ call'[GUI].page = q /\ call'[CLI] = call[CLI]
    BY <1>2, GuiBecomes DEF OpenPage, EnterActivate, Call
  <2>3. UNCHANGED <<running, guiStack, shown, backdrop, dialog, posted, undefined>>
    BY <1>2 DEF OpenPage, widgets
  <2>4. <<p, q>> \in Links
    BY <2>1 DEF Links
  <2>5. Leads(q) /\ TopIsShown
    BY <2>1, <2>4 DEF Leads, TopIsShown, Alone
  <2>6. GuiInv'
    BY <1>0, <2>1, <2>2, <2>3, <2>5 DEF GuiInv, Doing, Page, Leads, TopIsShown
  <2> QED BY <1>0, <2>1, <2>2, <2>3, <2>6 DEF LocalInv, Free, Nav!vars
<1>3. CASE AskLogout
  <2>1. guiStack # <<>> /\ "menu" = Last(guiStack) /\ Alone("menu") /\ GuiInv
        /\ running /\ ~dialog /\ Doing(GUI, "none")
    BY <1>0, <1>3, ShownIsTop DEF AskLogout, Reachable, EventLoop, Free, Doing
  <2>2. UNCHANGED <<running, guiStack, shown, backdrop, posted, undefined, call>>
    BY <1>3 DEF AskLogout, widgets
  <2> QED BY <1>0, <2>1, <2>2 DEF LocalInv, GuiInv, Doing, Free, Alone, Nav!vars
<1>4. CASE Logout
  <2>1. guiStack # <<>> /\ Last(guiStack) = "menu" /\ Alone("menu") /\ GuiInv /\ running
    BY <1>0, <1>4 DEF Logout, EventLoop, LocalInv, GuiInv, Free, Doing
  <2>2. /\ call'[GUI].step = "current" /\ call'[GUI].page = "login"
        /\ call'[CLI] = call[CLI]
    BY <1>4, GuiBecomes DEF Logout, EnterActivate, Call
  <2>3. UNCHANGED <<running, guiStack, shown, backdrop, posted, undefined>> /\ ~dialog'
    BY <1>4 DEF Logout, widgets
  <2>4. <<"menu", "login">> \in Links
    BY PagesAre DEF Links
  <2>5. Leads("login") /\ TopIsShown
    BY <2>1, <2>4 DEF Leads, TopIsShown, Alone
  <2>6. GuiInv'
    BY <1>0, <2>1, <2>2, <2>3, <2>5 DEF GuiInv, Doing, Page, Leads, TopIsShown
  <2> QED BY <1>0, <2>1, <2>2, <2>3, <2>6 DEF LocalInv, Free, Nav!vars
<1>5. CASE CancelLogout
  BY <1>0, <1>5 DEF CancelLogout, EventLoop, widgets, LocalInv, GuiInv, Free, Doing,
     Alone, Nav!vars
<1> QED BY <1>1, <1>2, <1>3, <1>4, <1>5 DEF GuiStarts

LEMMA LocalNext ==
  ASSUME TypeInv, LocalInv, Next, Free(CLI)'
  PROVE  LocalInv' /\ (Nav!Next \/ UNCHANGED Nav!vars)
<1> USE GuiIsNotCli
<1>0. NoCall.step = "none"
  BY NoCallIs
<1>1. CASE AppendModule
  BY <1>1 DEF AppendModule, widgets, LocalInv, GuiInv, Free, Doing, Alone, Leads, Bare,
     Page, Other, TopIsShown, Nav!vars
<1>2. CASE KaraokeResume
  <2>1. /\ running' /\ backdrop' = TRUE /\ guiStack' = <<>> /\ shown' = {} /\ ~dialog'
        /\ UNCHANGED <<guiStack, posted, undefined>>
    BY <1>2 DEF KaraokeResume, LocalInv
  <2>2. /\ call'[GUI].step = "current" /\ call'[GUI].page = "login"
        /\ call'[CLI] = call[CLI]
    BY <1>2, GuiBecomes DEF KaraokeResume, Call
  <2>3. GuiInv'
    BY <2>1, <2>2 DEF GuiInv, Doing, Page, Leads, TopIsShown
  <2> QED BY <2>1, <2>2, <2>3 DEF LocalInv, Free, Nav!vars
<1>3. CASE GuiStarts
  BY <1>3, LocalEnter
<1>4. ~RunPosted
  BY DEF RunPosted, LocalInv
<1>5. ~CliStarts
  <2>1. ASSUME CliPause PROVE FALSE
    <3> DEFINE c == Call("pop", NoPage, NoPage)
    <3>1. call'[CLI] = c
      BY <2>1 DEF CliPause, EnterDeactivate, Becomes, TypeInv, TypeOK
    <3>2. c.step = "pop"
      BY DEF Call
    <3> QED BY <1>0, <3>1, <3>2 DEF Free
  <2>2. ASSUME NEW p \in Pages, CliResume(p) PROVE FALSE
    <3> DEFINE c == Call("current", p, NoPage)
    <3>1. call'[CLI] = c
      BY <2>2 DEF CliResume, EnterActivate, Becomes, TypeInv, TypeOK
    <3>2. c.step = "current"
      BY DEF Call
    <3> QED BY <1>0, <3>1, <3>2 DEF Free
  <2> QED BY <2>1, <2>2 DEF CliStarts
<1>6. ~Step(CLI)
  <2>1. call[CLI].step = "none"
    BY <1>0 DEF LocalInv, Free
  <2> QED BY <2>1 DEF Step, Current, PauseCurrent, ResumeModule, Push, Pop, Leave,
                      IsEmpty, ResumeTop, Doing
<1>7. CASE Step(GUI)
  <2>1. running
    <3>1. call[GUI].step # "none"
      BY <1>7 DEF Step, Current, PauseCurrent, ResumeModule, Push, Pop, Leave,
                  IsEmpty, ResumeTop, Doing
    <3> QED BY <1>0, <3>1 DEF LocalInv, Free
  <2> QED BY <1>7, <2>1, LocalStep
<1>8. Threads = {GUI, CLI}
  BY DEF Threads
<1> QED BY <1>1, <1>2, <1>3, <1>4, <1>5, <1>6, <1>7, <1>8 DEF Next

\* One step of the specification with its history.
LEMMA LocallyNext ==
  ASSUME TypeInv, LocallyInv, [Next /\ Remote]_mcVars
  PROVE  /\ LocallyInv'
         /\ remote' = "none" => Nav!Next \/ UNCHANGED Nav!vars
<1>1. CASE Next /\ Remote
  <2> SUFFICES ASSUME remote' = "none"
               PROVE  LocalInv' /\ (Nav!Next \/ UNCHANGED Nav!vars)
    BY DEF LocallyInv
  <2>1. remote = "none" /\ Free(CLI)'
    BY <1>1 DEF Remote
  <2> QED BY <1>1, <2>1, LocalNext DEF LocallyInv
<1>2. CASE UNCHANGED mcVars
  BY <1>2 DEF mcVars, vars, widgets, LocallyInv, LocalInv, GuiInv, Free, Doing, Alone, Leads,
     Bare, Page, Other, TopIsShown, Nav!vars
<1> QED BY <1>1, <1>2

LEMMA LocallyKept == MCSpec => [](TypeInv /\ LocallyInv)
<1>1. MCInit => TypeInv /\ LocallyInv
  <2> SUFFICES ASSUME MCInit PROVE TypeInv /\ LocallyInv
    OBVIOUS
  <2>1. Free(CLI) /\ Free(GUI)
    BY GuiIsNotCli DEF MCInit, Init, Free
  <2> QED BY <2>1, InitTypes DEF MCInit, Init, LocallyInv, LocalInv
<1>2. TypeInv /\ LocallyInv /\ [Next /\ Remote]_mcVars => (TypeInv /\ LocallyInv)'
  <2>1. [Next /\ Remote]_mcVars => [Next]_vars
    BY DEF mcVars
  <2> QED BY <2>1, NextTypes, LocallyNext
<1> QED BY <1>1, <1>2, PTL DEF MCSpec

(* As long as the CLI gave no command, the page stack is a Navigation: the  *)
(* way from the login page, a link at a time, and Back never pops the last  *)
(* page or calls top() of an empty stack (GuiManager.cpp:232-277, 331-345). *)
THEOREM PagesNavigate == MCSpec => LocalNavigation
<1>1. MCInit => Nav!Init
  BY DEF MCInit, Init, Nav!Init
<1>2. TypeInv /\ LocallyInv /\ [Next /\ Remote]_mcVars =>
        [remote' = "none" => Nav!Next \/ UNCHANGED Nav!vars]_mcVars
  BY LocallyNext
<1> QED BY <1>1, <1>2, LocallyKept, PTL DEF MCSpec, LocalNavigation

(* As long as the CLI gave no command, the page on top of the stack is the  *)
(* one the user sees whenever the event loop waits (GuiManager.cpp:232-277). *)
THEOREM TopPageIsShown == MCSpec => [](remote = "none" => PageFollowsStack)
<1>1. LocallyInv => (remote = "none" => PageFollowsStack)
  <2> SUFFICES ASSUME LocallyInv, remote = "none", AtRest PROVE TopIsShown
    BY DEF PageFollowsStack
  <2>1. guiStack # <<>> /\ Alone(Last(guiStack))
    BY NoCallIs, GuiIsNotCli DEF LocallyInv, LocalInv, AtRest, GuiInv, Free, Doing
  <2> QED BY <2>1 DEF TopIsShown, Alone
<1> QED BY <1>1, LocallyKept, PTL

-----------------------------------------------------------------------------
(* Commands that do not overlap with what the pages ask.                   *)

\* No slot in q is about page p; and the last one that is about p is k.
Untouched(q, p) == \A j \in 1..Len(q) : q[j].page # p

EndsWith(q, k, p) ==
  \E i \in 1..Len(q) :
    /\ q[i].slot = k /\ q[i].page = p
    /\ \A j \in 1..Len(q) : j > i => q[j].page # p

\* The screen once the event loop has run all of q.
ShownAfter(q, pages) ==
  {p \in Pages : (p \in pages /\ Untouched(q, p)) \/ EndsWith(q, "resume", p)}

BackdropAfter(q, b) ==
  (b /\ Untouched(q, "player")) \/ EndsWith(q, "pause", "player")

Screen(q, sh, bd, pages, b) ==
  ShownAfter(q, sh) = pages /\ (BackdropAfter(q, bd) <=> b)

LEMMA AppendSlot ==
  ASSUME NEW q \in Seq(Slots), NEW e \in Slots, NEW k, NEW p
  PROVE  /\ Untouched(Append(q, e), p) <=> Untouched(q, p) /\ e.page # p
         /\ EndsWith(Append(q, e), k, p) <=>
              IF e.page = p THEN e.slot = k ELSE EndsWith(q, k, p)
<1> DEFINE r == Append(q, e)
           n == Len(q)
<1>1. /\ n \in Nat /\ Len(r) = n + 1 /\ r[n + 1] = e
      /\ \A i \in 1..n : r[i] = q[i]
  BY LenProperties, AppendProperties
<1> HIDE DEF n, r
<1>2. /\ \A i \in 1..Len(r) : i \in 1..n \/ i = n + 1
      /\ \A i \in 1..n : i \in 1..Len(r) /\ n + 1 > i /\ ~(i > n + 1)
      /\ n + 1 \in 1..Len(r) /\ ~(n + 1 > n + 1)
  BY <1>1
<1>3. Untouched(r, p) <=> Untouched(q, p) /\ e.page # p
  BY <1>1, <1>2 DEF Untouched, n
<1>4. CASE e.page = p
  <2>1. ASSUME EndsWith(r, k, p) PROVE e.slot = k
    BY <1>1, <1>2, <1>4, <2>1 DEF EndsWith
  <2>2. ASSUME e.slot = k PROVE EndsWith(r, k, p)
    BY <1>1, <1>2, <1>4, <2>2 DEF EndsWith
  <2> QED BY <1>3, <1>4, <2>1, <2>2 DEF r
<1>5. CASE e.page # p
  <2>1. ASSUME EndsWith(r, k, p) PROVE EndsWith(q, k, p)
    BY <1>1, <1>2, <1>5, <2>1 DEF EndsWith, n
  <2>2. ASSUME EndsWith(q, k, p) PROVE EndsWith(r, k, p)
    BY <1>1, <1>2, <1>5, <2>2 DEF EndsWith, n
  <2> QED BY <1>3, <1>5, <2>1, <2>2 DEF r
<1> QED BY <1>4, <1>5

LEMMA FirstSlot ==
  ASSUME NEW q \in Seq(Slots), q # <<>>, NEW k, NEW p
  PROVE  /\ Untouched(q, p) <=> Head(q).page # p /\ Untouched(Tail(q), p)
         /\ EndsWith(q, k, p) <=>
              \/ EndsWith(Tail(q), k, p)
              \/ Head(q).slot = k /\ Head(q).page = p /\ Untouched(Tail(q), p)
<1> DEFINE r == Tail(q)
           n == Len(r)
<1>1. /\ n \in Nat /\ Len(q) = n + 1 /\ q[1] = Head(q)
      /\ \A i \in 1..n : r[i] = q[i + 1]
  <2>1. Len(q) \in Nat /\ Len(q) # 0 /\ r \in Seq(Slots) /\ n = Len(q) - 1
    BY EmptySeq, HeadTailProperties
  <2> QED BY <2>1, HeadTailProperties
<1> HIDE DEF n, r
<1>2. /\ \A i \in 1..Len(q) : i = 1 \/ (i > 1 /\ i - 1 \in 1..n /\ (i - 1) + 1 = i)
      /\ \A i \in 1..n : i + 1 \in 1..Len(q) /\ i + 1 > 1
      /\ 1 \in 1..Len(q)
  BY <1>1
<1>3. \A i \in 1..Len(q) : i > 1 => q[i] = r[i - 1]
  BY <1>1, <1>2
<1>4. Untouched(q, p) <=> Head(q).page # p /\ Untouched(r, p)
  BY <1>1, <1>2, <1>3 DEF Untouched, n
<1>5. ASSUME EndsWith(q, k, p), ~(Head(q).slot = k /\ Head(q).page = p /\ Untouched(r, p))
      PROVE  EndsWith(r, k, p)
  <2>1. PICK i \in 1..Len(q) : /\ q[i].slot = k /\ q[i].page = p
                               /\ \A j \in 1..Len(q) : j > i => q[j].page # p
    BY <1>5 DEF EndsWith
  <2>2. i # 1
    BY <1>1, <1>2, <1>5, <2>1 DEF Untouched, n
  <2>3. i - 1 \in 1..n /\ r[i - 1] = q[i]
    BY <1>2, <1>3, <2>2
  <2>4. \A j \in 1..n : j > i - 1 => r[j].page # p
    BY <1>1, <1>2, <2>1
  <2> QED BY <2>1, <2>3, <2>4 DEF EndsWith, n
<1>6. ASSUME EndsWith(r, k, p) PROVE EndsWith(q, k, p)
  <2>1. PICK i \in 1..n : /\ r[i].slot = k /\ r[i].page = p
                          /\ \A j \in 1..n : j > i => r[j].page # p
    BY <1>6 DEF EndsWith, n
  <2>2. \A j \in 1..Len(q) : j > i + 1 => j - 1 \in 1..n /\ j - 1 > i /\ q[j] = r[j - 1]
    BY <1>1, <1>2, <1>3
  <2>3. i + 1 \in 1..Len(q) /\ q[i + 1] = r[i]
    BY <1>1, <1>2
  <2>4. \A j \in 1..Len(q) : j > i + 1 => q[j].page # p
    BY <2>1, <2>2
  <2> QED BY <2>1, <2>3, <2>4 DEF EndsWith
<1>7. ASSUME Head(q).slot = k, Head(q).page = p, Untouched(r, p) PROVE EndsWith(q, k, p)
  BY <1>1, <1>2, <1>3, <1>7 DEF EndsWith, Untouched, n
<1> QED BY <1>4, <1>5, <1>6, <1>7 DEF r

\* With nothing waiting, the screen is what is shown.
LEMMA ScreenNow ==
  ASSUME NEW sh \in SUBSET Pages, NEW bd \in BOOLEAN, NEW pages, NEW b \in BOOLEAN
  PROVE  Screen(<<>>, sh, bd, pages, b) <=> sh = pages /\ bd = b
<1>1. \A p, k : Untouched(<<>>, p) /\ ~EndsWith(<<>>, k, p)
  BY EmptySeq DEF Untouched, EndsWith
<1>2. ShownAfter(<<>>, sh) = sh
  BY <1>1 DEF ShownAfter
<1>3. BackdropAfter(<<>>, bd) <=> bd
  BY <1>1 DEF BackdropAfter
<1> QED BY <1>2, <1>3 DEF Screen

\* A slot that waits changes the screen like one that runs at once.
LEMMA ScreenLater ==
  ASSUME NEW q \in Seq(Slots), NEW sh \in SUBSET Pages, NEW bd \in BOOLEAN,
         NEW pages, NEW b \in BOOLEAN, Screen(q, sh, bd, pages, b), NEW p \in Pages
  PROVE  /\ Screen(Append(q, [slot |-> "resume", page |-> p]), sh, bd,
                   pages \cup {p}, b /\ p # "player")
         /\ Screen(Append(q, [slot |-> "pause", page |-> p]), sh, bd,
                   pages \ {p}, b \/ p = "player")
<1> DEFINE on == [slot |-> "resume", page |-> p]
           off == [slot |-> "pause", page |-> p]
<1>1. /\ on \in Slots /\ on.slot = "resume" /\ on.page = p
      /\ off \in Slots /\ off.slot = "pause" /\ off.page = p
  BY DEF Slots
<1> HIDE DEF on, off
<1>2. /\ ShownAfter(Append(q, on), sh) = ShownAfter(q, sh) \cup {p}
      /\ ShownAfter(Append(q, off), sh) = ShownAfter(q, sh) \ {p}
  BY <1>1, AppendSlot DEF ShownAfter
<1>3. /\ BackdropAfter(Append(q, on), bd) <=> BackdropAfter(q, bd) /\ p # "player"
      /\ BackdropAfter(Append(q, off), bd) <=> BackdropAfter(q, bd) \/ p = "player"
  BY <1>1, AppendSlot DEF BackdropAfter
<1> QED BY <1>2, <1>3 DEF Screen, on, off

\* However a page is asked, and by whom, the screen will follow.
LEMMA Requests ==
  ASSUME TypeOK, NEW t \in Threads, t = GUI => posted = <<>>, NEW p \in Pages,
         NEW pages, NEW b \in BOOLEAN, Screen(posted, shown, backdrop, pages, b)
  PROVE  /\ RequestResume(t, p) =>
              Screen(posted', shown', backdrop', pages \cup {p}, b /\ p # "player")
         /\ RequestPause(t, p) =>
              Screen(posted', shown', backdrop', pages \ {p}, b \/ p = "player")
         /\ t = GUI /\ (RequestResume(t, p) \/ RequestPause(t, p)) => posted' = <<>>
<1>1. CASE t = GUI
  <2>1. shown = pages /\ backdrop = b
    BY <1>1, ScreenNow DEF TypeOK
  <2>2. ASSUME RequestResume(t, p)
        PROVE  /\ posted' = <<>>
               /\ Screen(posted', shown', backdrop', pages \cup {p}, b /\ p # "player")
    <3>1. /\ posted' = <<>> /\ shown' = pages \cup {p}
          /\ backdrop' = (b /\ p # "player")
      BY <1>1, <2>1, <2>2, GuiIsNotCli DEF RequestResume, Resumed
    <3>2. shown' \in SUBSET Pages /\ (b /\ p # "player") \in BOOLEAN
      BY <2>1, <3>1 DEF TypeOK
    <3> QED BY <3>1, <3>2, ScreenNow
  <2>3. ASSUME RequestPause(t, p)
        PROVE  /\ posted' = <<>>
               /\ Screen(posted', shown', backdrop', pages \ {p}, b \/ p = "player")
    <3>1. /\ posted' = <<>> /\ shown' = pages \ {p}
          /\ backdrop' = (b \/ p = "player")
      BY <1>1, <2>1, <2>3, GuiIsNotCli DEF RequestPause, Paused
    <3>2. shown' \in SUBSET Pages /\ (b \/ p = "player") \in BOOLEAN
      BY <2>1, <3>1 DEF TypeOK
    <3> QED BY <3>1, <3>2, ScreenNow
  <2> QED BY <2>2, <2>3
<1>2. CASE t # GUI
  <2>1. posted \in Seq(Slots) /\ shown \in SUBSET Pages /\ backdrop \in BOOLEAN
    BY DEF TypeOK
  <2>2. ASSUME RequestResume(t, p)
        PROVE  Screen(posted', shown', backdrop', pages \cup {p}, b /\ p # "player")
    <3>1. /\ posted' = Append(posted, [slot |-> "resume", page |-> p])
          /\ shown' = shown /\ backdrop' = backdrop
      BY <1>2, <2>2 DEF RequestResume, widgets
    <3> QED BY <2>1, <3>1, ScreenLater
  <2>3. ASSUME RequestPause(t, p)
        PROVE  Screen(posted', shown', backdrop', pages \ {p}, b \/ p = "player")
    <3>1. /\ posted' = Append(posted, [slot |-> "pause", page |-> p])
          /\ shown' = shown /\ backdrop' = backdrop
      BY <1>2, <2>3 DEF RequestPause, widgets
    <3> QED BY <2>1, <3>1, ScreenLater
  <2> QED BY <1>2, <2>2, <2>3
<1> QED BY <1>1, <1>2

\* The event loop catches up.
LEMMA ScreenRuns ==
  ASSUME TypeOK, RunPosted, NEW pages, NEW b \in BOOLEAN,
         Screen(posted, shown, backdrop, pages, b)
  PROVE  Screen(posted', shown', backdrop', pages, b)
<1> DEFINE e == Head(posted)
<1>1. posted # <<>> /\ posted \in Seq(Slots) /\ posted' = Tail(posted) /\ e \in Slots
  BY HeadTailProperties DEF RunPosted, TypeOK
<1>2. e.slot \in {"resume", "pause"} /\ e.page \in Pages
  BY <1>1 DEF Slots
<1>3. \/ /\ e.slot = "resume" /\ shown' = shown \cup {e.page}
         /\ backdrop' = (backdrop /\ e.page # "player")
      \/ /\ e.slot = "pause" /\ shown' = shown \ {e.page}
         /\ backdrop' = (backdrop \/ e.page = "player")
  BY DEF RunPosted, Resumed, Paused
<1>4. \A k, p : /\ Untouched(posted, p) <=> e.page # p /\ Untouched(posted', p)
                /\ EndsWith(posted, k, p) <=>
                     \/ EndsWith(posted', k, p)
                     \/ e.slot = k /\ e.page = p /\ Untouched(posted', p)
  BY <1>1, FirstSlot
<1> HIDE DEF e
<1>5. ShownAfter(posted', shown') = ShownAfter(posted, shown)
  BY <1>2, <1>3, <1>4 DEF ShownAfter
<1>6. BackdropAfter(posted', backdrop') <=> BackdropAfter(posted, backdrop)
  <2>1. /\ Untouched(posted, "player") <=>
              e.page # "player" /\ Untouched(posted', "player")
        /\ EndsWith(posted, "pause", "player") <=>
              \/ EndsWith(posted', "pause", "player")
              \/ e.slot = "pause" /\ e.page = "player" /\ Untouched(posted', "player")
    BY <1>4
  <2>2. CASE e.page # "player"
    <3>1. backdrop' = backdrop
      BY <1>3, <2>2 DEF TypeOK
    <3> QED BY <2>1, <2>2, <3>1 DEF BackdropAfter
  <2>3. CASE e.page = "player" /\ e.slot = "resume"
    <3>1. backdrop' = FALSE
      BY <1>3, <2>3
    <3> QED BY <2>1, <2>3, <3>1 DEF BackdropAfter
  <2>4. CASE e.page = "player" /\ e.slot = "pause"
    <3>1. backdrop' = TRUE
      BY <1>3, <2>4
    <3> QED BY <2>1, <2>4, <3>1 DEF BackdropAfter
  <2> QED BY <1>2, <2>2, <2>3, <2>4
<1> QED BY <1>5, <1>6 DEF Screen

\* The screen will show page p alone; the top of stack st; nothing.
WillShow(q, sh, bd, p) == Screen(q, sh, bd, {p}, p # "player")

WillShowTop(q, sh, bd, st) ==
  /\ st = <<>> => Screen(q, sh, bd, {}, TRUE)
  /\ st # <<>> => WillShow(q, sh, bd, Last(st))

\* What a call has done to the screen so far, by what it has left to do.
SoFar(c, st, q, sh, bd) ==
  /\ c.step \in {"current", "pop"} => WillShowTop(q, sh, bd, st)
  /\ c.step = "pause" =>
       st # <<>> /\ c.other = Last(st) /\ WillShow(q, sh, bd, c.other)
  /\ c.step \in {"resume", "isEmpty", "top"} => Screen(q, sh, bd, {}, TRUE)
  /\ c.step = "top" => st # <<>>
  /\ c.step = "push" => WillShow(q, sh, bd, c.page)
  /\ c.step = "leave" => WillShow(q, sh, bd, c.other)

SerialInv ==
  /\ Free(GUI) \/ (Free(CLI) /\ posted = <<>>)
  /\ running => \A t \in Threads : SoFar(call[t], guiStack, posted, shown, backdrop)
  /\ running /\ Free(GUI) /\ Free(CLI) =>
       WillShowTop(posted, shown, backdrop, guiStack)
  /\ ~running =>
       guiStack = <<>> /\ shown = {} /\ posted = <<>> /\ Free(GUI) /\ Free(CLI)

NotOverlapped == remote # "overlapped" => SerialInv

\* Thread t goes on, or begins, while the other is in no call.
LEMMA SerialMove ==
  ASSUME TypeInv, NEW t \in Threads, \A u \in Threads : u # t => Free(u),
         running', NEW c, Becomes(t, c), t = GUI => posted' = <<>>,
         SoFar(c, guiStack', posted', shown', backdrop'),
         c = NoCall => WillShowTop(posted', shown', backdrop', guiStack')
  PROVE  SerialInv'
<1>1. \A u \in Threads : call'[u] = IF u = t THEN c ELSE NoCall
  BY DEF Becomes, TypeInv, TypeOK, Free
<1>2. SoFar(NoCall, guiStack', posted', shown', backdrop')
  BY NoCallIs DEF SoFar
<1>3. \A u \in Threads : SoFar(call'[u], guiStack', posted', shown', backdrop')
  BY <1>1, <1>2
<1>4. Free(GUI)' \/ (Free(CLI)' /\ posted' = <<>>)
  BY <1>1, GuiIsNotCli DEF Free, Threads
<1>5. Free(GUI)' /\ Free(CLI)' => c = NoCall
  BY <1>1, GuiIsNotCli DEF Free, Threads
<1> QED BY <1>3, <1>4, <1>5 DEF SerialInv, Threads

LEMMA EndsWithAppended ==
  ASSUME NEW S, NEW s \in Seq(S), NEW e \in S
  PROVE  Append(s, e) # <<>> /\ Last(Append(s, e)) = e
<1>1. \A x \in S : Append(s, x) # <<>> /\ Last(Append(s, x)) = x
  BY StackEnds
<1> QED BY <1>1

LEMMA SerialAdvance ==
  ASSUME TypeInv, NEW t \in Threads, NEW step \in Steps \ {"none"}, Advance(t, step)
  PROVE  \E c : /\ Becomes(t, c) /\ c # NoCall
                /\ c.step = step /\ c.page = Page(t) /\ c.other = Other(t)
<1> DEFINE c == [call[t] EXCEPT !.step = step]
<1>1. /\ Becomes(t, c) /\ c.step = step
      /\ c.page = Page(t) /\ c.other = Other(t)
  BY AdvanceIsBecomes
<1> HIDE DEF c
<1>2. c # NoCall
  BY <1>1, NoCallIs
<1> QED BY <1>1, <1>2

LEMMA SerialStep ==
  ASSUME TypeInv, SerialInv, running, NEW t \in Threads, Step(t)
  PROVE  SerialInv'
<1>0. /\ TypeOK /\ CallsHavePages /\ NoCall.step = "none"
      /\ Steps \ {"none"} =
           {"current", "pause", "resume", "push", "pop", "leave", "isEmpty", "top"}
      /\ guiStack \in Seq(Pages) /\ (guiStack # <<>> => Last(guiStack) \in Pages)
  BY NoCallIs, StackEnds DEF TypeInv, TypeOK, Steps
<1>1. ~Free(t)
  BY <1>0 DEF Step, Current, PauseCurrent, ResumeModule, Push, Pop, Leave, IsEmpty,
              ResumeTop, Doing, Free
<1>2. /\ \A u \in Threads : u # t => Free(u)
      /\ t = GUI => posted = <<>>
      /\ SoFar(call[t], guiStack, posted, shown, backdrop)
  BY <1>1, GuiIsNotCli DEF SerialInv, Threads
<1>3. ASSUME NEW c, Becomes(t, c), UNCHANGED <<running, posted>>,
             SoFar(c, guiStack', posted', shown', backdrop'),
             c = NoCall => WillShowTop(posted', shown', backdrop', guiStack')
      PROVE  SerialInv'
  BY <1>2, <1>3, SerialMove
<1>4. CASE Current(t)
  <2>1. /\ WillShowTop(posted, shown, backdrop, guiStack)
        /\ UNCHANGED <<running, guiStack, shown, backdrop, posted>>
    BY <1>2, <1>4 DEF Current, SoFar, Doing, widgets
  <2>2. CASE guiStack = <<>> /\ Advance(t, "resume")
    <3>1. PICK c : Becomes(t, c) /\ c # NoCall /\ c.step = "resume"
      BY <1>0, <2>2, SerialAdvance
    <3>2. SoFar(c, guiStack', posted', shown', backdrop')
      BY <2>1, <2>2, <3>1 DEF SoFar, WillShowTop
    <3> QED BY <1>3, <2>1, <3>1, <3>2
  <2>3. CASE Becomes(t, NoCall)
    <3>1. SoFar(NoCall, guiStack', posted', shown', backdrop')
      BY <1>0 DEF SoFar
    <3> QED BY <1>3, <2>1, <2>3, <3>1
  <2>4. CASE guiStack # <<>> /\ Becomes(t, Call("pause", Page(t), Last(guiStack)))
    <3> DEFINE c == Call("pause", Page(t), Last(guiStack))
    <3>1. c.step = "pause" /\ c.other = Last(guiStack) /\ Becomes(t, c)
      BY <2>4 DEF Call
    <3> HIDE DEF c
    <3>2. SoFar(c, guiStack', posted', shown', backdrop') /\ c # NoCall
      BY <1>0, <2>1, <2>4, <3>1 DEF SoFar, WillShowTop
    <3> QED BY <1>3, <2>1, <3>1, <3>2
  <2> QED BY <1>4, <2>2, <2>3, <2>4 DEF Current
<1>5. ASSUME RequestPause(t, Other(t)), Other(t) \in Pages,
             WillShow(posted, shown, backdrop, Other(t))
      PROVE  Screen(posted', shown', backdrop', {}, TRUE) /\ (t = GUI => posted' = <<>>)
  <2> DEFINE p == Other(t)
  <2>1. /\ RequestPause(t, p) /\ p \in Pages
        /\ Screen(posted, shown, backdrop, {p}, p # "player")
    BY <1>5 DEF WillShow
  <2> HIDE DEF p
  <2>2. (p # "player") \in BOOLEAN
    OBVIOUS
  <2>3. Screen(posted', shown', backdrop', {p} \ {p}, (p # "player") \/ p = "player")
    BY <1>0, <1>2, <2>1, <2>2, Requests
  <2>4. t = GUI => posted' = <<>>
    BY <1>0, <1>2, <2>1, <2>2, Requests
  <2>5. {p} \ {p} = {} /\ ((p # "player") \/ p = "player")
    OBVIOUS
  <2> QED BY <2>3, <2>4, <2>5 DEF Screen
<1>6. ASSUME NEW p \in Pages, RequestResume(t, p), Screen(posted, shown, backdrop, {}, TRUE)
      PROVE  WillShow(posted', shown', backdrop', p) /\ (t = GUI => posted' = <<>>)
  <2>1. Screen(posted', shown', backdrop', {} \cup {p}, TRUE /\ p # "player")
    BY <1>0, <1>2, <1>6, Requests
  <2>2. t = GUI => posted' = <<>>
    BY <1>0, <1>2, <1>6, Requests
  <2>3. {} \cup {p} = {p} /\ ((TRUE /\ p # "player") <=> p # "player")
    OBVIOUS
  <2> QED BY <2>1, <2>2, <2>3 DEF WillShow, Screen
<1>7. CASE PauseCurrent(t)
  <2>1. /\ Other(t) \in Pages /\ WillShow(posted, shown, backdrop, Other(t))
        /\ RequestPause(t, Other(t)) /\ Advance(t, "resume") /\ UNCHANGED <<running, guiStack>>
    BY <1>0, <1>2, <1>7 DEF PauseCurrent, SoFar, Doing, Other, CallsHavePages
  <2>2. PICK c : Becomes(t, c) /\ c # NoCall /\ c.step = "resume"
    BY <1>0, <2>1, SerialAdvance
  <2>3. SoFar(c, guiStack', posted', shown', backdrop')
    BY <1>5, <2>1, <2>2 DEF SoFar
  <2> QED BY <1>2, <1>5, <2>1, <2>2, <2>3, SerialMove
<1>8. CASE ResumeModule(t)
  <2>1. /\ Page(t) \in Pages /\ Screen(posted, shown, backdrop, {}, TRUE)
        /\ RequestResume(t, Page(t)) /\ Advance(t, "push") /\ UNCHANGED <<running, guiStack>>
    BY <1>0, <1>2, <1>8 DEF ResumeModule, SoFar, Doing, CallsHavePages
  <2>2. PICK c : Becomes(t, c) /\ c # NoCall /\ c.step = "push" /\ c.page = Page(t)
    BY <1>0, <2>1, SerialAdvance
  <2>3. SoFar(c, guiStack', posted', shown', backdrop')
    BY <1>6, <2>1, <2>2 DEF SoFar
  <2> QED BY <1>2, <1>6, <2>1, <2>2, <2>3, SerialMove
<1>9. CASE Push(t)
  <2>1. /\ Page(t) \in Pages /\ WillShow(posted, shown, backdrop, Page(t))
        /\ guiStack' = Append(guiStack, Page(t)) /\ Becomes(t, NoCall)
        /\ UNCHANGED <<running, posted, shown, backdrop>>
    BY <1>0, <1>2, <1>9 DEF Push, SoFar, Doing, Page, CallsHavePages, widgets
  <2>2. guiStack' # <<>> /\ Last(guiStack') = Page(t)
    <3>1. guiStack \in Seq(Pages) /\ Page(t) \in Pages
      BY <1>0, <2>1
    <3>2. Append(guiStack, Page(t)) # <<>> /\ Last(Append(guiStack, Page(t))) = Page(t)
      BY <3>1, EndsWithAppended
    <3> QED BY <2>1, <3>2
  <2>3. WillShowTop(posted', shown', backdrop', guiStack')
    BY <2>1, <2>2 DEF WillShowTop
  <2>4. SoFar(NoCall, guiStack', posted', shown', backdrop')
    BY <1>0 DEF SoFar
  <2> QED BY <1>3, <2>1, <2>3, <2>4
<1>10. CASE Pop(t)
  <2>1. /\ WillShowTop(posted, shown, backdrop, guiStack)
        /\ UNCHANGED <<running, shown, backdrop, posted>>
    BY <1>2, <1>10 DEF Pop, SoFar, Doing, widgets
  <2>2. CASE guiStack = <<>>
    <3>1. UNCHANGED <<guiStack, call>>
      BY <1>10, <2>2 DEF Pop, Undefined
    <3> QED BY <2>1, <3>1 DEF SerialInv, Free, Threads
  <2>3. CASE guiStack # <<>>
    <3> DEFINE c == Call("leave", NoPage, Last(guiStack))
    <3>1. c.step = "leave" /\ c.other = Last(guiStack) /\ Becomes(t, c)
      BY <1>10, <2>3 DEF Pop, Call
    <3> HIDE DEF c
    <3>2. SoFar(c, guiStack', posted', shown', backdrop') /\ c # NoCall
      BY <1>0, <2>1, <2>3, <3>1 DEF SoFar, WillShowTop
    <3> QED BY <1>3, <2>1, <3>1, <3>2
  <2> QED BY <2>2, <2>3
<1>11. CASE Leave(t)
  <2>1. /\ Other(t) \in Pages /\ WillShow(posted, shown, backdrop, Other(t))
        /\ RequestPause(t, Other(t)) /\ Advance(t, "isEmpty") /\ UNCHANGED <<running, guiStack>>
    BY <1>0, <1>2, <1>11 DEF Leave, SoFar, Doing, Other, CallsHavePages
  <2>2. PICK c : Becomes(t, c) /\ c # NoCall /\ c.step = "isEmpty"
    BY <1>0, <2>1, SerialAdvance
  <2>3. SoFar(c, guiStack', posted', shown', backdrop')
    BY <1>5, <2>1, <2>2 DEF SoFar
  <2> QED BY <1>2, <1>5, <2>1, <2>2, <2>3, SerialMove
<1>12. CASE IsEmpty(t)
  <2>1. /\ Screen(posted, shown, backdrop, {}, TRUE)
        /\ UNCHANGED <<running, guiStack, shown, backdrop, posted>>
    BY <1>2, <1>12 DEF IsEmpty, SoFar, Doing, widgets
  <2>2. CASE guiStack = <<>>
    <3>1. WillShowTop(posted', shown', backdrop', guiStack')
      BY <2>1, <2>2 DEF WillShowTop
    <3>2. SoFar(NoCall, guiStack', posted', shown', backdrop')
      BY <1>0 DEF SoFar
    <3> QED BY <1>3, <1>12, <2>1, <2>2, <3>1, <3>2 DEF IsEmpty
  <2>3. CASE guiStack # <<>>
    <3>1. PICK c : Becomes(t, c) /\ c # NoCall /\ c.step = "top"
      BY <1>0, <1>12, <2>3, SerialAdvance DEF IsEmpty
    <3>2. SoFar(c, guiStack', posted', shown', backdrop')
      BY <2>1, <2>3, <3>1 DEF SoFar
    <3> QED BY <1>3, <2>1, <3>1, <3>2
  <2> QED BY <2>2, <2>3
<1>13. CASE ResumeTop(t)
  <2>1. /\ Screen(posted, shown, backdrop, {}, TRUE) /\ guiStack # <<>>
        /\ RequestResume(t, Last(guiStack)) /\ Becomes(t, NoCall)
        /\ UNCHANGED <<running, guiStack>>
    BY <1>2, <1>13 DEF ResumeTop, SoFar, Doing
  <2>2. WillShow(posted', shown', backdrop', Last(guiStack)) /\ (t = GUI => posted' = <<>>)
    BY <1>0, <1>6, <2>1
  <2>3. WillShowTop(posted', shown', backdrop', guiStack')
    BY <2>1, <2>2 DEF WillShowTop
  <2>4. SoFar(NoCall, guiStack', posted', shown', backdrop')
    BY <1>0 DEF SoFar
  <2> QED BY <1>2, <2>1, <2>2, <2>3, <2>4, SerialMove
<1> QED BY <1>4, <1>7, <1>8, <1>9, <1>10, <1>11, <1>12, <1>13 DEF Step

\* A call of GuiManager begins while nobody is in one.
LEMMA SerialEnter ==
  ASSUME TypeInv, SerialInv, running, NEW t \in Threads,
         Free(GUI), Free(CLI), t = GUI => posted = <<>>,
         NEW step \in {"current", "pop"}, NEW p, Becomes(t, Call(step, p, NoPage)),
         UNCHANGED <<running, guiStack, widgets, posted>>
  PROVE  SerialInv'
<1> DEFINE c == Call(step, p, NoPage)
<1>1. c.step = step /\ Becomes(t, c) /\ UNCHANGED <<shown, backdrop>>
  BY DEF Call, widgets
<1> HIDE DEF c
<1>2. WillShowTop(posted', shown', backdrop', guiStack')
  BY <1>1 DEF SerialInv
<1>3. SoFar(c, guiStack', posted', shown', backdrop')
  BY <1>1, <1>2 DEF SoFar
<1> QED BY <1>1, <1>2, <1>3, SerialMove DEF Threads

LEMMA SerialNext ==
  ASSUME TypeInv, SerialInv, Next, ~Overlap
  PROVE  SerialInv'
<1> USE GuiIsNotCli
<1>0. TypeOK /\ NoCall.step = "none"
  BY NoCallIs DEF TypeInv
<1>1. ASSUME UNCHANGED <<running, guiStack, shown, backdrop, posted, call>> PROVE SerialInv'
  BY <1>1 DEF SerialInv, Free, Threads
<1>2. CASE AppendModule
  BY <1>1, <1>2 DEF AppendModule, widgets
<1>3. CASE KaraokeResume
  <2> DEFINE c == Call("current", "login", NoPage)
  <2>1. /\ guiStack = <<>> /\ shown = {} /\ posted = <<>> /\ Free(GUI) /\ Free(CLI)
        /\ running' = TRUE /\ backdrop' = TRUE /\ Becomes(GUI, c)
        /\ UNCHANGED <<guiStack, shown, posted>> /\ c.step = "current"
    BY <1>3 DEF KaraokeResume, SerialInv, Call
  <2> HIDE DEF c
  <2>2. Screen(posted', shown', backdrop', {}, TRUE)
    BY <2>1, ScreenNow
  <2>3. SoFar(c, guiStack', posted', shown', backdrop')
    BY <2>1, <2>2 DEF SoFar, WillShowTop
  <2>4. c # NoCall
    BY <1>0, <2>1
  <2> QED BY <2>1, <2>3, <2>4, SerialMove DEF Threads
<1>4. CASE GuiStarts
  <2>1. running /\ Free(GUI) /\ Free(CLI) /\ posted = <<>>
    BY <1>4 DEF Overlap, GuiStarts, Back, OpenPage, AskLogout, Logout, CancelLogout, EventLoop
  <2>2. ASSUME NEW p \in Pages, Back(p) PROVE SerialInv'
    BY <2>1, <2>2, SerialEnter DEF Back, EnterDeactivate
  <2>3. ASSUME NEW p \in Pages, NEW q \in Pages, OpenPage(p, q) PROVE SerialInv'
    BY <2>1, <2>3, SerialEnter DEF OpenPage, EnterActivate
  <2>4. CASE Logout
    BY <2>1, <2>4, SerialEnter DEF Logout, EnterActivate
  <2>5. CASE AskLogout \/ CancelLogout
    BY <1>1, <2>5 DEF AskLogout, CancelLogout, widgets
  <2> QED BY <1>4, <2>2, <2>3, <2>4, <2>5 DEF GuiStarts
<1>5. CASE RunPosted
  <2>1. running /\ Free(GUI) /\ UNCHANGED <<running, guiStack, call>>
    BY <1>5 DEF RunPosted, EventLoop
  <2>2. ASSUME NEW pages, NEW b \in BOOLEAN, Screen(posted, shown, backdrop, pages, b)
        PROVE  Screen(posted', shown', backdrop', pages, b)
    BY <1>0, <1>5, <2>2, ScreenRuns
  <2>3. ASSUME NEW p, WillShow(posted, shown, backdrop, p)
        PROVE  WillShow(posted', shown', backdrop', p)
    <3>1. (p # "player") \in BOOLEAN
      OBVIOUS
    <3> QED BY <2>2, <2>3, <3>1 DEF WillShow
  <2>4. ASSUME NEW st, WillShowTop(posted, shown, backdrop, st)
        PROVE  WillShowTop(posted', shown', backdrop', st)
    BY <2>2, <2>3, <2>4 DEF WillShowTop
  <2>5. ASSUME NEW c, NEW st, SoFar(c, st, posted, shown, backdrop)
        PROVE  SoFar(c, st, posted', shown', backdrop')
    BY <2>2, <2>3, <2>4, <2>5 DEF SoFar
  <2> QED BY <2>1, <2>4, <2>5 DEF SerialInv, Free, Threads
<1>6. CASE CliStarts
  <2>1. Free(CLI) /\ ~Free(CLI)'
    <3>1. ASSUME NEW c, c.step # "none", Becomes(CLI, c) PROVE ~Free(CLI)'
      BY <1>0, <3>1 DEF Becomes, TypeOK, Free
    <3>2. ASSUME NEW p PROVE Call("current", p, NoPage).step # "none" /\ Call("pop", p, NoPage).step # "none"
      BY DEF Call
    <3> QED BY <1>6, <3>1, <3>2 DEF CliStarts, CliPause, CliResume, EnterActivate, EnterDeactivate
  <2>2. running /\ Free(GUI)
    BY <2>1 DEF Overlap
  <2>3. CASE CliPause
    BY <2>1, <2>2, <2>3, SerialEnter DEF CliPause, EnterDeactivate
  <2>4. ASSUME NEW p \in Pages, CliResume(p) PROVE SerialInv'
    BY <2>1, <2>2, <2>4, SerialEnter DEF CliResume, EnterActivate
  <2> QED BY <1>6, <2>3, <2>4 DEF CliStarts
<1>7. ASSUME NEW t \in Threads, Step(t) PROVE SerialInv'
  <2>1. ~Free(t)
    BY <1>0, <1>7 DEF Step, Current, PauseCurrent, ResumeModule, Push, Pop, Leave, IsEmpty,
                      ResumeTop, Doing, Free
  <2>2. running
    BY <2>1 DEF SerialInv, Threads
  <2> QED BY <1>7, <2>2, SerialStep
<1> QED BY <1>2, <1>3, <1>4, <1>5, <1>6, <1>7 DEF Next

LEMMA NotOverlappedKept == MCSpec => [](TypeInv /\ NotOverlapped)
<1>1. MCInit => TypeInv /\ NotOverlapped
  <2> SUFFICES ASSUME MCInit PROVE TypeInv /\ NotOverlapped
    OBVIOUS
  <2>1. Free(CLI) /\ Free(GUI)
    BY GuiIsNotCli DEF MCInit, Init, Free
  <2> QED BY <2>1, InitTypes DEF MCInit, Init, NotOverlapped, SerialInv
<1>2. TypeInv /\ NotOverlapped /\ [Next /\ Remote]_mcVars => (TypeInv /\ NotOverlapped)'
  <2> SUFFICES ASSUME TypeInv, NotOverlapped, [Next /\ Remote]_mcVars
               PROVE  (TypeInv /\ NotOverlapped)'
    OBVIOUS
  <2>1. TypeInv'
    BY NextTypes DEF mcVars
  <2>2. CASE Next /\ Remote
    <3> SUFFICES ASSUME remote' # "overlapped" PROVE SerialInv'
      BY <2>1 DEF NotOverlapped
    <3>1. remote # "overlapped" /\ ~Overlap
      BY <2>2 DEF Remote
    <3> QED BY <2>2, <3>1, SerialNext DEF NotOverlapped
  <2>3. CASE UNCHANGED mcVars
    BY <2>1, <2>3 DEF mcVars, vars, widgets, NotOverlapped, SerialInv, Free, Threads
  <2> QED BY <2>2, <2>3
<1> QED BY <1>1, <1>2, PTL DEF MCSpec

(* GuiManager.h:66-68 promises that the pages can be controlled from the    *)
(* CLI thread by signals.  It holds as long as commands and what the pages  *)
(* ask do not overlap: once the posted slots have run, the page on top of   *)
(* the stack is the one shown, however many commands were given, on however *)
(* long a queue (GuiManager.cpp:232-277).                                   *)
THEOREM CommandsAreFollowed == MCSpec => []SerialPageFollowsStack
<1>1. TypeInv /\ NotOverlapped => SerialPageFollowsStack
  <2> SUFFICES ASSUME TypeInv, SerialInv, AtRest PROVE TopIsShown
    BY DEF NotOverlapped, SerialPageFollowsStack, PageFollowsStack
  <2>1. /\ running /\ posted = <<>> /\ Free(GUI) /\ Free(CLI)
        /\ shown \in SUBSET Pages /\ backdrop \in BOOLEAN
    BY GuiIsNotCli DEF AtRest, TypeInv, TypeOK
  <2>2. WillShowTop(<<>>, shown, backdrop, guiStack)
    BY <2>1 DEF SerialInv
  <2>0. \A pages : \A b \in BOOLEAN :
          Screen(<<>>, shown, backdrop, pages, b) <=> shown = pages /\ backdrop = b
    BY <2>1, ScreenNow
  <2>3. CASE guiStack = <<>>
    <3>1. shown = {} /\ backdrop = TRUE
      <4>1. Screen(<<>>, shown, backdrop, {}, TRUE)
        BY <2>2, <2>3 DEF WillShowTop
      <4> QED BY <2>0, <4>1
    <3> QED BY <2>3, <3>1 DEF TopIsShown
  <2>4. CASE guiStack # <<>>
    <3> DEFINE p == Last(guiStack)
    <3>1. Screen(<<>>, shown, backdrop, {p}, p # "player")
      BY <2>2, <2>4 DEF WillShowTop, WillShow
    <3> HIDE DEF p
    <3>2. (p # "player") \in BOOLEAN
      OBVIOUS
    <3>3. shown = {p} /\ backdrop = (p # "player")
      BY <2>0, <3>1, <3>2
    <3> QED BY <2>4, <3>3 DEF TopIsShown, p
  <2> QED BY <2>3, <2>4
<1> QED BY <1>1, NotOverlappedKept, PTL

-----------------------------------------------------------------------------
(* What is on the stack.                                                    *)

LEMMA StackParts ==
  ASSUME NEW S, NEW s \in Seq(S), s # <<>>
  PROVE  /\ Len(s) \in Nat \ {0} /\ Last(s) = s[Len(s)]
         /\ Len(Front(s)) = Len(s) - 1
         /\ \A i \in 1..(Len(s) - 1) : Front(s)[i] = s[i]
<1>1. Len(s) \in Nat /\ Len(s) # 0 /\ \A i \in 1..Len(s) : s[i] \in S
  BY LenProperties, ElementOfSeq, EmptySeq
<1>2. 1 \in Int /\ Len(s) - 1 \in Int /\ \A i \in 1..(Len(s) - 1) : s[i] \in S
  BY <1>1
<1>3. \A i \in 1..((Len(s) - 1) - 1 + 1) : Front(s)[i] = s[1 + i - 1]
  BY <1>2, SubSeqProperties DEF Front
<1>4. \A i \in 1..(Len(s) - 1) : Front(s)[i] = s[i]
  BY <1>1, <1>3
<1> QED BY <1>1, <1>4, StackEnds DEF Last

LEMMA StackGrows ==
  ASSUME NEW S, NEW s \in Seq(S), NEW e \in S
  PROVE  /\ Len(s) \in Nat /\ Len(Append(s, e)) = Len(s) + 1
         /\ Append(s, e)[Len(s) + 1] = e
         /\ \A i \in 1..Len(s) : Append(s, e)[i] = s[i]
BY LenProperties, AppendProperties

\* Each page of the stack has a way to the next.
Walk(s) == \A i \in 1..(Len(s) - 1) : <<s[i], s[i + 1]>> \in Links

LEMMA NavWalks ==
  ASSUME guiStack \in Seq(Pages), Walk(guiStack), guiStack # <<>> => Head(guiStack) = "login",
         Nav!Next \/ UNCHANGED Nav!vars
  PROVE  Walk(guiStack') /\ (guiStack' # <<>> => Head(guiStack') = "login")
<1>1. CASE Nav!Start
  <2>1. guiStack' = <<"login">>
    BY <1>1 DEF Nav!Start
  <2> QED BY <2>1 DEF Walk
<1>2. CASE Nav!Go
  <2>1. PICK link \in Links :
          Last(guiStack) = link[1] /\ guiStack' = Append(guiStack, link[2])
    BY <1>2 DEF Nav!Go, Nav!Last, Last
  <2>2. guiStack # <<>> /\ link[2] \in Pages /\ link = <<link[1], link[2]>>
    BY <1>2 DEF Nav!Go, Links
  <2>3. /\ Len(guiStack) \in Nat \ {0} /\ Last(guiStack) = guiStack[Len(guiStack)]
        /\ Len(guiStack') = Len(guiStack) + 1 /\ guiStack'[Len(guiStack) + 1] = link[2]
        /\ \A i \in 1..Len(guiStack) : guiStack'[i] = guiStack[i]
    BY <2>1, <2>2, StackParts, StackGrows
  <2>4. ASSUME NEW i \in 1..(Len(guiStack') - 1)
        PROVE  <<guiStack'[i], guiStack'[i + 1]>> \in Links
    <3>1. CASE i = Len(guiStack)
      BY <2>1, <2>2, <2>3, <3>1
    <3>2. CASE i # Len(guiStack)
      <4>1. i \in 1..(Len(guiStack) - 1) /\ i \in 1..Len(guiStack) /\ i + 1 \in 1..Len(guiStack)
        BY <2>3, <3>2
      <4> QED BY <2>3, <4>1 DEF Walk
    <3> QED BY <3>1, <3>2
  <2>5. Head(guiStack') = "login"
    BY <2>1, <2>2, StackEnds
  <2> QED BY <2>4, <2>5 DEF Walk
<1>3. CASE Nav!Return
  <2>1. Len(guiStack) > 1 /\ guiStack' = Front(guiStack) /\ guiStack # <<>>
    BY <1>3 DEF Nav!Return, Nav!Front, Front
  <2>2. /\ Len(guiStack) \in Nat \ {0} /\ Len(guiStack') = Len(guiStack) - 1
        /\ \A i \in 1..(Len(guiStack) - 1) : guiStack'[i] = guiStack[i]
        /\ Head(guiStack') = Head(guiStack)
    BY <2>1, StackParts, StackEnds
  <2>3. ASSUME NEW i \in 1..(Len(guiStack') - 1)
        PROVE  <<guiStack'[i], guiStack'[i + 1]>> \in Links
    <3>1. i \in 1..(Len(guiStack) - 1) /\ i + 1 \in 1..(Len(guiStack) - 1)
      BY <2>2
    <3> QED BY <2>2, <3>1 DEF Walk
  <2> QED BY <2>1, <2>2, <2>3 DEF Walk
<1>4. CASE UNCHANGED Nav!vars
  BY <1>4 DEF Nav!vars
<1> QED BY <1>1, <1>2, <1>3, <1>4 DEF Nav!Next

Walked == remote = "none" => Walk(guiStack) /\ (guiStack # <<>> => Head(guiStack) = "login")

(* What being a Navigation comes to: as long as no command was given, the   *)
(* page below each page of the stack has a button that opens it, down to    *)
(* the login page, so Back takes the user along ways he can take again      *)
(* (GuiManager.cpp:232-277, 331-345).                                       *)
THEOREM StackIsAWalk == MCSpec => []Walked
<1>1. MCInit => Walked
  <2> SUFFICES ASSUME MCInit PROVE Walked
    OBVIOUS
  <2>1. guiStack = <<>>
    BY DEF MCInit, Init
  <2> QED BY <2>1 DEF Walked, Walk
<1>2. TypeInv /\ LocallyInv /\ Walked /\ [Next /\ Remote]_mcVars => Walked'
  <2> SUFFICES ASSUME TypeInv, LocallyInv, Walked, [Next /\ Remote]_mcVars, remote' = "none"
               PROVE  Walk(guiStack') /\ (guiStack' # <<>> => Head(guiStack') = "login")
    BY DEF Walked, Walk
  <2>1. Nav!Next \/ UNCHANGED Nav!vars
    BY LocallyNext
  <2>2. remote = "none"
    BY DEF Remote, mcVars
  <2>3. guiStack \in Seq(Pages)
    BY DEF TypeInv, TypeOK
  <2> QED BY <2>1, <2>2, <2>3, NavWalks DEF Walked
<1> QED BY <1>1, <1>2, LocallyKept, PTL DEF MCSpec

\* No page is on the stack twice in a row.
Apart(s) == \A i \in 1..(Len(s) - 1) : s[i] # s[i + 1]

LEMMA ApartStack ==
  ASSUME NEW s \in Seq(Pages), Apart(s)
  PROVE  /\ s # <<>> => Apart(Front(s))
         /\ \A p \in Pages : (s = <<>> \/ Last(s) # p) => Apart(Append(s, p))
<1>1. ASSUME s # <<>> PROVE Apart(Front(s))
  <2>1. /\ Len(s) \in Nat \ {0} /\ Len(Front(s)) = Len(s) - 1
        /\ \A i \in 1..(Len(s) - 1) : Front(s)[i] = s[i]
    BY <1>1, StackParts
  <2>2. ASSUME NEW i \in 1..(Len(Front(s)) - 1) PROVE Front(s)[i] # Front(s)[i + 1]
    <3>1. i \in 1..(Len(s) - 1) /\ i + 1 \in 1..(Len(s) - 1)
      BY <2>1
    <3> QED BY <2>1, <3>1 DEF Apart
  <2> QED BY <2>2 DEF Apart
<1>2. ASSUME NEW p \in Pages, s = <<>> \/ Last(s) # p PROVE Apart(Append(s, p))
  <2>1. /\ Len(s) \in Nat /\ Len(Append(s, p)) = Len(s) + 1
        /\ Append(s, p)[Len(s) + 1] = p
        /\ \A i \in 1..Len(s) : Append(s, p)[i] = s[i]
    BY StackGrows
  <2>2. ASSUME NEW i \in 1..(Len(Append(s, p)) - 1)
        PROVE  Append(s, p)[i] # Append(s, p)[i + 1]
    <3>1. CASE i = Len(s)
      <4>1. s # <<>> /\ i \in 1..Len(s)
        BY <2>1, <2>2, <3>1
      <4>2. Last(s) = s[i]
        BY <3>1 DEF Last
      <4> QED BY <1>2, <2>1, <3>1, <4>1, <4>2
    <3>2. CASE i # Len(s)
      <4>1. i \in 1..(Len(s) - 1) /\ i \in 1..Len(s) /\ i + 1 \in 1..Len(s)
        BY <2>1, <3>2
      <4> QED BY <2>1, <4>1 DEF Apart
    <3> QED BY <3>1, <3>2
  <2> QED BY <2>2 DEF Apart
<1> QED BY <1>1, <1>2

Opening(c) == c.step \in {"pause", "resume", "push"}

\* A page that is being opened is not the one on top.
ApartInv ==
  /\ Apart(guiStack)
  /\ \A t \in Threads : Opening(call[t]) => guiStack = <<>> \/ Last(guiStack) # Page(t)

\* Thread t goes on, or begins, while the other is in no call.
LEMMA ApartMove ==
  ASSUME TypeInv, NEW t \in Threads, \A u \in Threads : u # t => Free(u),
         NEW c, Becomes(t, c), Apart(guiStack'),
         Opening(c) => guiStack' = <<>> \/ Last(guiStack') # c.page
  PROVE  ApartInv'
<1>1. \A u \in Threads : call'[u] = IF u = t THEN c ELSE NoCall
  BY DEF TypeInv, TypeOK, Becomes, Free
<1>2. ~Opening(NoCall)
  BY NoCallIs DEF Opening
<1> QED BY <1>1, <1>2 DEF ApartInv, Page

LEMMA ApartStep ==
  ASSUME TypeInv, SerialInv, ApartInv, NEW t \in Threads, Step(t)
  PROVE  ApartInv'
<1>0. /\ TypeOK /\ CallsHavePages /\ NoCall.step = "none"
      /\ Steps \ {"none"} =
           {"current", "pause", "resume", "push", "pop", "leave", "isEmpty", "top"}
      /\ guiStack \in Seq(Pages) /\ Apart(guiStack)
  BY NoCallIs DEF TypeInv, TypeOK, Steps, ApartInv
<1>1. ~Free(t)
  BY <1>0 DEF Step, Current, PauseCurrent, ResumeModule, Push, Pop, Leave, IsEmpty,
              ResumeTop, Doing, Free
<1>2. \A u \in Threads : u # t => Free(u)
  BY <1>1, GuiIsNotCli DEF SerialInv, Threads
<1>3. ASSUME NEW c, Becomes(t, c), UNCHANGED guiStack,
             Opening(c) => guiStack = <<>> \/ Last(guiStack) # c.page
      PROVE  ApartInv'
  <2>1. Apart(guiStack') /\ (Opening(c) => guiStack' = <<>> \/ Last(guiStack') # c.page)
    BY <1>0, <1>3
  <2> QED BY <1>2, <1>3, <2>1, ApartMove
<1>4. ASSUME NEW step \in Steps \ {"none"}, Advance(t, step), UNCHANGED guiStack,
             step \in {"pause", "resume", "push"} => guiStack = <<>> \/ Last(guiStack) # Page(t)
      PROVE  ApartInv'
  <2>1. PICK c : Becomes(t, c) /\ c.step = step /\ c.page = Page(t)
    BY <1>4, SerialAdvance
  <2> QED BY <1>3, <1>4, <2>1 DEF Opening
<1>5. ASSUME NEW c, Becomes(t, c), UNCHANGED guiStack, c.step \in {"none", "leave"}
      PROVE  ApartInv'
  BY <1>3, <1>5 DEF Opening
<1>6. CASE Current(t)
  <2>1. UNCHANGED guiStack
    BY <1>6 DEF Current
  <2>2. CASE guiStack = <<>> /\ Advance(t, "resume")
    BY <1>0, <1>4, <2>1, <2>2
  <2>3. CASE Becomes(t, NoCall)
    BY <1>0, <1>5, <2>1, <2>3
  <2>4. CASE Last(guiStack) # Page(t) /\ Becomes(t, Call("pause", Page(t), Last(guiStack)))
    <3> DEFINE c == Call("pause", Page(t), Last(guiStack))
    <3>1. Becomes(t, c) /\ c.page = Page(t)
      BY <2>4 DEF Call
    <3> HIDE DEF c
    <3> QED BY <1>3, <2>1, <2>4, <3>1
  <2> QED BY <1>6, <2>2, <2>3, <2>4 DEF Current
<1>7. CASE PauseCurrent(t) \/ ResumeModule(t)
  <2>1. guiStack = <<>> \/ Last(guiStack) # Page(t)
    BY <1>7 DEF ApartInv, Opening, PauseCurrent, ResumeModule, Doing
  <2> QED BY <1>0, <1>4, <1>7, <2>1 DEF PauseCurrent, ResumeModule
<1>8. CASE Push(t)
  <2>1. /\ guiStack = <<>> \/ Last(guiStack) # Page(t)
        /\ Page(t) \in Pages /\ guiStack' = Append(guiStack, Page(t)) /\ Becomes(t, NoCall)
    BY <1>0, <1>8 DEF ApartInv, Opening, Push, Doing, CallsHavePages
  <2>2. Apart(guiStack')
    BY <1>0, <2>1, ApartStack
  <2>3. ~Opening(NoCall)
    BY <1>0 DEF Opening
  <2> QED BY <1>2, <2>1, <2>2, <2>3, ApartMove
<1>9. CASE Pop(t)
  <2>1. CASE guiStack = <<>>
    BY <1>9, <2>1 DEF Pop, Undefined, ApartInv, Page
  <2>2. CASE guiStack # <<>>
    <3> DEFINE c == Call("leave", NoPage, Last(guiStack))
    <3>1. Becomes(t, c) /\ c.step = "leave" /\ guiStack' = Front(guiStack)
      BY <1>9, <2>2 DEF Pop, Call
    <3> HIDE DEF c
    <3>2. Apart(guiStack') /\ ~Opening(c)
      BY <1>0, <2>2, <3>1, ApartStack DEF Opening
    <3> QED BY <1>2, <3>1, <3>2, ApartMove
  <2> QED BY <2>1, <2>2
<1>10. CASE Leave(t)
  BY <1>0, <1>4, <1>10 DEF Leave
<1>11. CASE IsEmpty(t)
  BY <1>0, <1>4, <1>5, <1>11 DEF IsEmpty
<1>12. CASE ResumeTop(t)
  <2>1. CASE guiStack = <<>>
    BY <1>12, <2>1 DEF ResumeTop, Undefined, ApartInv, Page
  <2> QED BY <1>0, <1>5, <1>12, <2>1 DEF ResumeTop
<1> QED BY <1>6, <1>7, <1>8, <1>9, <1>10, <1>11, <1>12 DEF Step

LEMMA ApartEnter ==
  ASSUME TypeInv, ApartInv, NEW t \in Threads, NEW step \in {"current", "pop"}, NEW p,
         Becomes(t, Call(step, p, NoPage)), UNCHANGED guiStack
  PROVE  ApartInv'
<1> DEFINE c == Call(step, p, NoPage)
<1>1. c.step = step /\ Becomes(t, c)
  BY DEF Call
<1> HIDE DEF c
<1>2. \A u \in Threads : call'[u] = IF u = t THEN c ELSE call[u]
  BY <1>1 DEF TypeInv, TypeOK, Becomes
<1> QED BY <1>1, <1>2 DEF ApartInv, Opening, Page

LEMMA ApartNext ==
  ASSUME TypeInv, SerialInv, ApartInv, Next
  PROVE  ApartInv'
<1> USE GuiIsNotCli
<1>1. ASSUME UNCHANGED <<guiStack, call>> PROVE ApartInv'
  BY <1>1 DEF ApartInv, Page
<1>2. CASE AppendModule \/ AskLogout \/ CancelLogout \/ RunPosted
  BY <1>1, <1>2 DEF AppendModule, AskLogout, CancelLogout, RunPosted
<1>3. CASE KaraokeResume
  BY <1>3, ApartEnter DEF KaraokeResume
<1>4. ASSUME NEW p \in Pages, Back(p) PROVE ApartInv'
  BY <1>4, ApartEnter DEF Back, EnterDeactivate
<1>5. ASSUME NEW p \in Pages, NEW q \in Pages, OpenPage(p, q) PROVE ApartInv'
  BY <1>5, ApartEnter DEF OpenPage, EnterActivate
<1>6. CASE Logout
  BY <1>6, ApartEnter DEF Logout, EnterActivate
<1>7. CASE CliPause
  BY <1>7, ApartEnter DEF CliPause, EnterDeactivate
<1>8. ASSUME NEW p \in Pages, CliResume(p) PROVE ApartInv'
  BY <1>8, ApartEnter DEF CliResume, EnterActivate
<1>9. ASSUME NEW t \in Threads, Step(t) PROVE ApartInv'
  BY <1>9, ApartStep
<1> QED BY <1>2, <1>3, <1>4, <1>5, <1>6, <1>7, <1>8, <1>9 DEF Next, GuiStarts, CliStarts

(* activate compares with the page on top before it opens one: however      *)
(* often a page or gui.r asks for the page that is already there, it is not *)
(* on the stack twice in a row, and Back never seems to do nothing, unless  *)
(* a command and a page change overlap (GuiManager.cpp:232-277).            *)
THEOREM NoPageTwice == MCSpec => [](remote # "overlapped" => Apart(guiStack))
<1> DEFINE Inv == remote # "overlapped" => ApartInv
<1>1. MCInit => Inv
  <2> SUFFICES ASSUME MCInit PROVE ApartInv
    OBVIOUS
  <2>1. guiStack = <<>> /\ \A t \in Threads : call[t] = NoCall
    BY DEF MCInit, Init
  <2> QED BY <2>1, NoCallIs DEF ApartInv, Apart, Opening
<1>2. TypeInv /\ NotOverlapped /\ Inv /\ [Next /\ Remote]_mcVars => Inv'
  <2> SUFFICES ASSUME TypeInv, NotOverlapped, Inv, [Next /\ Remote]_mcVars,
                      remote' # "overlapped"
               PROVE  ApartInv'
    OBVIOUS
  <2>1. CASE Next /\ Remote
    <3>1. remote # "overlapped"
      BY <2>1 DEF Remote
    <3> QED BY <2>1, <3>1, ApartNext DEF NotOverlapped
  <2>2. CASE UNCHANGED mcVars
    BY <2>2 DEF mcVars, vars, ApartInv, Page
  <2> QED BY <2>1, <2>2
<1>3. Inv => (remote # "overlapped" => Apart(guiStack))
  BY DEF ApartInv
<1> QED BY <1>1, <1>2, <1>3, NotOverlappedKept, PTL DEF MCSpec
=============================================================================
