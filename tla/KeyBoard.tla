------------------------------ MODULE KeyBoard ------------------------------
(***************************************************************************)
(* The virtual keyboard (gui/widget/keyboard.cpp) and the lines it fills   *)
(* (gui/widget/inputline.cpp), of which Login has two.  One keyboard is    *)
(* shared: Return on a line makes it the only receiver of signal_close and *)
(* opens the keyboard with its text.  A virtual key changes the edit box   *)
(* and copies the text to `input', which is what OK sends.                 *)
(*                                                                         *)
(* The edit box is a QLineEdit with the focus of Qt, so digits of a remote *)
(* control, which the event filter lets pass, reach it too.  A line is     *)
(* itself a QLineEdit: any key but Select and Return edits it, keyboard or *)
(* not.                                                                    *)
(***************************************************************************)
EXTENDS Integers, Sequences, SequencesExt

CONSTANTS
  Lines,     \* the InputLines connected to the keyboard
  EchoesOf,  \* for each line, whether its echo mode is Normal
  Columns,   \* keys in a row: 11
  KEYNUM,    \* keys: 55, of which keys[0] is the first to have the focus
  KeyKind,   \* for each key, "Character" or the function written on it
  Chars,
  CharOf,    \* for each key and mode, its text
  Space,
  InitText,  \* what Login puts into its lines
  MaxText    \* bound: characters in a text

Idx == 0..(KEYNUM - 1)
Modes == {"Normal", "Capital"}
Functions == {"Backspace", "Mode", "Clear", "<-", "->", "Space", "OK"}

ASSUME KeyBoardAssumption ==
  /\ EchoesOf \in [Lines -> BOOLEAN]
  /\ Columns \in Nat \ {0} /\ KEYNUM \in Nat /\ KEYNUM >= Columns
  /\ KeyKind \in [Idx -> Functions \cup {"Character"}]
  /\ CharOf \in [Idx -> [Modes -> Chars]]
  /\ Space \in Chars /\ InitText \in Seq(Chars)
  /\ MaxText \in Nat

NoKey == -1

VARIABLES
  text,       \* of each InputLine
  receivers,  \* the lines that signal_close is connected to
  shown,      \* the keyboard is
  mode,       \* of the keyboard, which is that of the labels of its keys
  focus,      \* the key with the focus of the keyboard
  lit,        \* the keys with a red border
  edit,       \* the text of the edit box
  cursor,     \* and its cursor
  echo,       \* whether its echo mode is Normal
  input,      \* KeyBoard::input
  typed       \* history: the edit box was changed past the keyboard

boxVars == <<edit, cursor, input, typed>>
vars == <<text, receivers, shown, mode, focus, lit, echo, boxVars>>

-----------------------------------------------------------------------------
(* Opening.                                                                *)

\* KeyBoard::setFocus
SetFocus(k) ==
  /\ focus' = k
  /\ lit' = IF focus = k THEN lit ELSE (lit \ {focus}) \cup {k}

\* Mutant of Connect: the other line stays connected.
ConnectToo(l) == receivers' = receivers \cup {l}

\* disconnect of every receiver, connect of this one.
Connect(l) == receivers' = {l}

\* KeyBoard::open(str): the text, with the cursor at its end, into both.
Load(str) ==
  /\ edit' = str /\ cursor' = Len(str)
  /\ input' = str
  /\ typed' = FALSE

\* Mutant of SetEcho: once hidden, always hidden.
SetEchoHides(on) == echo' = (echo /\ on)

\* KeyBoard::echo
SetEcho(on) == echo' = on

\* InputLine::eventFilter: Select or Return.  Nothing keeps the user from
\* opening the keyboard for another line while it is shown: it is modal to
\* its parent window, and it has none.
OpenFor(l) ==
  /\ Connect(l)
  /\ SetEcho(EchoesOf[l])
  /\ Load(text[l])
  /\ SetFocus(0)
  /\ shown' = TRUE
  /\ UNCHANGED <<text, mode>>

-----------------------------------------------------------------------------
(* The arrows: a ring of rows and a ring of keys.                          *)

\* Mutant of Above: a key of the second row is taken for one of the first.
AboveWraps(idx) == IF idx > Columns THEN idx - Columns ELSE idx + (KEYNUM - Columns)

Above(idx) == IF idx > Columns - 1 THEN idx - Columns ELSE idx + (KEYNUM - Columns)
Below(idx) == IF idx < KEYNUM - Columns THEN idx + Columns ELSE idx - (KEYNUM - Columns)

\* Mutant of LeftOf: the first key has nothing on its left.
LeftOfStays(idx) == IF idx = 0 THEN idx ELSE idx - 1

LeftOf(idx) == IF idx = 0 THEN KEYNUM - 1 ELSE idx - 1
RightOf(idx) == IF idx = KEYNUM - 1 THEN 0 ELSE idx + 1

\* KeyBoard::keyPressEvent, and eventFilter, which keeps Back and Escape from
\* everybody.
Arrow ==
  /\ shown
  /\ \E k \in {Above(focus), Below(focus), LeftOf(focus), RightOf(focus)} : SetFocus(k)
  /\ UNCHANGED <<text, receivers, shown, mode, echo, boxVars>>

-----------------------------------------------------------------------------
(* The keys.                                                               *)

\* input = editbox->text(), after the text of the edit box has become str.
Edited(str) == edit' = str /\ input' = str /\ typed' = FALSE

\* editbox->insert(c)
Insert(c) ==
  /\ Len(edit) < MaxText
  /\ cursor' = cursor + 1
  /\ Edited(InsertAt(edit, cursor + 1, c))

slot_btn_backspace ==
  IF cursor = 0 THEN Edited(edit) /\ UNCHANGED cursor
  ELSE Edited(RemoveAt(edit, cursor)) /\ cursor' = cursor - 1

\* Mutant of slot_btn_clear: input is forgotten.
slot_btn_clear_box == edit' = <<>> /\ cursor' = 0 /\ UNCHANGED <<input, typed>>

slot_btn_clear == Edited(<<>>) /\ cursor' = 0

slot_btn_left ==
  cursor' = (IF cursor = 0 THEN 0 ELSE cursor - 1) /\ UNCHANGED <<edit, input, typed>>

slot_btn_right ==
  cursor' = (IF cursor = Len(edit) THEN cursor ELSE cursor + 1)
  /\ UNCHANGED <<edit, input, typed>>

slot_btn_mode ==
  mode' = (IF mode = "Normal" THEN "Capital" ELSE "Normal") /\ UNCHANGED boxVars

\* close() empties the edit box and emits signal_close, and slot_btn_ok emits
\* it again: the receivers set the same text twice.
slot_btn_ok ==
  /\ shown' = FALSE
  /\ edit' = <<>> /\ cursor' = 0 /\ typed' = FALSE
  /\ text' = [l \in Lines |-> IF l \in receivers THEN input ELSE text[l]]
  /\ UNCHANGED input

\* slot_btn_press: by Select or Return on the key with the focus, or by a
\* click on any key.  getChar() is the text of the normal mode, whatever the
\* mode is, but the functions have one text for both.
slot_btn_press(k) ==
  /\ shown
  /\ SetFocus(k)
  /\ \/ KeyKind[k] = "Character" /\ Insert(CharOf[k][mode]) /\ UNCHANGED mode
     \/ KeyKind[k] = "Backspace" /\ slot_btn_backspace /\ UNCHANGED mode
     \/ KeyKind[k] = "Mode" /\ slot_btn_mode
     \/ KeyKind[k] = "Clear" /\ slot_btn_clear /\ UNCHANGED mode
     \/ KeyKind[k] = "<-" /\ slot_btn_left /\ UNCHANGED mode
     \/ KeyKind[k] = "->" /\ slot_btn_right /\ UNCHANGED mode
     \/ KeyKind[k] = "Space" /\ Insert(Space) /\ UNCHANGED mode
     \/ KeyKind[k] = "OK" /\ slot_btn_ok /\ UNCHANGED mode
  /\ KeyKind[k] # "OK" => UNCHANGED <<text, shown>>
  /\ UNCHANGED <<receivers, echo>>

\* A key that eventFilter lets pass: the edit box inserts it.
TypeChar(c) ==
  /\ shown /\ Len(edit) < MaxText
  /\ edit' = InsertAt(edit, cursor + 1, c) /\ cursor' = cursor + 1
  /\ typed' = TRUE
  /\ UNCHANGED <<text, receivers, shown, mode, focus, lit, echo, input>>

\* InputLine::eventFilter, any other key: the line with the focus of Qt inserts
\* or removes a character at its own cursor, which may be anywhere.
TypeIn(l) ==
  /\ \/ \E c \in Chars, n \in 0..Len(text[l]) :
          /\ Len(text[l]) < MaxText
          /\ text' = [text EXCEPT ![l] = InsertAt(@, n + 1, c)]
     \/ \E n \in 1..Len(text[l]) : text' = [text EXCEPT ![l] = RemoveAt(@, n)]
  /\ UNCHANGED <<receivers, shown, mode, focus, lit, echo, boxVars>>

-----------------------------------------------------------------------------
\* The constructors: every line is connected until one opens the keyboard.
Init ==
  /\ text = [l \in Lines |-> InitText]
  /\ receivers = Lines
  /\ shown = FALSE /\ mode = "Normal"
  /\ focus = NoKey /\ lit = {}
  /\ edit = <<>> /\ cursor = 0 /\ echo = TRUE
  /\ input = <<>> /\ typed = FALSE

Next ==
  \/ \E l \in Lines : OpenFor(l) \/ TypeIn(l)
  \/ Arrow
  \/ \E k \in Idx : slot_btn_press(k)
  \/ \E c \in Chars : TypeChar(c)

Spec == Init /\ [][Next]_vars

-----------------------------------------------------------------------------
(* Properties.                                                             *)

\* Types; in particular no arrow leaves the array of keys and the cursor
\* stays in the text.
TypeOK ==
  /\ text \in [Lines -> Seq(Chars)]
  /\ receivers \in SUBSET Lines
  /\ shown \in BOOLEAN /\ mode \in Modes
  /\ focus \in Idx \cup {NoKey} /\ lit \in SUBSET Idx
  /\ edit \in Seq(Chars) /\ input \in Seq(Chars)
  /\ cursor \in 0..Len(edit)
  /\ echo \in BOOLEAN /\ typed \in BOOLEAN

\* What OK will send is what the edit box shows, unless the box was changed
\* past the keyboard since the last virtual key (keyboard.cpp:340-417).
InputIsShown == shown /\ ~typed => input = edit

\* The keyboard serves one line, and shows its text the way that line does
\* (inputline.cpp:34-45).
ServesOneLine ==
  shown => \E l \in Lines : receivers = {l} /\ echo = EchoesOf[l]

\* One key of a shown keyboard has the red border, the one with the focus,
\* and the arrows lead back where they came from (keyboard.cpp:220-228,
\* 270-331).
OneKeyIsLit ==
  shown =>
    /\ lit = {focus}
    /\ Below(Above(focus)) = focus /\ Above(Below(focus)) = focus
    /\ RightOf(LeftOf(focus)) = focus /\ LeftOf(RightOf(focus)) = focus

\* The lines and their keyboard are a form: whichever lines open the keyboard,
\* and whatever is typed into it or straight into a line, OK hides the keyboard
\* and gives the line it was opened for last the draft that began as the text
\* of that line; nothing else hides it, and no key of the keyboard reaches a
\* line before (inputline.cpp:33-56, keyboard.cpp:187-193, 410-417).
Lined == INSTANCE Form WITH
  editing <- IF shown THEN receivers ELSE {},
  draft <- IF shown THEN input ELSE <<>>

IsAForm == Lined!Spec
=============================================================================
