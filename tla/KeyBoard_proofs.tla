-------------------------- MODULE KeyBoard_proofs ---------------------------
(* The keyboard, for any number of lines, keys and rows of keys.           *)
EXTENDS KeyBoard, PlayListOps_proofs

\* What the keyboard keeps when it is hidden, too: at most the key with the
\* focus is lit, and a keyboard that is shown has one.
FocusInv ==
  /\ focus \in Idx \cup {NoKey}
  /\ shown => focus \in Idx
  /\ lit = IF focus = NoKey THEN {} ELSE {focus}

KbInv == FocusInv /\ InputIsShown /\ ServesOneLine

\* The arrows as arithmetic: no key is left, and each undoes another one.
LEMMA ArrowsUndo ==
  ASSUME NEW k \in Idx
  PROVE  /\ {Above(k), Below(k), LeftOf(k), RightOf(k)} \subseteq Idx
         /\ Below(Above(k)) = k /\ Above(Below(k)) = k
         /\ RightOf(LeftOf(k)) = k /\ LeftOf(RightOf(k)) = k
BY KeyBoardAssumption DEF Idx, Above, Below, LeftOf, RightOf

LEMMA SetFocusKeeps ==
  ASSUME FocusInv, NEW k \in Idx, SetFocus(k)
  PROVE  FocusInv'
<1>1. k # NoKey
  BY KeyBoardAssumption DEF Idx, NoKey
<1> QED BY <1>1 DEF FocusInv, SetFocus

LEMMA NextKeeps ==
  ASSUME KbInv, [Next]_vars
  PROVE  KbInv'
<1> USE DEF KbInv
<1>1. ASSUME NEW l \in Lines, OpenFor(l) PROVE KbInv'
  <2>1. 0 \in Idx
    BY KeyBoardAssumption DEF Idx
  <2>2. FocusInv'
    BY <1>1, <2>1, SetFocusKeeps DEF OpenFor
  <2>3. InputIsShown'
    BY <1>1 DEF OpenFor, Load, InputIsShown
  <2>4. ServesOneLine'
    BY <1>1 DEF OpenFor, Connect, SetEcho, ServesOneLine
  <2> QED BY <2>2, <2>3, <2>4
<1>2. CASE Arrow
  <2>1. PICK k \in {Above(focus), Below(focus), LeftOf(focus), RightOf(focus)} : SetFocus(k)
    BY <1>2 DEF Arrow
  <2>2. k \in Idx
    BY <1>2, <2>1, ArrowsUndo DEF Arrow, FocusInv
  <2>3. FocusInv'
    BY <2>1, <2>2, SetFocusKeeps
  <2> QED BY <1>2, <2>3 DEF Arrow, boxVars, InputIsShown, ServesOneLine
<1>3. ASSUME NEW k \in Idx, slot_btn_press(k) PROVE KbInv'
  <2>1. FocusInv'
    BY <1>3, SetFocusKeeps DEF slot_btn_press
  <2>2. InputIsShown'
    BY <1>3 DEF slot_btn_press, slot_btn_backspace, slot_btn_clear, slot_btn_left,
       slot_btn_right, slot_btn_mode, slot_btn_ok, Insert, Edited, boxVars, InputIsShown
  <2>3. ServesOneLine'
    <3>1. shown /\ UNCHANGED <<receivers, echo>>
      BY <1>3 DEF slot_btn_press
    <3> QED BY <3>1 DEF ServesOneLine
  <2> QED BY <2>1, <2>2, <2>3
<1>4. ASSUME NEW c \in Chars, TypeChar(c) PROVE KbInv'
  BY <1>4 DEF TypeChar, FocusInv, InputIsShown, ServesOneLine
<1>5. ASSUME NEW l \in Lines, TypeIn(l) PROVE KbInv'
  BY <1>5 DEF TypeIn, boxVars, FocusInv, InputIsShown, ServesOneLine
<1>6. CASE UNCHANGED vars
  BY <1>6 DEF vars, boxVars, FocusInv, InputIsShown, ServesOneLine
<1> QED BY <1>1, <1>2, <1>3, <1>4, <1>5, <1>6 DEF Next

LEMMA KbInvariant == Spec => []KbInv
<1>1. Init => KbInv
  BY DEF Init, KbInv, FocusInv, InputIsShown, ServesOneLine
<1>2. KbInv /\ [Next]_vars => KbInv'
  BY NextKeeps
<1> QED BY <1>1, <1>2, PTL DEF Spec

(* OK sends what the edit box shows, unless the box was changed past the   *)
(* keyboard since the last virtual key (keyboard.cpp:340-417).             *)
THEOREM OkSendsWhatIsShown == Spec => []InputIsShown
<1>1. KbInv => InputIsShown
  BY DEF KbInv
<1> QED BY <1>1, KbInvariant, PTL

(* A keyboard of any size has one lit key, and the arrows are two rings    *)
(* that never leave it (keyboard.cpp:220-228, 270-331).                    *)
THEOREM ArrowsAreRings == Spec => []OneKeyIsLit
<1>1. KbInv => OneKeyIsLit
  <2> SUFFICES ASSUME KbInv, shown PROVE OneKeyIsLit
    BY DEF OneKeyIsLit
  <2>1. focus \in Idx /\ focus # NoKey
    BY KeyBoardAssumption DEF KbInv, FocusInv, Idx, NoKey
  <2>2. lit = {focus}
    BY <2>1 DEF KbInv, FocusInv
  <2> QED BY <2>1, <2>2, ArrowsUndo DEF OneKeyIsLit
<1> QED BY <1>1, KbInvariant, PTL

(* The keyboard that is shown belongs to one line and shows text the way   *)
(* that line does, whichever lines opened it before (inputline.cpp:34-45).  *)
THEOREM OneLineIsServed == Spec => []ServesOneLine
<1>1. KbInv => ServesOneLine
  BY DEF KbInv
<1> QED BY <1>1, KbInvariant, PTL

-----------------------------------------------------------------------------
(* Types.                                                                  *)

LEMMA InsertAtText ==
  ASSUME NEW s \in Seq(Chars), NEW n \in 0..Len(s), NEW c \in Chars
  PROVE  /\ InsertAt(s, n + 1, c) \in Seq(Chars)
         /\ Len(InsertAt(s, n + 1, c)) = Len(s) + 1
<1> DEFINE a == SubSeq(s, 1, n)
           b == SubSeq(s, n + 1, Len(s))
<1>1. Len(s) \in Nat /\ \A i \in 1..Len(s) : s[i] \in Chars
  BY LenProperties, ElementOfSeq
<1>2. a \in Seq(Chars) /\ Len(a) = n
  <2>1. 1 \in Int /\ n \in Int /\ \A i \in 1..n : s[i] \in Chars
    BY <1>1
  <2>2. a \in Seq(Chars) /\ Len(a) = IF 1 <= n THEN n - 1 + 1 ELSE 0
    BY <2>1, SubSeqProperties
  <2> QED BY <1>1, <2>2
<1>3. b \in Seq(Chars) /\ Len(b) = Len(s) - n
  <2>1. n + 1 \in Int /\ Len(s) \in Int /\ \A i \in (n + 1)..Len(s) : s[i] \in Chars
    BY <1>1
  <2>2. b \in Seq(Chars) /\ Len(b) = IF n + 1 <= Len(s) THEN Len(s) - (n + 1) + 1 ELSE 0
    BY <2>1, SubSeqProperties
  <2> QED BY <1>1, <2>2
<1> HIDE DEF a, b
<1> DEFINE d == a \o <<c>>
<1>4. d \in Seq(Chars) /\ Len(d) = n + 1
  <2>1. <<c>> \in Seq(Chars) /\ Len(<<c>>) = 1
    OBVIOUS
  <2> QED BY <1>1, <1>2, <2>1, ConcatProperties
<1>5. InsertAt(s, n + 1, c) = d \o b
  <2>1. SubSeq(s, 1, (n + 1) - 1) = a
    BY <1>1 DEF a
  <2> QED BY <2>1 DEF InsertAt, b
<1> HIDE DEF d
<1>6. d \o b \in Seq(Chars) /\ Len(d \o b) = Len(d) + Len(b)
  BY <1>3, <1>4, ConcatProperties
<1>7. Len(d) + Len(b) = Len(s) + 1
  BY <1>1, <1>3, <1>4
<1> QED BY <1>5, <1>6, <1>7

LEMMA TypeInit == Init => TypeOK
<1>1. <<>> \in Seq(Chars) /\ Len(<<>>) = 0 /\ 0 \in 0..0
  OBVIOUS
<1>2. Init => text \in [Lines -> Seq(Chars)]
  BY KeyBoardAssumption DEF Init
<1>3. Init => edit \in Seq(Chars) /\ input \in Seq(Chars) /\ cursor \in 0..Len(edit)
  BY <1>1 DEF Init
<1> QED BY <1>2, <1>3 DEF Init, TypeOK, Modes

\* What a key does to the box keeps its types, given its text has them.
LEMMA KeyTypes ==
  ASSUME TypeOK, NEW k \in Idx, slot_btn_press(k)
  PROVE  /\ edit' \in Seq(Chars) /\ input' \in Seq(Chars)
         /\ cursor' \in 0..Len(edit')
         /\ typed' \in BOOLEAN /\ mode' \in Modes
<1> DEFINE Box(e, i, n) ==
      e \in Seq(Chars) /\ i \in Seq(Chars) /\ Len(e) \in Nat /\ n \in Nat /\ n <= Len(e)
<1>1. Box(edit, input, cursor) /\ typed \in BOOLEAN /\ mode \in Modes
  BY LenProperties DEF TypeOK
<1>2. <<>> \in Seq(Chars) /\ Len(<<>>) = 0
  OBVIOUS
<1>3. ASSUME NEW c \in Chars, Insert(c)
      PROVE  Box(edit', input', cursor') /\ typed' = FALSE
  <2>1. /\ edit' = InsertAt(edit, cursor + 1, c)
        /\ cursor' = cursor + 1 /\ input' = edit' /\ typed' = FALSE
    BY <1>3 DEF Insert, Edited
  <2>2. cursor \in 0..Len(edit)
    BY <1>1
  <2>3. edit' \in Seq(Chars) /\ Len(edit') = Len(edit) + 1
    BY <1>1, <2>1, <2>2, InsertAtText
  <2> QED BY <1>1, <2>1, <2>3
<1>4. ASSUME slot_btn_backspace
      PROVE  Box(edit', input', cursor') /\ typed' = FALSE
  <2>1. CASE cursor = 0
    <3>1. edit' = edit /\ input' = edit /\ cursor' = cursor /\ typed' = FALSE
      BY <1>4, <2>1 DEF slot_btn_backspace, Edited
    <3> QED BY <1>1, <3>1
  <2>2. CASE cursor # 0
    <3>1. cursor \in 1..Len(edit)
      BY <1>1, <2>2
    <3>2. RemoveAt(edit, cursor) \in Seq(Chars)
          /\ Len(RemoveAt(edit, cursor)) = Len(edit) - 1
      BY <1>1, <3>1, RemoveAtList
    <3>3. /\ edit' = RemoveAt(edit, cursor) /\ input' = edit' /\ typed' = FALSE
          /\ cursor' = cursor - 1
      BY <1>4, <2>2 DEF slot_btn_backspace, Edited
    <3>4. Len(edit') = Len(edit) - 1 /\ cursor' \in Nat /\ cursor' <= Len(edit) - 1
      BY <1>1, <3>1, <3>2, <3>3
    <3> QED BY <1>1, <3>2, <3>3, <3>4
  <2> QED BY <2>1, <2>2
<1>5. slot_btn_mode => Box(edit', input', cursor') /\ typed' = typed /\ mode' \in Modes
  BY <1>1 DEF slot_btn_mode, boxVars, Modes
<1>6. slot_btn_clear => Box(edit', input', cursor') /\ typed' = FALSE
  BY <1>1, <1>2 DEF slot_btn_clear, Edited
<1>7. slot_btn_left \/ slot_btn_right => Box(edit', input', cursor') /\ typed' = typed
  BY <1>1 DEF slot_btn_left, slot_btn_right
<1>8. slot_btn_ok => Box(edit', input', cursor') /\ typed' = FALSE
  BY <1>1, <1>2 DEF slot_btn_ok
<1>9. CharOf[k][mode] \in Chars /\ Space \in Chars
  BY <1>1, KeyBoardAssumption
<1> HIDE DEF Box
<1>10. Insert(CharOf[k][mode]) \/ Insert(Space) \/ slot_btn_backspace =>
         Box(edit', input', cursor') /\ typed' = FALSE
  BY <1>3, <1>4, <1>9
<1>11. Box(edit', input', cursor') /\ typed' \in {typed, FALSE} /\ mode' \in {mode} \cup Modes
  BY <1>5, <1>6, <1>7, <1>8, <1>10 DEF slot_btn_press
<1>12. \A e, i, n : Box(e, i, n) => e \in Seq(Chars) /\ i \in Seq(Chars) /\ n \in 0..Len(e)
  BY DEF Box
<1> QED BY <1>1, <1>11, <1>12

LEMMA TypeNext ==
  ASSUME TypeOK, FocusInv', [Next]_vars
  PROVE  TypeOK'
<1>1. focus' \in Idx \cup {NoKey} /\ lit' \in SUBSET Idx
  <2>1. NoKey \notin Idx
    BY DEF Idx, NoKey
  <2> QED BY <2>1 DEF FocusInv
<1>2. ASSUME NEW l \in Lines, OpenFor(l) PROVE TypeOK'
  <2>1. EchoesOf[l] \in BOOLEAN /\ text[l] \in Seq(Chars)
    BY KeyBoardAssumption DEF TypeOK
  <2>2. Len(text[l]) \in 0..Len(text[l])
    BY <2>1, LenProperties
  <2> QED BY <1>1, <1>2, <2>1, <2>2 DEF TypeOK, OpenFor, Connect, SetEcho, Load
<1>3. CASE Arrow
  BY <1>1, <1>3 DEF TypeOK, Arrow, boxVars
<1>4. ASSUME NEW k \in Idx, slot_btn_press(k) PROVE TypeOK'
  <2>1. text' \in [Lines -> Seq(Chars)] /\ shown' \in BOOLEAN
    BY <1>4 DEF TypeOK, slot_btn_press, slot_btn_ok
  <2>2. UNCHANGED <<receivers, echo>>
    BY <1>4 DEF slot_btn_press
  <2> QED BY <1>1, <1>4, <2>1, <2>2, KeyTypes DEF TypeOK
<1>5. ASSUME NEW c \in Chars, TypeChar(c) PROVE TypeOK'
  <2>1. edit' \in Seq(Chars) /\ Len(edit') = Len(edit) + 1 /\ cursor' = cursor + 1
    BY <1>5, InsertAtText DEF TypeOK, TypeChar
  <2>2. cursor' \in 0..Len(edit')
    BY <2>1, LenProperties DEF TypeOK
  <2> QED BY <1>1, <1>5, <2>1, <2>2 DEF TypeOK, TypeChar
<1>6. ASSUME NEW l \in Lines, TypeIn(l) PROVE TypeOK'
  <2>1. text[l] \in Seq(Chars) /\ text \in [Lines -> Seq(Chars)]
    BY DEF TypeOK
  <2>2. \E str \in Seq(Chars) : text' = [text EXCEPT ![l] = str]
    <3>1. \A c \in Chars, n \in 0..Len(text[l]) : InsertAt(text[l], n + 1, c) \in Seq(Chars)
      BY <2>1, InsertAtText
    <3>2. \A n \in 1..Len(text[l]) : RemoveAt(text[l], n) \in Seq(Chars)
      BY <2>1, RemoveAtList
    <3> QED BY <1>6, <3>1, <3>2 DEF TypeIn
  <2>3. text' \in [Lines -> Seq(Chars)]
    BY <2>1, <2>2
  <2> QED BY <1>6, <2>3 DEF TypeIn, boxVars, TypeOK
<1>7. CASE UNCHANGED vars
  BY <1>7 DEF vars, boxVars, TypeOK
<1> QED BY <1>2, <1>3, <1>4, <1>5, <1>6, <1>7 DEF Next

(* Types: no arrow leaves the keys and the cursor never leaves the text    *)
(* (keyboard.cpp:220-228, 340-408).                                        *)
THEOREM KeyBoardTypes == Spec => []TypeOK
<1>1. TypeOK /\ FocusInv' /\ [Next]_vars => TypeOK'
  BY TypeNext
<1>2. KbInv => FocusInv
  BY DEF KbInv
<1> QED BY <1>1, <1>2, TypeInit, KbInvariant, PTL DEF Spec

-----------------------------------------------------------------------------
(* The refinement.                                                         *)

LEMMA FormInit == Init => Lined!Init
BY DEF Init, Lined!Init

LEMMA FormNext ==
  ASSUME TypeOK, TypeOK', KbInv, [Next]_vars
  PROVE  [Lined!Next]_(Lined!vars)
<1>1. ASSUME NEW l \in Lines, OpenFor(l) PROVE Lined!Open(l)
  BY <1>1 DEF OpenFor, Connect, Load, Lined!Open
<1>2. CASE Arrow
  BY <1>2 DEF Arrow, boxVars, Lined!vars
<1>3. ASSUME NEW k \in Idx, slot_btn_press(k), KeyKind[k] # "OK"
      PROVE  Lined!Edit
  <2>1. shown /\ shown' /\ UNCHANGED <<text, receivers>>
    BY <1>3 DEF slot_btn_press
  <2>2. receivers # {} /\ input' \in Seq(Chars)
    BY <2>1 DEF KbInv, ServesOneLine, TypeOK
  <2> QED BY <2>1, <2>2 DEF Lined!Edit
<1>4. ASSUME NEW k \in Idx, slot_btn_press(k), KeyKind[k] = "OK"
      PROVE  \E l \in Lines : Lined!Accept(l)
  <2>1. shown /\ slot_btn_ok
    BY <1>4 DEF slot_btn_press
  <2>2. PICK l \in Lines : receivers = {l}
    BY <2>1 DEF KbInv, ServesOneLine
  <2>3. text' = [text EXCEPT ![l] = input]
    BY <2>1, <2>2 DEF slot_btn_ok, TypeOK
  <2>4. Lined!Accept(l)
    BY <2>1, <2>2, <2>3 DEF slot_btn_ok, Lined!Accept
  <2> QED BY <2>4
<1>5. ASSUME NEW c \in Chars, TypeChar(c) PROVE UNCHANGED Lined!vars
  BY <1>5 DEF TypeChar, Lined!vars
<1>6. ASSUME NEW l \in Lines, TypeIn(l) PROVE Lined!Type(l)
  <2>1. text'[l] \in Seq(Chars) /\ text \in [Lines -> Seq(Chars)]
    BY DEF TypeOK
  <2>2. PICK str : text' = [text EXCEPT ![l] = str]
    BY <1>6 DEF TypeIn
  <2>3. text' = [text EXCEPT ![l] = text'[l]]
    BY <2>1, <2>2
  <2> QED BY <1>6, <2>1, <2>3 DEF TypeIn, boxVars, Lined!Type
<1>7. CASE UNCHANGED vars
  BY <1>7 DEF vars, boxVars, Lined!vars
<1> QED BY <1>1, <1>2, <1>3, <1>4, <1>5, <1>6, <1>7 DEF Next, Lined!Next

(* Lines and keyboard implement a form, for any number of lines and keys:  *)
(* OK gives the line that was opened last the draft that began as its      *)
(* text, whatever was typed into lines meanwhile, and nothing else hides   *)
(* the keyboard or brings a draft into a line (inputline.cpp:33-56,        *)
(* keyboard.cpp:410-417).                                                  *)
THEOREM KeyBoardIsAForm == Spec => IsAForm
<1>1. TypeOK /\ TypeOK' /\ KbInv /\ [Next]_vars => [Lined!Next]_(Lined!vars)
  BY FormNext
<1> QED BY <1>1, FormInit, KeyBoardTypes, KbInvariant, PTL DEF Spec, IsAForm, Lined!Spec
=============================================================================
