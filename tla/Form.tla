-------------------------------- MODULE Form --------------------------------
(***************************************************************************)
(* What the lines of a form promise their user: one line at a time is      *)
(* edited in a draft, which begins as its text, and OK brings the draft,   *)
(* and nothing else, back into that line.  A line can be typed into as     *)
(* well, which is no matter for the draft: OK undoes what was typed into   *)
(* its line meanwhile.  Which keys a text is made with is left open.       *)
(***************************************************************************)
EXTENDS Sequences

CONSTANTS
  Lines, Chars,
  InitText    \* what every line shows at first

VARIABLES
  text,       \* of each line
  editing,    \* the line that is edited, if any: a set
  draft       \* its text as it is edited

vars == <<text, editing, draft>>

Init == text = [l \in Lines |-> InitText] /\ editing = {} /\ draft = <<>>

\* A line is opened; what was edited in another one is dropped.
Open(l) == editing' = {l} /\ draft' = text[l] /\ UNCHANGED text

\* A draft is edited, and no line with it.
Edit == editing # {} /\ draft' \in Seq(Chars) /\ UNCHANGED <<text, editing>>

\* A key for the line itself: the draft, if any, stays as it is.
Type(l) ==
  /\ text'[l] \in Seq(Chars) /\ text' = [text EXCEPT ![l] = text'[l]]
  /\ UNCHANGED <<editing, draft>>

Accept(l) ==
  /\ editing = {l}
  /\ text' = [text EXCEPT ![l] = draft]
  /\ editing' = {} /\ draft' = <<>>

Next == Edit \/ \E l \in Lines : Open(l) \/ Type(l) \/ Accept(l)

Spec == Init /\ [][Next]_vars
=============================================================================
