---------------------------- MODULE MCSongSelect ----------------------------
(* The pages of the play list on small instances, with what has happened   *)
(* to the list since the play list page was opened.                        *)
EXTENDS SongSelect

CONSTANTS a, b

MCDbSongs == <<a, b>>

VARIABLES
  stale,  \* history: the list has changed since the page was opened
  raced   \* history: it changed while resume() was reading it

mcVars == <<vars, stale, raced>>

Changed == page = "list" /\ page' = "list" /\ playlist' # playlist

MCInit == Init /\ stale = FALSE /\ raced = FALSE

MCNext ==
  /\ Next
  /\ stale' = (page' = "list" /\ (stale \/ Changed))
  /\ raced' = (page' = "list" /\ (raced \/ (Changed /\ resumeAt # "none")))

MCSpec == MCInit /\ [][MCNext]_mcVars
MCFairSpec == MCSpec /\ WF_mcVars(MCNext /\ (Resume \/ WalkStep))

PageIsOpen == page = "list" /\ resumeAt = "none"

\* The cursor never rests on an invisible widget, however the list changes
\* under the open page, if only it did not change while the page was being
\* opened: then the last size() can disagree with the loop
\* (PlayListView.cpp:182-211).
CursorIsVisible == PageIsOpen /\ ~raced => IsVisible(currentFocus)

\* Until the list changes, the page shows the front of it, item by item, and
\* nothing else (PlayListView.cpp:182-195).
PageShowsTheList ==
  PageIsOpen /\ ~stale =>
    \A i \in Items :
      items[i] = IF i < Len(playlist) THEN At0(playlist, i) ELSE Hidden

\* Opening the page on a list that nobody changes meanwhile never throws, and
\* so does not hang the GUI thread (PlayListView.cpp:182-195).
OpeningThrowsOnlyRaced == GUI \in hung /\ resumeAt = "at" => raced
=============================================================================
