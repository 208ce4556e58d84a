---------------------------- MODULE MCGuiManager ----------------------------
(* The page stack with and without commands of the CLI.                    *)
EXTENDS GuiManager

\* History: how the CLI thread was used so far.  "serial": its commands and
\* their posted slots were over before a page asked for something, and pages
\* were done and the event loop ran before a command started.
VARIABLE remote

mcVars == <<vars, remote>>

MCInit == Init /\ remote = "none"

\* The two threads get into each other's way.
Overlap ==
  \/ Free(CLI) /\ ~Free(CLI)' /\ ~(running /\ Free(GUI) /\ ~dialog)
  \/ (GuiStarts \/ KaraokeResume) /\ ~(Free(CLI) /\ posted = <<>>)

Remote ==
  remote' = IF remote = "overlapped" \/ Overlap THEN "overlapped"
            ELSE IF ~Free(CLI)' THEN "serial" ELSE remote

MCSpec == MCInit /\ [][Next /\ Remote]_mcVars

\* Two threads that got into each other's way finish what they began, and
\* the behaviour is followed no further.
OnceOnly == remote = "overlapped" => ~(GuiStarts \/ CliStarts)

OnceSpec == MCInit /\ [][Next /\ Remote /\ OnceOnly]_mcVars

\* See PageFollowsStack (GuiManager.cpp:232-277): commands that do not
\* overlap with what the pages ask.
SerialPageFollowsStack == remote # "overlapped" => PageFollowsStack

\* As long as no command was given, the stack is the way the user took from
\* the login page: Back always has a page to return to, the one it was opened
\* from, and never pops the last (GuiManager.cpp:232-277, 331-345).
LocalNavigation ==
  Nav!Init /\ [][remote' = "none" => Nav!Next \/ UNCHANGED Nav!vars]_mcVars
=============================================================================
