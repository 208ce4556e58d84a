----------------------------- MODULE MCPlayback -----------------------------
(* Playback with any client, on small instances.                           *)
EXTENDS Playback

VARIABLE overlapped   \* history: a thread entered while another was inside

pbMCVars == <<pbVars, overlapped>>

PbMCInit == PbInit /\ overlapped = FALSE

PbMCNext == PbNext /\ overlapped' = (overlapped \/ ~OneAtATime)

PbMCSpec == PbMCInit /\ [][PbMCNext]_pbMCVars

PbMCFairSpec == PbMCSpec /\ PbFairness

\* See ReentryBounded (playback.cpp:338-345): calls that never overlap.
SerialReentryBounded == ~overlapped => ReentryBounded

\* See StateAgreesWithEngine (playback.cpp:163-220): calls that never overlap.
SerialStateAgrees == ~overlapped => StateAgreesWithEngine
=============================================================================
