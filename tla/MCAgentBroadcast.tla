-------------------------- MODULE MCAgentBroadcast ---------------------------
(***************************************************************************)
(* Two viewers, so that one may fail in front of another, two changes of   *)
(* the screen, so that a frame may wait behind another one, and a test     *)
(* pattern that may stand in for the first picture, changed or not.        *)
(***************************************************************************)
EXTENDS AgentBroadcast

=============================================================================
