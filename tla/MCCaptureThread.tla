--------------------------- MODULE MCCaptureThread ---------------------------
(***************************************************************************)
(* Three starts of any backend: a first one, one after a stop, and one     *)
(* more to follow it; two monitors, of which the second is asked for       *)
(* whether or not it is there.                                             *)
(***************************************************************************)
EXTENDS CaptureThread

=============================================================================
