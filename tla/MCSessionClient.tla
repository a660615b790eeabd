--------------------------- MODULE MCSessionClient ---------------------------
(***************************************************************************)
(* The client within one run, for the question whether it goes on          *)
(* reconnecting.                                                           *)
(***************************************************************************)
EXTENDS SessionClient

=============================================================================
