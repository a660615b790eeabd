----------------------------- MODULE MCTransfers -----------------------------
(***************************************************************************)
(* Two names; files that are empty, smaller than a chunk, as long as two   *)
(* chunks, and a little longer.                                            *)
(***************************************************************************)
EXTENDS Transfers

=============================================================================
