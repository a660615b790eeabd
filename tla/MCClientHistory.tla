--------------------------- MODULE MCClientHistory ---------------------------
(***************************************************************************)
(* A small client that is started, killed and started again: two hosts,    *)
(* one Desk ID, two reconnect attempts and a history of two records.       *)
(***************************************************************************)
EXTENDS ClientHistory

=============================================================================
