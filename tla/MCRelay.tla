------------------------------- MODULE MCRelay -------------------------------
(***************************************************************************)
(* Two sessions that share three addresses, and two routes under way at    *)
(* once.                                                                   *)
(***************************************************************************)
EXTENDS Relay, TLC

MCSymmetry == Permutations(RelayTasks) \cup Permutations(Sessions) \cup Permutations(Endpoints)

=============================================================================
