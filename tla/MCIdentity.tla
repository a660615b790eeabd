----------------------------- MODULE MCIdentity ------------------------------
(***************************************************************************)
(* Three request tasks, enough for one device to be registered while a     *)
(* second registration and an authentication overlap.  Liveness is checked *)
(* in the same run, so there is no symmetry reduction.                     *)
(***************************************************************************)
EXTENDS Identity

=============================================================================
