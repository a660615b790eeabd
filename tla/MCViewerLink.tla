---------------------------- MODULE MCViewerLink -----------------------------
(***************************************************************************)
(* A header of two cells, which a read may cut, and a payload of one; an   *)
(* authentication and a further packet up, frames among the answers down,  *)
(* and a second connection after the first.                                *)
(***************************************************************************)
EXTENDS ViewerLink

=============================================================================
