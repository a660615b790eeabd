--------------------------- MODULE MCControlPlane ----------------------------
(***************************************************************************)
(* Three requests over two devices: a registration, a session with the     *)
(* device and a third request between any two of their steps.              *)
(***************************************************************************)
EXTENDS ControlPlane

MCBytes ==
    [e \in Events |-> <<e.event_type>> \o <<e.resource>> \o <<e.status>> \o <<e.session>>]

=============================================================================
