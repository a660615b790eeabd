---------------------------- MODULE MCSignaling ------------------------------
(***************************************************************************)
(* Two concurrent initiations, two peers (each may be agent or viewer) and *)
(* two session ids, so that a session can be closed while another starts.  *)
(***************************************************************************)
EXTENDS Signaling, TLC

Symmetry ==
    Permutations(Tasks) \cup Permutations(Peers)
        \cup Permutations(SessionIds) \cup Permutations(AgentKeys)

=============================================================================
